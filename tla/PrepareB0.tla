----------------------------- MODULE PrepareB0 -----------------------------
(***************************************************************************)
(* prepare-b0: prepare_b0_profile_inner of src/src/runner.rs with          *)
(* annotate_prefunding_b0 and the fresh scans it runs.  The console wallet *)
(* has no stop height: it scans until it has reached the tip of its        *)
(* launch, and the cursor it then stands at is the anchor that both        *)
(* library scans must reach.  The checkpoint is written when all three     *)
(* cells are in order.                                                     *)
(***************************************************************************)
EXTENDS FixedTipScan

CONSTANT None   \* no block, no checkpoint

ASSUME NoneIsNoBlock == None \notin Block

VARIABLES
    stage,      \* where prepare-b0 is, "down" when it does not run
    floor,      \* launch_tip.height
    console,    \* the console wallet's cursor; it scans as long as it lives
    anchor,     \* the cursor it stood at when it was asked
    cells,      \* the B0 cell of each mode
    file        \* the B0 checkpoint on disk

b0Vars == <<stage, floor, console, anchor, cells, file>>
allVars == <<vars, b0Vars>>

Mode    == {"old_wallet", "new_wallet", "payment_processor"}
Library == {"new_wallet", "payment_processor"}
Stage   == {"down", "launch", "console", "readCursor", "stopConsole", "consoleHeader",
            "validate"} \cup Library
Status  == {"none", "ok", "failed", "harnessError"}
Cell    == [status : Status, cursor : Block \cup {None}, stood : BOOLEAN]

NoCell == [status |-> "none", cursor |-> None, stood |-> FALSE]

B0TypeOK ==
    /\ TypeOK
    /\ stage \in Stage
    /\ floor \in 0..MaxHeight
    /\ console \in Block
    /\ anchor \in Block \cup {None}
    /\ cells \in [Mode -> Cell]
    /\ file = None \/ file \in [anchor : Block, cells : [Mode -> Cell]]

B0Init ==
    /\ Init
    /\ stage = "down"
    /\ floor = 0
    /\ console = Genesis
    /\ anchor = None
    /\ cells = [m \in Mode |-> NoCell]
    /\ file = None

GotoStage(s) == stage' = s /\ UNCHANGED vars

\* The scan that is over leaves nothing behind but what the cell recorded.
ForgetScan ==
    /\ pc' = "idle"
    /\ cursor' = Genesis
    /\ call' = [kind |-> "fresh", target |-> Genesis]
    /\ before' = 0 /\ idle' = 0 /\ fetched' = Genesis
    /\ stood' = TRUE
    /\ UNCHANGED chain

\* The command ends, and its memory with it.
End ==
    /\ stage' = "down"
    /\ floor' = 0
    /\ console' = Genesis
    /\ anchor' = None
    /\ cells' = [m \in Mode |-> NoCell]
    /\ ForgetScan

----------------------------------------------------------------------------
\* The console wallet.

\* reset_dir, and the console wallet is launched in recovery.
Start ==
    /\ stage = "down"
    /\ GotoStage("launch")
    /\ UNCHANGED <<floor, console, anchor, cells, file>>

Launch ==
    /\ stage = "launch"
    /\ floor' = Height(chain)
    /\ GotoStage("console")
    /\ UNCHANGED <<console, anchor, cells, file>>

\* The process scans by itself, also while the harness reads from it.
ConsoleScans ==
    /\ stage \in {"console", "readCursor", "stopConsole"}
    /\ \E block \in Block \ {Genesis} :
         /\ OnChain(block)
         /\ Height(block) > Height(console) \/ ~OnChain(console)
         /\ console' = block
    /\ UNCHANGED <<vars, stage, floor, anchor, cells, file>>

\* wait_for_mode1_scan_to_tip
ConsoleReachedTip ==
    /\ stage = "console"
    /\ Height(console) >= floor
    /\ floor' = 0
    /\ GotoStage("readCursor")
    /\ UNCHANGED <<console, anchor, cells, file>>

\* mode1_scan_cursor: the block read here is the target from now on.
ReadCursor ==
    /\ stage = "readCursor"
    /\ anchor' = console
    /\ GotoStage("stopConsole")
    /\ UNCHANGED <<floor, console, cells, file>>

StopConsole ==
    /\ stage = "stopConsole"
    /\ console' = Genesis
    /\ GotoStage("consoleHeader")
    /\ UNCHANGED <<floor, anchor, cells, file>>

Records(m, status, block, kept) ==
    cells' = [cells EXCEPT ![m] = [status |-> status, cursor |-> block, stood |-> kept]]

\* Mutant of ConsoleVerified: the anchor's header is not asked for.
ConsoleTrusted ==
    /\ stage = "consoleHeader"
    /\ Records("old_wallet", "ok", anchor, OnChain(anchor))
    /\ GotoStage("new_wallet")
    /\ UNCHANGED <<floor, console, anchor, file>>

\* validate_authoritative_target_header, and scan_target_from_profile, which ends the
\* command when the cell is not in order.
ConsoleVerified ==
    /\ stage = "consoleHeader"
    /\ OnChain(anchor)
    /\ Records("old_wallet", "ok", anchor, TRUE)
    /\ GotoStage("new_wallet")
    /\ UNCHANGED <<floor, console, anchor, file>>

----------------------------------------------------------------------------
\* The library scans and the checkpoint.

AfterMode(m) == IF m = "new_wallet" THEN "payment_processor" ELSE "validate"

\* run_library_fresh_scan with the anchor as its target
StartLibraryScan(m) ==
    /\ stage = m
    /\ pc = "idle"
    /\ ScanFresh(anchor)
    /\ UNCHANGED b0Vars

LibraryScans ==
    /\ stage \in Library
    /\ Progress \/ Deadline \/ Fault
    /\ UNCHANGED b0Vars

\* The cell is recorded and the command goes on with the next.
Record(m, status) ==
    /\ stage = m
    /\ Records(m, status, cursor, stood)
    /\ stage' = AfterMode(m)
    /\ ForgetScan
    /\ UNCHANGED <<floor, console, anchor, file>>

\* scan_verification_ok: the wallet's cursor is read again and compared with the target.
Measure(m) ==
    /\ pc = "ok"
    /\ Record(m, IF cursor = anchor THEN "ok" ELSE "failed")

\* Mutant of InfrastructureFailure: a status the profile does not know.
UnknownFailure(m) ==
    /\ pc = "failed"
    /\ Record(m, "error")

InfrastructureFailure(m) ==
    /\ pc = "failed"
    /\ Record(m, "harnessError")

\* validate_prefunding_b0_metrics, then the atomic write
WriteCheckpoint ==
    /\ stage = "validate"
    /\ \A m \in Mode : cells[m].status = "ok" /\ cells[m].cursor = anchor
    /\ file' = [anchor |-> anchor, cells |-> cells]
    /\ End

\* The command ends: by an error, a deadline of the console scan, a cell that is not in
\* order, or with its process.  The checkpoint of an earlier run stays.
Stop ==
    /\ stage # "down"
    /\ End
    /\ UNCHANGED file

B0Progress ==
    \/ Start \/ Launch \/ ConsoleReachedTip \/ ReadCursor \/ StopConsole \/ ConsoleVerified
    \/ LibraryScans \/ WriteCheckpoint
    \/ \E m \in Library : StartLibraryScan(m) \/ Measure(m) \/ InfrastructureFailure(m)

B0Next ==
    \/ NodeMoves /\ UNCHANGED b0Vars
    \/ ConsoleScans
    \/ B0Progress
    \/ Stop

B0Spec == B0Init /\ [][B0Next]_allVars

----------------------------------------------------------------------------
\* A checkpoint on disk says that three wallets scanned up to one and the same block, and
\* that block was on the node's selected chain after each of the three had reached it: a
\* scan of a branch that was given up meanwhile does not pass for one of the chain.
AnchorOutlivesScans == file # None =>
    \A m \in Mode : file.cells[m].cursor = file.anchor /\ file.cells[m].stood

=============================================================================
