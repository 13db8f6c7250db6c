---------------------------- MODULE FixedTipScan ----------------------------
(***************************************************************************)
(* scan_to_tip and scan_to_fixed_tip of src/src/live_minotari.rs: a wallet *)
(* database is scanned up to one target block while the chain grows and    *)
(* reorganises.  The scanner itself is a library: it stops early, stops    *)
(* without progress, goes one block too far, or follows a branch that is   *)
(* given up between its download and its commit.                           *)
(*                                                                         *)
(* The cursor is durable; everything else is one call's memory.            *)
(***************************************************************************)
EXTENDS NodeChain

VARIABLES
    cursor,     \* the wallet's latest scanned block
    pc,         \* where the call is
    call,       \* what it was asked for
    before,     \* previous_height
    idle,       \* consecutive_no_progress
    fetched,    \* the block the scanner has downloaded up to
    stood       \* history: the target was selected at some moment since the cursor moved

scanVars == <<pc, call, before, idle, fetched, stood>>
vars == <<chain, cursor, scanVars>>

NoProgressLimit == 3

\* scan_to_tip takes the tip as its target; scan-wallet may be given one; a fresh scan is
\* given one too, resets the wallet first and leaves the hash to its own verification.
Kind   == {"tip", "given", "fresh"}
Place  == {"idle", "open", "invoke", "scanning", "persist", "header", "completion",
           "ok", "failed"}
Active == Place \ {"idle", "ok", "failed"}

TypeOK ==
    /\ chain \in Block \ {Genesis}
    /\ cursor \in Block
    /\ pc \in Place
    /\ call \in [kind : Kind, target : Block]
    /\ before \in 0..MaxHeight
    /\ idle \in 0..(NoProgressLimit - 1)
    /\ fetched \in Block
    /\ stood \in BOOLEAN

target == call.target
Strict == call.kind # "fresh"

Init ==
    /\ chain \in {b \in Block : Height(b) = 1}
    /\ cursor = Genesis
    /\ pc = "idle"
    /\ call = [kind |-> "tip", target |-> chain]
    /\ before = 0
    /\ idle = 0
    /\ fetched = Genesis
    /\ stood = TRUE

Goto(place) == pc' = place /\ UNCHANGED <<chain, cursor, call, before, idle, fetched, stood>>

\* The loop is left, and its variables with it.
Leave(place) ==
    /\ pc' = place
    /\ before' = 0 /\ idle' = 0 /\ fetched' = Genesis
    /\ UNCHANGED <<chain, cursor, call, stood>>

----------------------------------------------------------------------------
\* The node.

NodeMoves ==
    /\ Extend \/ Reorganise
    /\ UNCHANGED <<cursor, pc, call, before, idle, fetched>>
    /\ stood' = (stood \/ OnChain(target)')

----------------------------------------------------------------------------
\* The callers.

Call(kind, block) ==
    /\ pc \notin Active
    /\ call' = [kind |-> kind, target |-> block]
    /\ pc' = "open"
    /\ stood' = OnChain(block)
    /\ UNCHANGED <<chain, before, idle, fetched>>

ScanToTip == Call("tip", chain) /\ UNCHANGED cursor

\* scan_wallet_db with --target-height and --target-hash
ScanWallet == \E block \in Block \ {Genesis} : Call("given", block) /\ UNCHANGED cursor

\* run_library_fresh_scan: reset_sqlite_files, then a scan to the target it was given
ScanFresh(block) == Call("fresh", block) /\ cursor' = Genesis

----------------------------------------------------------------------------
\* scan_to_fixed_tip.

\* The wallet stands at the target height already: only its hash is asked for.
AlreadyThere ==
    /\ pc = "open"
    /\ Height(cursor) = Height(target)
    /\ Strict => cursor = target
    /\ Goto("ok")

EnterLoop ==
    /\ pc = "open"
    /\ Height(cursor) < Height(target)
    /\ pc' = "invoke"
    /\ idle' = 0
    /\ UNCHANGED <<chain, cursor, call, before, fetched, stood>>

\* Scanner::run in ScanMode::Partial starts.
Invoke ==
    /\ pc = "invoke"
    /\ before' = Height(cursor)
    /\ pc' = "scanning"
    /\ UNCHANGED <<chain, cursor, call, idle, fetched, stood>>

\* The scanner downloads blocks of the selected chain: higher ones, or the way back from a
\* branch it finds given up.  It may go one past the range it was asked for.
Fetch ==
    /\ pc = "scanning"
    /\ \E block \in Block :
         /\ OnChain(block)
         /\ Height(block) <= Height(target) + 1
         /\ Height(block) > Height(cursor) \/ ~OnChain(cursor)
         /\ fetched' = block
    /\ pc' = "persist"
    /\ UNCHANGED <<chain, cursor, call, before, idle, stood>>

\* It commits them, whatever the node has selected since.
Persist ==
    /\ pc = "persist"
    /\ cursor' = fetched
    /\ stood' = OnChain(target)
    /\ fetched' = Genesis
    /\ pc' = "scanning"
    /\ UNCHANGED <<chain, call, before, idle>>

IdleNow == IF Height(cursor) = before THEN idle + 1 ELSE 0

\* Mutant of Return: a cursor beyond the target ends the loop like one that stands there.
ReturnBeyond ==
    /\ pc = "scanning"
    /\ \/ /\ Height(cursor) < Height(target)
          /\ IdleNow < NoProgressLimit
          /\ idle' = IdleNow
          /\ pc' = "invoke"
          /\ UNCHANGED <<chain, cursor, call, before, fetched, stood>>
       \/ /\ Height(cursor) >= Height(target)
          /\ Strict => cursor = target
          /\ Leave("header")

\* Mutant of Return: one return without progress more than the limit.
ReturnForgiving ==
    /\ pc = "scanning"
    /\ \/ /\ Height(cursor) < Height(target)
          /\ IdleNow <= NoProgressLimit
          /\ idle' = IdleNow
          /\ pc' = "invoke"
          /\ UNCHANGED <<chain, cursor, call, before, fetched, stood>>
       \/ /\ Height(cursor) = Height(target)
          /\ Strict => cursor = target
          /\ Leave("header")

\* Scanner::run has returned: the loop goes on below the target and ends there.
Return ==
    /\ pc = "scanning"
    /\ \/ /\ Height(cursor) < Height(target)
          /\ IdleNow < NoProgressLimit
          /\ idle' = IdleNow
          /\ pc' = "invoke"
          /\ UNCHANGED <<chain, cursor, call, before, fetched, stood>>
       \/ /\ Height(cursor) = Height(target)
          /\ Strict => cursor = target
          /\ Leave("header")

\* Mutant of CheckHeader: the selected chain is not asked.
SkipHeader ==
    /\ pc = "header"
    /\ Goto("completion")

\* base_node_header_hash at the target height
CheckHeader ==
    /\ pc = "header"
    /\ OnChain(target)
    /\ Goto("completion")

\* The completion tip is read, and recorded as it is.
Complete ==
    /\ pc = "completion"
    /\ Goto("ok")

\* The checks that end the call with an error.
MustFail ==
    \/ pc = "open" /\ Height(cursor) > Height(target)
    \/ pc = "open" /\ Height(cursor) = Height(target) /\ Strict /\ cursor # target
    \/ pc = "scanning" /\ Height(cursor) > Height(target)
    \/ pc = "scanning" /\ Height(cursor) < Height(target) /\ IdleNow = NoProgressLimit
    \/ pc = "scanning" /\ Height(cursor) = Height(target) /\ Strict /\ cursor # target
    \/ pc = "header" /\ ~OnChain(target)

Bail == MustFail /\ Leave("failed")

\* Mutant of Deadline: tested between invocations only, the scanner runs without one.
DeadlineBetween == pc = "invoke" /\ Leave("failed")

\* "wallet scan exceeded its total deadline": before or during a scanner invocation
Deadline == pc \in {"invoke", "scanning", "persist"} /\ Leave("failed")

\* Any other error of the node, the scanner or the database
Fault == pc \in Active /\ Leave("failed")

\* The process ends; the database stays.
Crash == pc \in Active /\ Leave("idle")

Progress ==
    \/ AlreadyThere \/ EnterLoop \/ Invoke \/ Fetch \/ Persist \/ Return \/ CheckHeader
    \/ Complete \/ Bail

ScanStep == Progress \/ Deadline \/ Fault \/ Crash

Callers == ScanToTip \/ ScanWallet \/ \E block \in Block \ {Genesis} : ScanFresh(block)

Next == NodeMoves \/ ScanStep \/ Callers

Spec == Init /\ [][Next]_vars

\* A call that can go on does, and one that keeps scanning meets its deadline.
FairSpec == Spec /\ WF_vars(Progress) /\ SF_vars(Deadline)

----------------------------------------------------------------------------
\* A scan that reports success stands at its target: at that height, and, unless the
\* caller compares the hashes itself, on that block.
EndsAtTarget == pc = "ok" =>
    /\ Height(cursor) = Height(target)
    /\ Strict => cursor = target

\* A scan that reports success names a target that was selected at some moment after the
\* wallet had scanned up to it: a reorganisation before that moment fails the scan.  A
\* target given on the command line to a wallet that stands there is not checked.
TargetStood == pc = "ok" /\ call.kind # "given" => stood

\* Whatever the chain and the scanner do, a scan ends.
ScanEnds == pc \in Active ~> pc \notin Active

=============================================================================
