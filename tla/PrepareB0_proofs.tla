-------------------------- MODULE PrepareB0_proofs --------------------------
(***************************************************************************)
(* Proofs about FixedTipScan, for chains of any height on any branches,    *)
(* and about PrepareB0, which drives it, with prepare-b0 stopped anywhere  *)
(* and repeated any number of times.                                       *)
(***************************************************************************)
EXTENDS PrepareB0, TLAPS

----------------------------------------------------------------------------
(* The fixed-target scan: FixedTipScan. *)

\* The history variable remembers at least the present.
StoodInv == OnChain(target) => stood

\* What a call has established, by place.
PlaceInv ==
    /\ pc = "open" /\ call.kind = "tip" => stood
    /\ pc = "open" /\ call.kind = "fresh" => cursor = Genesis /\ target # Genesis
    /\ pc \in {"header", "completion", "ok"} =>
          Height(cursor) = Height(target) /\ (Strict => cursor = target)
    /\ pc = "completion" => stood
    /\ pc = "ok" /\ call.kind # "given" => stood

\* EndsAtTarget and TargetStood follow from this.
ScanInv == TypeOK /\ StoodInv /\ PlaceInv

----------------------------------------------------------------------------
\* Blocks.

\* A block is a short sequence.
LEMMA BlockIsSequence ==
  ASSUME NEW block \in Block
  PROVE  /\ block \in Seq(Branch)
         /\ Height(block) \in 0..MaxHeight
<1>1. PICK h \in 0..MaxHeight : block \in [1..h -> Branch]
  BY DEF Block
<1>2. h \in Nat
  BY <1>1, ChainAssumption
<1>3. block \in Seq(Branch) /\ Len(block) = h
  BY <1>1, <1>2
<1>. QED
  BY <1>1, <1>3 DEF Height

\* A short sequence is a block.
LEMMA SequenceIsBlock ==
  ASSUME NEW block \in Seq(Branch), Height(block) <= MaxHeight
  PROVE  block \in Block
<1>1. Len(block) \in 0..MaxHeight
  BY ChainAssumption DEF Height
<1>2. block \in [1..Len(block) -> Branch]
  OBVIOUS
<1>. QED
  BY <1>1, <1>2 DEF Block

\* Only the genesis block has height 0.
LEMMA HeightOfGenesis ==
  /\ Genesis \in Block
  /\ Height(Genesis) = 0
  /\ \A block \in Block : Height(block) = 0 => block = Genesis
<1>1. Genesis \in Block
  <2>1. << >> \in Seq(Branch) /\ Len(<< >>) = 0
    OBVIOUS
  <2>2. Height(<< >>) <= MaxHeight
    BY <2>1, ChainAssumption DEF Height
  <2>. QED
    BY <2>1, <2>2, SequenceIsBlock DEF Genesis
<1>2. ASSUME NEW block \in Block, Height(block) = 0 PROVE block = Genesis
  BY <1>2, BlockIsSequence DEF Height, Genesis
<1>. QED
  BY <1>1, <1>2 DEF Height, Genesis

\* The node's chain stays a chain.
LEMMA ChainStep ==
  ASSUME chain \in Block \ {Genesis}, Extend \/ Reorganise
  PROVE  chain' \in Block \ {Genesis}
<1>1. CASE Extend
  <2>1. PICK b \in Branch : Height(chain) < MaxHeight /\ chain' = Append(chain, b)
    BY <1>1 DEF Extend
  <2>2. chain' \in Seq(Branch) /\ Len(chain') = Len(chain) + 1 /\ Len(chain) \in Nat
    BY <2>1, BlockIsSequence DEF Height
  <2>3. Height(chain') <= MaxHeight
    BY <2>1, <2>2, ChainAssumption DEF Height
  <2>4. chain' \in Block
    BY <2>2, <2>3, SequenceIsBlock
  <2>5. Height(chain') # 0
    BY <2>2 DEF Height
  <2>. QED
    BY <2>4, <2>5, HeightOfGenesis
<1>2. CASE Reorganise
  BY <1>2 DEF Reorganise
<1>. QED
  BY <1>1, <1>2

----------------------------------------------------------------------------
\* Scans.

\* The node's moves keep the scan's invariant.
LEMMA NodeStep ==
  ASSUME ScanInv, NodeMoves
  PROVE  ScanInv'
<1>1. chain' \in Block \ {Genesis}
  BY ChainStep DEF ScanInv, TypeOK, NodeMoves
<1>2. stood' = (stood \/ OnChain(target)') /\ UNCHANGED <<cursor, pc, call, before, idle, fetched>>
  BY DEF NodeMoves
<1>3. stood' \in BOOLEAN /\ (stood => stood')
  BY <1>2 DEF OnChain
<1>. QED
  BY <1>1, <1>2, <1>3 DEF ScanInv, TypeOK, StoodInv, PlaceInv, target, Strict

\* So does a call.
LEMMA CallStep ==
  ASSUME ScanInv, NEW kind \in Kind, NEW block \in Block, Call(kind, block),
         kind = "tip" => block = chain,
         kind = "fresh" => block # Genesis /\ cursor' = Genesis,
         kind # "fresh" => cursor' = cursor
  PROVE  ScanInv'
<1>1. OnChain(block)' = OnChain(block)
  BY DEF Call, OnChain
<1>2. OnChain(chain)
  BY BlockIsSequence DEF ScanInv, TypeOK, OnChain, Height
<1>3. call' = [kind |-> kind, target |-> block] /\ pc' = "open" /\ stood' = OnChain(block)
  BY DEF Call
<1>4. OnChain(block) \in BOOLEAN
  BY DEF OnChain
<1>5. TypeOK'
  BY <1>3, <1>4, HeightOfGenesis DEF ScanInv, TypeOK, Call, Kind, Place
<1>6. StoodInv'
  BY <1>1, <1>3 DEF StoodInv, target
<1>7. PlaceInv'
  BY <1>2, <1>3 DEF PlaceInv, target, Kind
<1>. QED
  BY <1>5, <1>6, <1>7 DEF ScanInv

\* Leaving the loop, or moving on within a call, changes no history.
LEMMA LeaveStep ==
  ASSUME ScanInv, NEW place \in {"header", "failed", "idle"}, Leave(place),
         place = "header" =>
            Height(cursor) = Height(target) /\ (Strict => cursor = target)
  PROVE  ScanInv'
<1>1. TypeOK'
  BY HeightOfGenesis, ChainAssumption DEF ScanInv, TypeOK, Leave, Place, NoProgressLimit
<1>2. StoodInv'
  BY DEF ScanInv, StoodInv, Leave, OnChain, target
<1>3. PlaceInv'
  BY DEF Leave, PlaceInv, target, Strict
<1>. QED
  BY <1>1, <1>2, <1>3 DEF ScanInv

\* Every step of a scan keeps the invariant.
LEMMA ProgressStep ==
  ASSUME ScanInv, ScanStep
  PROVE  ScanInv'
<1>. USE DEF target, Strict, Place, Active
<1>a. Height(cursor) \in Nat /\ Height(target) \in Nat
  BY BlockIsSequence, ChainAssumption DEF ScanInv, TypeOK
<1>1. CASE AlreadyThere
  <2>1. call.kind # "fresh"
    BY <1>1, HeightOfGenesis DEF AlreadyThere, ScanInv, PlaceInv, TypeOK
  <2>2. TypeOK' /\ StoodInv'
    BY <1>1 DEF AlreadyThere, Goto, ScanInv, TypeOK, StoodInv, OnChain
  <2>3. PlaceInv'
    BY <1>1, <2>1 DEF AlreadyThere, Goto, ScanInv, PlaceInv, TypeOK, Kind
  <2>. QED
    BY <2>2, <2>3 DEF ScanInv
<1>2. CASE EnterLoop
  BY <1>2 DEF EnterLoop, ScanInv, TypeOK, StoodInv, PlaceInv, OnChain, NoProgressLimit
<1>3. CASE Invoke
  <2>1. before' \in 0..MaxHeight
    BY <1>3, BlockIsSequence DEF Invoke, ScanInv, TypeOK
  <2>. QED
    BY <1>3, <2>1 DEF Invoke, ScanInv, TypeOK, StoodInv, PlaceInv, OnChain
<1>4. CASE Fetch
  BY <1>4 DEF Fetch, ScanInv, TypeOK, StoodInv, PlaceInv, OnChain
<1>5. CASE Persist
  <2>1. OnChain(target) \in BOOLEAN /\ OnChain(target)' = OnChain(target)
    BY <1>5 DEF Persist, OnChain
  <2>2. TypeOK'
    BY <1>5, <2>1, HeightOfGenesis DEF Persist, ScanInv, TypeOK
  <2>3. StoodInv'
    BY <1>5, <2>1 DEF Persist, StoodInv
  <2>4. PlaceInv'
    BY <1>5 DEF Persist, PlaceInv
  <2>. QED
    BY <2>2, <2>3, <2>4 DEF ScanInv
<1>6. CASE Return
  <2>1. CASE Height(cursor) < Height(target)
    <3>1. IdleNow \in 0..(NoProgressLimit - 1)
      BY <1>6, <2>1, <1>a DEF Return, IdleNow, NoProgressLimit, ScanInv, TypeOK
    <3>2. /\ pc' = "invoke" /\ idle' = IdleNow
          /\ UNCHANGED <<chain, cursor, call, before, fetched, stood>>
      BY <1>6, <2>1, <1>a DEF Return
    <3>. QED
      BY <3>1, <3>2 DEF ScanInv, TypeOK, StoodInv, PlaceInv, OnChain
  <2>2. CASE ~(Height(cursor) < Height(target))
    BY <1>6, <2>2, LeaveStep DEF Return
  <2>. QED
    BY <2>1, <2>2
<1>7. CASE CheckHeader
  BY <1>7 DEF CheckHeader, Goto, ScanInv, TypeOK, StoodInv, PlaceInv, OnChain
<1>8. CASE Complete
  BY <1>8 DEF Complete, Goto, ScanInv, TypeOK, StoodInv, PlaceInv, OnChain
<1>9. CASE Bail \/ Deadline \/ Fault \/ Crash
  BY <1>9, LeaveStep DEF Bail, Deadline, Fault, Crash
<1>. QED
  BY <1>1, <1>2, <1>3, <1>4, <1>5, <1>6, <1>7, <1>8, <1>9 DEF ScanStep, Progress

\* It holds at the start.
LEMMA InitScanInv ==
  ASSUME Init
  PROVE  ScanInv
<1>1. chain \in Block \ {Genesis}
  BY HeightOfGenesis DEF Init
<1>2. 0 \in 0..MaxHeight /\ 0 \in 0..(NoProgressLimit - 1)
  BY ChainAssumption DEF NoProgressLimit
<1>. QED
  BY <1>1, <1>2, HeightOfGenesis
     DEF Init, ScanInv, TypeOK, StoodInv, PlaceInv, Kind, Place, target

\* The invariant holds of every behaviour.
LEMMA ScanInvariant == Spec => []ScanInv
<1>1. Init => ScanInv
  BY InitScanInv
<1>2. ScanInv /\ [Next]_vars => ScanInv'
  <2>. SUFFICES ASSUME ScanInv, [Next]_vars PROVE ScanInv'
    OBVIOUS
  <2>1. CASE NodeMoves
    BY <2>1, NodeStep
  <2>2. CASE ScanStep
    BY <2>2, ProgressStep
  <2>3. CASE ScanToTip
    BY <2>3, CallStep DEF ScanToTip, Kind, ScanInv, TypeOK
  <2>4. CASE ScanWallet
    BY <2>4, CallStep DEF ScanWallet, Kind
  <2>5. ASSUME NEW block \in Block \ {Genesis}, ScanFresh(block) PROVE ScanInv'
    BY <2>5, CallStep DEF ScanFresh, Kind
  <2>6. CASE UNCHANGED vars
    BY <2>6 DEF vars, scanVars, ScanInv, TypeOK, StoodInv, PlaceInv, OnChain, target, Strict
  <2>. QED
    BY <2>1, <2>2, <2>3, <2>4, <2>5, <2>6 DEF Next, Callers
<1>. QED
  BY <1>1, <1>2, PTL DEF Spec

\* On every chain, a scan that reports success stands at its target, and the target was
\* selected after the wallet had scanned up to it.
THEOREM ScanCorrect == Spec => [](TypeOK /\ EndsAtTarget /\ TargetStood)
<1>1. ScanInv => TypeOK /\ EndsAtTarget /\ TargetStood
  BY DEF ScanInv, PlaceInv, EndsAtTarget, TargetStood
<1>. QED
  BY <1>1, ScanInvariant, PTL

----------------------------------------------------------------------------
(* The checkpoint: PrepareB0. *)

\* The stages before the console cell is recorded; of these, the ones without an anchor.
Early   == {"down", "launch", "console", "readCursor", "stopConsole", "consoleHeader"}
NoScan  == Early \cup {"validate"}

\* The anchor is a block that is not the genesis block.
AnchorInv ==
    /\ stage = "console" => floor > 0
    /\ stage \in {"readCursor", "stopConsole"} => console # Genesis
    /\ stage \in {"stopConsole", "consoleHeader", "validate"} \cup Library =>
          anchor \in Block \ {Genesis}

\* A library scan is for the anchor, and between the stages there is none.
CallInv ==
    /\ stage \in NoScan => pc = "idle"
    /\ stage \in Library /\ pc # "idle" => call.kind = "fresh" /\ target = anchor

\* A cell in order names the anchor, which outlived its scan.
CellInv ==
    \A m \in Mode : cells[m].status = "ok" =>
        stage \notin Early /\ cells[m].cursor = anchor /\ cells[m].stood

B0Inv ==
    /\ ScanInv /\ B0TypeOK
    /\ AnchorInv /\ CallInv /\ CellInv
    /\ AnchorOutlivesScans

----------------------------------------------------------------------------
\* A finished scan is forgotten without a trace.
LEMMA ForgetStep ==
  ASSUME ScanInv, ForgetScan
  PROVE  ScanInv' /\ pc' = "idle"
<1>1. TypeOK'
  BY HeightOfGenesis, ChainAssumption
     DEF ScanInv, TypeOK, ForgetScan, Place, Kind, NoProgressLimit
<1>2. StoodInv' /\ PlaceInv' /\ pc' = "idle"
  BY DEF ForgetScan, StoodInv, PlaceInv
<1>. QED
  BY <1>1, <1>2 DEF ScanInv

\* Nothing the scan's invariant speaks of has changed.
LEMMA ScanUnchanged ==
  ASSUME ScanInv, UNCHANGED vars
  PROVE  ScanInv'
BY DEF vars, scanVars, ScanInv, TypeOK, StoodInv, PlaceInv, OnChain, target, Strict

\* The command's end leaves only the checkpoint.
LEMMA EndStep ==
  ASSUME B0Inv, End,
         file' = None \/ file' \in [anchor : Block, cells : [Mode -> Cell]],
         AnchorOutlivesScans'
  PROVE  B0Inv'
<1>1. ScanInv' /\ pc' = "idle"
  BY ForgetStep DEF B0Inv, End
<1>2. B0TypeOK'
  BY <1>1, HeightOfGenesis, ChainAssumption
     DEF ScanInv, B0TypeOK, End, Stage, Cell, NoCell, Status
<1>3. AnchorInv' /\ CallInv'
  BY <1>1 DEF End, AnchorInv, CallInv, Library
<1>4. CellInv'
  BY DEF End, CellInv, NoCell
<1>. QED
  BY <1>1, <1>2, <1>3, <1>4 DEF B0Inv

\* The console wallet's stages.
LEMMA ConsoleStep ==
  ASSUME B0Inv,
         Start \/ Launch \/ ConsoleScans \/ ConsoleReachedTip \/ ReadCursor \/ StopConsole
  PROVE  B0Inv'
<1>. USE DEF B0Inv
<1>1. UNCHANGED <<vars, cells, file>>
  BY DEF Start, Launch, ConsoleScans, ConsoleReachedTip, ReadCursor, StopConsole, GotoStage
<1>2. ScanInv'
  BY <1>1, ScanUnchanged
<1>3. pc' = pc /\ call' = call /\ stage \in Early /\ stage' \in Early
  BY <1>1 DEF vars, scanVars, Early, Start, Launch, ConsoleScans, ConsoleReachedTip,
              ReadCursor, StopConsole, GotoStage
<1>4. CallInv'
  BY <1>3 DEF CallInv, NoScan, Early, Library
<1>5. CellInv' /\ AnchorOutlivesScans'
  BY <1>1, <1>3 DEF CellInv, AnchorOutlivesScans
<1>6. Height(chain) \in 0..MaxHeight /\ Height(chain) > 0
  BY BlockIsSequence, HeightOfGenesis DEF ScanInv, TypeOK
<1>7. floor' \in 0..MaxHeight /\ (stage' = "console" => floor' > 0)
  BY <1>6, ChainAssumption
     DEF AnchorInv, B0TypeOK, Start, Launch, ConsoleScans, ConsoleReachedTip, ReadCursor,
         StopConsole, GotoStage
<1>8. ASSUME ConsoleReachedTip PROVE console # Genesis
  <2>1. floor > 0 /\ floor \in Nat /\ Height(console) >= floor
    BY <1>8 DEF ConsoleReachedTip, AnchorInv, B0TypeOK
  <2>. QED
    BY <2>1, HeightOfGenesis
<1>9. /\ console' \in Block
      /\ stage' \in {"readCursor", "stopConsole"} => console' # Genesis
  BY <1>8, HeightOfGenesis
     DEF AnchorInv, B0TypeOK, Start, Launch, ConsoleScans, ConsoleReachedTip, ReadCursor,
         StopConsole, GotoStage
<1>10. /\ anchor' \in Block \cup {None}
       /\ stage' \in {"stopConsole", "consoleHeader"} => anchor' \in Block \ {Genesis}
  BY DEF AnchorInv, B0TypeOK, Start, Launch, ConsoleScans, ConsoleReachedTip, ReadCursor,
         StopConsole, GotoStage
<1>11. B0TypeOK'
  BY <1>1, <1>2, <1>3, <1>7, <1>9, <1>10 DEF B0TypeOK, ScanInv, Early, Stage
<1>12. AnchorInv'
  BY <1>3, <1>7, <1>9, <1>10 DEF AnchorInv, Early, Library
<1>. QED
  BY <1>2, <1>4, <1>5, <1>11, <1>12

\* A cell is recorded: if it is in order, it names the anchor and the anchor stands.
LEMMA CellStep ==
  ASSUME B0Inv, NEW m \in Mode, NEW status \in Status \ {"none"}, NEW block \in Block,
         NEW kept \in BOOLEAN, Records(m, status, block, kept),
         status = "ok" => block = anchor /\ kept,
         stage' \notin Early, UNCHANGED anchor
  PROVE  cells' \in [Mode -> Cell] /\ CellInv'
<1>1. [status |-> status, cursor |-> block, stood |-> kept] \in Cell
  BY DEF Cell
<1>2. cells' \in [Mode -> Cell]
  BY <1>1 DEF Records, B0Inv, B0TypeOK
<1>3. ASSUME NEW n \in Mode, cells'[n].status = "ok"
      PROVE  cells'[n].cursor = anchor /\ cells'[n].stood
  BY <1>3 DEF Records, B0Inv, B0TypeOK, CellInv
<1>. QED
  BY <1>2, <1>3 DEF CellInv

\* The console cell is recorded.
LEMMA VerifiedStep ==
  ASSUME B0Inv, ConsoleVerified
  PROVE  B0Inv'
<1>. USE DEF B0Inv
<1>1. /\ UNCHANGED <<vars, floor, console, anchor, file>>
      /\ stage = "consoleHeader" /\ stage' = "new_wallet"
  BY DEF ConsoleVerified, GotoStage
<1>2. anchor \in Block \ {Genesis} /\ pc' = "idle"
  BY <1>1 DEF AnchorInv, CallInv, NoScan, Early, vars, scanVars
<1>3. ScanInv'
  BY <1>1, ScanUnchanged
<1>4. cells' \in [Mode -> Cell] /\ CellInv'
  BY <1>1, <1>2, CellStep DEF ConsoleVerified, Mode, Status, Early
<1>5. B0TypeOK'
  BY <1>1, <1>3, <1>4 DEF B0TypeOK, ScanInv, Stage, Library
<1>6. AnchorInv' /\ CallInv' /\ AnchorOutlivesScans'
  BY <1>1, <1>2 DEF AnchorInv, CallInv, NoScan, Early, AnchorOutlivesScans
<1>. QED
  BY <1>3, <1>4, <1>5, <1>6

\* A library scan is started and runs.
LEMMA LibraryStep ==
  ASSUME B0Inv, NodeMoves \/ LibraryScans \/ \E m \in Library : StartLibraryScan(m),
         UNCHANGED b0Vars
  PROVE  B0Inv'
<1>. USE DEF B0Inv
<1>1. ScanInv'
  <2>1. CASE NodeMoves
    BY <2>1, NodeStep
  <2>2. CASE LibraryScans
    BY <2>2, ProgressStep DEF LibraryScans, ScanStep
  <2>3. ASSUME NEW m \in Library, StartLibraryScan(m) PROVE ScanInv'
    <3>1. anchor \in Block \ {Genesis} /\ ScanFresh(anchor)
      BY <2>3 DEF StartLibraryScan, AnchorInv
    <3>. QED
      BY <3>1, CallStep DEF ScanFresh, Kind
  <2>. QED
    BY <2>1, <2>2, <2>3
<1>2. CallInv'
  <2>1. CASE NodeMoves
    BY <2>1 DEF NodeMoves, b0Vars, CallInv, target
  <2>2. CASE LibraryScans
    <3>1. pc # "idle" /\ stage \in Library /\ UNCHANGED call
      BY <2>2 DEF LibraryScans, Progress, AlreadyThere, EnterLoop, Invoke, Fetch, Persist,
                  Return, CheckHeader, Complete, Bail, MustFail, Deadline, Fault, Active,
                  Leave, Goto
    <3>. QED
      BY <3>1 DEF b0Vars, CallInv, target, NoScan, Early, Library
  <2>3. ASSUME NEW m \in Library, StartLibraryScan(m) PROVE CallInv'
    BY <2>3 DEF StartLibraryScan, ScanFresh, Call, b0Vars, CallInv, target, NoScan, Early,
                Library
  <2>. QED
    BY <2>1, <2>2, <2>3
<1>3. B0TypeOK' /\ AnchorInv' /\ CellInv' /\ AnchorOutlivesScans'
  BY <1>1 DEF b0Vars, ScanInv, B0TypeOK, AnchorInv, CellInv, AnchorOutlivesScans
<1>. QED
  BY <1>1, <1>2, <1>3

\* A library cell is recorded.
LEMMA RecordStep ==
  ASSUME B0Inv, NEW m \in Library, Measure(m) \/ InfrastructureFailure(m)
  PROVE  B0Inv'
<1>. USE DEF B0Inv
<1>1. PICK status \in {"ok", "failed", "harnessError"} :
         Record(m, status) /\ (status = "ok" => pc = "ok" /\ cursor = anchor)
  BY DEF Measure, InfrastructureFailure
<1>2. /\ stage = m /\ stage' = AfterMode(m) /\ UNCHANGED <<floor, console, anchor, file>>
      /\ Records(m, status, cursor, stood) /\ ForgetScan
  BY <1>1 DEF Record
<1>3. stage' \in {"payment_processor", "validate"} /\ m \in Mode /\ stage \in Library
  BY <1>2 DEF AfterMode, Mode, Library
<1>4. pc \in {"ok", "failed"}
  BY DEF Measure, InfrastructureFailure
<1>5. status = "ok" => stood
  BY <1>1, <1>3, <1>4 DEF CallInv, ScanInv, PlaceInv
<1>6. cursor \in Block /\ stood \in BOOLEAN
  BY DEF ScanInv, TypeOK
<1>7. cells' \in [Mode -> Cell] /\ CellInv'
  BY <1>1, <1>2, <1>3, <1>5, <1>6, CellStep DEF Status, Early
<1>8. ScanInv' /\ pc' = "idle"
  BY <1>2, ForgetStep
<1>9. B0TypeOK'
  BY <1>2, <1>3, <1>7, <1>8 DEF B0TypeOK, ScanInv, Stage, Library
<1>10. AnchorInv' /\ CallInv'
  BY <1>2, <1>3, <1>8 DEF AnchorInv, CallInv, Library
<1>11. AnchorOutlivesScans'
  BY <1>2 DEF AnchorOutlivesScans
<1>. QED
  BY <1>7, <1>8, <1>9, <1>10, <1>11

\* On every chain and whatever happened before: the checkpoint on disk names one block that
\* three wallets scanned up to, and that the node had selected after each of the scans.
THEOREM CheckpointCorrect == B0Spec => [](B0TypeOK /\ AnchorOutlivesScans)
<1>1. B0Init => B0Inv
  <2>. SUFFICES ASSUME B0Init PROVE B0Inv
    OBVIOUS
  <2>1. ScanInv
    BY InitScanInv DEF B0Init
  <2>2. B0TypeOK
    BY <2>1, HeightOfGenesis, ChainAssumption
       DEF B0Init, ScanInv, B0TypeOK, Stage, Cell, NoCell, Status
  <2>3. AnchorInv /\ CallInv /\ CellInv /\ AnchorOutlivesScans
    BY DEF B0Init, Init, AnchorInv, CallInv, CellInv, NoCell, AnchorOutlivesScans, Library
  <2>. QED
    BY <2>1, <2>2, <2>3 DEF B0Inv
<1>2. B0Inv /\ [B0Next]_allVars => B0Inv'
  <2>. SUFFICES ASSUME B0Inv, [B0Next]_allVars PROVE B0Inv'
    OBVIOUS
  <2>1. CASE NodeMoves /\ UNCHANGED b0Vars
    BY <2>1, LibraryStep
  <2>2. CASE Start \/ Launch \/ ConsoleScans \/ ConsoleReachedTip \/ ReadCursor \/ StopConsole
    BY <2>2, ConsoleStep
  <2>3. CASE ConsoleVerified
    BY <2>3, VerifiedStep
  <2>4. CASE LibraryScans
    BY <2>4, LibraryStep DEF LibraryScans
  <2>5. ASSUME NEW m \in Library, StartLibraryScan(m) PROVE B0Inv'
    BY <2>5, LibraryStep DEF StartLibraryScan
  <2>6. ASSUME NEW m \in Library, Measure(m) \/ InfrastructureFailure(m) PROVE B0Inv'
    BY <2>6, RecordStep
  <2>7. CASE WriteCheckpoint
    <3>1. anchor \in Block /\ cells \in [Mode -> Cell]
      BY <2>7 DEF WriteCheckpoint, B0Inv, AnchorInv, B0TypeOK
    <3>2. file' = [anchor |-> anchor, cells |-> cells] /\ End
      BY <2>7 DEF WriteCheckpoint
    <3>3. \A m \in Mode : cells[m].cursor = anchor /\ cells[m].stood
      BY <2>7 DEF WriteCheckpoint, B0Inv, CellInv
    <3>4. AnchorOutlivesScans'
      BY <3>2, <3>3 DEF AnchorOutlivesScans
    <3>. QED
      BY <3>1, <3>2, <3>4, EndStep
  <2>8. CASE Stop
    <3>1. AnchorOutlivesScans' /\ End /\ UNCHANGED file
      BY <2>8 DEF Stop, B0Inv, AnchorOutlivesScans
    <3>. QED
      BY <3>1, EndStep DEF B0Inv, B0TypeOK
  <2>9. CASE UNCHANGED allVars
    <3>1. ScanInv'
      BY <2>9, ScanUnchanged DEF allVars, B0Inv
    <3>. QED
      BY <2>9, <3>1
         DEF allVars, vars, scanVars, b0Vars, B0Inv, ScanInv, B0TypeOK, AnchorInv, CallInv,
             CellInv, AnchorOutlivesScans, target
  <2>. QED
    BY <2>1, <2>2, <2>3, <2>4, <2>5, <2>6, <2>7, <2>8, <2>9 DEF B0Next, B0Progress
<1>3. B0Inv => B0TypeOK /\ AnchorOutlivesScans
  BY DEF B0Inv
<1>. QED
  BY <1>1, <1>2, <1>3, PTL DEF B0Spec

=============================================================================
