---------------------------- MODULE Mode3_proofs ----------------------------
(***************************************************************************)
(* Proofs about Mode3, for any batches of S4 and S5 in any number of arms, *)
(* whatever the three programs and the chain do, and wherever the run is   *)
(* interrupted.                                                            *)
(***************************************************************************)
EXTENDS Mode3, InductionLemmas

\* A batch of the scenario, or of the one after it, that was not asked for is unknown to everybody.
Untouched(b) == b \notin wire /\ db[b] = "none" /\ node[b] = "unsent"

CallsInv ==
    /\ pc \in Starting => arm = 1 /\ \A b \in Batch : rec[b] = "none"
    /\ ~IsS5 => \A b \in Members(0) : rec[b] = "none"
    /\ \A b \in Mine \cup Members(0) : rec[b] = "none" => Untouched(b)

\* What was proved is in a snapshot, the arm's latest one or the scenario's, and confirmed there.
ObservedInv ==
    /\ proofs \subseteq shot \cup latest
    /\ \A b \in proofs : db[b] = "CONFIRMED"
    /\ pc \notin {"observe", "observed"} => latest = {}

\* The balance the scenario began with is what batches of earlier scenarios left of it.
BaseInv == base # None => \E before \in SUBSET (debited \ Mine) : base = Balance(before)

SettledInv ==
    pc = "record" /\ base # None /\ ~stateError /\ Mine \subseteq proofs => Mine \subseteq debited

\* Which processes there are, by place, and which one the harness is busy with.
HandInv ==
    /\ pc \in (Starting \ {"signer"}) \cup Sending => how = "idle"
    /\ pc = "start" => leader \cup rest = {}
    /\ pc \in {"start", "signer"} => Processor \notin held
    /\ pc = "signer" => at = Signer
    /\ pc = "shutProcessor" => at \in {None, Processor}
    /\ pc = "shutReceiver" => at \in {None, Receiver}
    /\ how = "ok" => ~group_exists(at)
    /\ how = "dropped" => Doomed(at)
    /\ pc \notin {"start", "signer", "dropping", "ended"} => ~group_exists(Signer)
    /\ pc = "shutReceiver" => ~group_exists(Processor)
    /\ pc \in {"dropping", "ended"} /\ fate \in {"complete", "blocked"} => leader \cup rest = {}
    /\ \A p \in Process \ held : Doomed(p)

\* The type of what is not a process.
DataTypeOK ==
    /\ PPTypeOK
    /\ arms \in Configs
    /\ arm \in Nat
    /\ overdue \in BOOLEAN
    /\ latest \subseteq {b \in Members(arm) : rec[b] = "accepted" /\ b \in Settled}
    /\ proofs \subseteq {b \in Batch : rec[b] = "accepted" /\ node[b] = "deep"}
    /\ shot \subseteq {b \in Mine : rec[b] = "accepted" /\ b \in Settled}
    /\ expired \in BOOLEAN
    /\ base \in 0..Balance(Batch) \cup {None}
    /\ stateError \in BOOLEAN

PlaceTypeOK ==
    /\ ProcTypeOK
    /\ pc \in Starting \cup Sending \cup Leaving \cup {"ended"}
    /\ held \subseteq Process
    /\ fate \in {"none", "complete", "blocked", "startup", "error", "interrupted"}

PlaceInv == PlaceTypeOK /\ HandInv

DataInv == DataTypeOK /\ CallsInv /\ ObservedInv /\ BaseInv /\ SettledInv

\* OkIsSettled, RowsMatchObservations and NoChildSurvives follow from this.
Inv == PlaceInv /\ DataInv

----------------------------------------------------------------------------
\* Sums over batches: Balance adds what each batch costs.

LEMMA BalanceIsSum ==
  ASSUME NEW S
  PROVE  Balance(S) = SumOf(Cost, S)
BY DEF Balance, SumOf

LEMMA CostAdds == IsFiniteSet(Batch) /\ Cost \in [Batch -> Nat]
BY BatchAssumption, ConfigAssumption

LEMMA BalanceEmpty == Balance({}) = 0
BY SumEmpty, CostAdds, BalanceIsSum

LEMMA BalanceNat ==
  ASSUME NEW S \in SUBSET Batch
  PROVE  Balance(S) \in Nat
BY SumNat, CostAdds, BalanceIsSum

\* Batches apart from each other add up.
LEMMA BalanceApart ==
  ASSUME NEW A \in SUBSET Batch, NEW B \in SUBSET Batch, A \cap B = {}
  PROVE  Balance(A \cup B) = Balance(A) + Balance(B)
<1>1. SumOf(Cost, A \cup B) = SumOf(Cost, A) + SumOf(Cost, B)
  BY SumApart, CostAdds
<1>. QED
  BY <1>1, BalanceIsSum, Zenon

\* More batches take no less, and every batch takes something.
LEMMA BalanceGrows ==
  ASSUME NEW A \in SUBSET Batch, NEW B \in SUBSET A
  PROVE  Balance(A) = Balance(B) + Balance(A \ B) /\ Balance(B) <= Balance(A)
<1>1. A = B \cup (A \ B) /\ B \cap (A \ B) = {}
  OBVIOUS
<1>2. Balance(A) = Balance(B) + Balance(A \ B)
  BY <1>1, BalanceApart
<1>. QED
  BY <1>2, BalanceNat

LEMMA BalancePositive ==
  ASSUME NEW A \in SUBSET Batch, Balance(A) = 0
  PROVE  A = {}
<1>1. SUFFICES ASSUME NEW b \in A
               PROVE  FALSE
  OBVIOUS
<1>2. Balance(A) = Cost[b] + Balance(A \ {b})
  <2>1. SumOf(Cost, A) = Cost[b] + SumOf(Cost, A \ {b})
    BY SumRemove, CostAdds
  <2>. QED
    BY <2>1, BalanceIsSum, Zenon
<1>3. Cost[b] \in Nat \ {0} /\ Balance(A \ {b}) \in Nat
  BY ConfigAssumption, BalanceNat
<1>. QED
  BY <1>2, <1>3

----------------------------------------------------------------------------
\* The processes.

LEMMA NamesDiffer ==
  /\ Signer \in Process /\ Receiver \in Process /\ Processor \in Process
  /\ Signer # None /\ Receiver # None /\ Processor # None
BY TopologyAssumption, ProcessAssumption

LEMMA StartingStep ==
  ASSUME PlaceInv, StartSigner \/ StartReceiver \/ StartProcessor \/ Healthy
  PROVE  PlaceInv'
<1>. USE TopologyAssumption, NamesDiffer DEF PlaceInv, PlaceTypeOK, ProcTypeOK, HandInv, Starting, Sending, Leaving,
         group_exists, Doomed, Waiting, Resting, Dropping
<1>1. CASE StartSigner
  BY <1>1 DEF StartSigner, Start, Spawned
<1>2. CASE StartReceiver
  BY <1>2 DEF StartReceiver, Spawned
<1>3. CASE StartProcessor
  BY <1>3 DEF StartProcessor, Start, Spawned
<1>4. CASE Healthy
  BY <1>4 DEF Healthy, procVars
<1>. QED
  BY <1>1, <1>2, <1>3, <1>4

LEMMA GateKeepsPlace ==
  ASSUME PlaceInv, NEW outcome \in {"complete", "blocked", "error"}, Gate(outcome)
  PROVE  PlaceInv'
BY TopologyAssumption, NamesDiffer DEF PlaceInv, PlaceTypeOK, ProcTypeOK, HandInv, Starting, Sending, Leaving,
   group_exists, Doomed, Waiting, Resting, Dropping, Gate, procVars

LEMMA GivingUpStep ==
  ASSUME PlaceInv, StartupFails \/ Interrupt
  PROVE  PlaceInv'
BY TopologyAssumption, NamesDiffer DEF PlaceInv, PlaceTypeOK, ProcTypeOK, HandInv, Starting, Sending, Leaving,
   group_exists, Doomed, Waiting, Resting, Dropping, StartupFails, Interrupt

\* The harness is busy with one process.
LEMMA EndingKeepsPlace ==
  ASSUME PlaceInv, Ending, UNCHANGED <<pc, held, fate>>
  PROVE  PlaceInv'
<1>. USE TopologyAssumption, NamesDiffer DEF PlaceInv, PlaceTypeOK, ProcTypeOK, HandInv, Starting, Sending, Leaving,
         group_exists, Doomed, Waiting, Resting, Dropping, Then, Term, Kill
<1>1. CASE LeaderGone
  BY <1>1 DEF LeaderGone
<1>2. CASE WaitExpires
  BY <1>2 DEF WaitExpires
<1>3. CASE RestGone
  BY <1>3 DEF RestGone
<1>4. CASE RestStays
  BY <1>4 DEF RestStays
<1>5. CASE DropDone
  BY <1>5 DEF DropDone
<1>6. CASE DropExpires
  BY <1>6 DEF DropExpires
<1>. QED
  BY <1>1, <1>2, <1>3, <1>4, <1>5, <1>6 DEF Ending

LEMMA ShutdownStep ==
  ASSUME PlaceInv, Shutdown \/ ShutdownReturns, UNCHANGED held
  PROVE  PlaceInv'
<1>. USE TopologyAssumption, NamesDiffer DEF PlaceInv, PlaceTypeOK, ProcTypeOK, HandInv, Starting, Sending, Leaving,
         group_exists, Doomed, Waiting, Resting, Dropping, Begin, Term
<1>1. CASE Shutdown
  BY <1>1 DEF Shutdown, BeginShutdown
<1>2. CASE ShutdownReturns
  BY <1>2 DEF ShutdownReturns
<1>. QED
  BY <1>1, <1>2

LEMMA DroppingStep ==
  ASSUME PlaceInv, DropNext \/ Dropped \/ AllDropped
  PROVE  PlaceInv'
<1>. USE TopologyAssumption, NamesDiffer DEF PlaceInv, PlaceTypeOK, ProcTypeOK, HandInv, Starting, Sending, Leaving,
         group_exists, Doomed, Waiting, Resting, Dropping, Begin, Term
<1>1. CASE DropNext
  BY <1>1 DEF DropNext, BeginDrop
<1>2. CASE Dropped
  BY <1>2 DEF Dropped
<1>3. CASE AllDropped
  BY <1>3 DEF AllDropped, procVars
<1>. QED
  BY <1>1, <1>2, <1>3

\* Nothing is started or ended while the scenarios run.
LEMMA SendsKeepPlace ==
  ASSUME PlaceInv, Sends
  PROVE  PlaceInv'
<1>1. UNCHANGED <<procVars, held>> /\ pc \in Sending
  BY DEF Sends, Submit, AllAnswered, SubmitDeadline, Expire, Respond, ObserveOnce, AddBatch, BalanceRead,
     BalanceTimesOut, RecordS4, RecordS5, Harness, Sending
<1>2. \/ UNCHANGED fate /\ pc' \in Sending
      \/ pc' = "shutProcessor" /\ fate' = "complete"
      \/ pc' = "dropping" /\ fate' = "error"
  BY DEF Sends, Submit, AllAnswered, SubmitDeadline, Expire, Respond, ObserveOnce, AddBatch, BalanceRead,
     BalanceTimesOut, RecordS4, RecordS5, Harness, Sending
<1>. QED
  BY <1>1, <1>2, NamesDiffer DEF PlaceInv, PlaceTypeOK, ProcTypeOK, HandInv, Starting, Sending, Leaving,
     group_exists, Doomed, procVars, Waiting, Resting, Dropping

\* Processes end by themselves.
LEMMA ExitKeepsPlace ==
  ASSUME PlaceInv, NEW p \in Process, LeaderExits(p) \/ RestExits(p), UNCHANGED <<pc, held, fate>>
  PROVE  PlaceInv'
<1>. USE TopologyAssumption, NamesDiffer DEF PlaceInv, PlaceTypeOK, ProcTypeOK, HandInv, Starting, Sending, Leaving,
         group_exists, Doomed, Waiting, Resting, Dropping
<1>1. CASE LeaderExits(p)
  BY <1>1 DEF LeaderExits
<1>2. CASE RestExits(p)
  BY <1>2 DEF RestExits
<1>. QED
  BY <1>1, <1>2

LEMMA PlaceStep ==
  ASSUME PlaceInv, [Next]_vars
  PROVE  PlaceInv'
<1>1. CASE Lifecycle
  BY <1>1, StartingStep, GateKeepsPlace, GivingUpStep, EndingKeepsPlace, ShutdownStep, DroppingStep
     DEF Lifecycle, EndingStep
<1>2. CASE Sends
  BY <1>2, SendsKeepPlace
<1>3. CASE Interrupt
  BY <1>3, GivingUpStep
<1>4. CASE World
  <2>1. CASE \E p \in Process : LeaderExits(p) \/ RestExits(p)
    BY <1>4, <2>1, ExitKeepsPlace DEF World
  <2>2. CASE UNCHANGED procVars
    BY <1>4, <2>2 DEF World, PlaceInv, PlaceTypeOK, ProcTypeOK, HandInv, group_exists, Doomed, procVars
  <2>. QED
    BY <1>4, <2>1, <2>2 DEF World
<1>5. CASE UNCHANGED vars
  BY <1>5 DEF vars, PlaceInv, PlaceTypeOK, ProcTypeOK, HandInv, group_exists, Doomed, procVars
<1>. QED
  BY <1>1, <1>2, <1>3, <1>4, <1>5 DEF Next

----------------------------------------------------------------------------
\* The batches.

LEMMA SetsOfBatches ==
  ASSUME DataTypeOK
  PROVE  Mine \in SUBSET Batch /\ debited \in SUBSET Batch /\ Members(arm) \subseteq Mine
<1>1. Mine \in SUBSET Batch
  BY DEF Mine, Members
<1>2. debited \in SUBSET Batch
  BY DEF DataTypeOK, PPTypeOK
<1>3. Members(arm) \subseteq Mine
  BY DEF Mine, Members, IsS5
<1>. QED
  BY <1>1, <1>2, <1>3

\* No batch of S5 has any part in S4.
LEMMA S4HasNoS5 ==
  ASSUME DataTypeOK, CallsInv, ~IsS5
  PROVE  debited \subseteq Mine
<1>1. \A b \in Members(0) : node[b] = "unsent"
  BY DEF CallsInv, Untouched
<1>. QED
  BY <1>1 DEF DataTypeOK, PPTypeOK, Mine, Members

LEMMA BalanceInRange ==
  ASSUME DataTypeOK
  PROVE  Balance(debited) \in 0..Balance(Batch)
<1>1. debited \in SUBSET Batch
  BY SetsOfBatches
<1>2. Balance(debited) <= Balance(Batch) /\ Balance(debited) \in Nat /\ Balance(Batch) \in Nat
  BY <1>1, BalanceGrows, BalanceNat
<1>. QED
  BY <1>2

\* The steps that leave the batches and the summary alone.
LEMMA QuietStep ==
  ASSUME DataInv, Quiet,
         pc' = pc \/ (pc \notin Sending /\ pc' \notin Sending /\ (pc' \in Starting => pc \in Starting))
  PROVE  DataInv'
<1>1. UNCHANGED <<rec, wire, db, node, debited, arms, arm, overdue, latest, proofs, shot, expired, base, stateError>>
  BY DEF Quiet, ppVars, summary
<1>2. DataTypeOK'
  BY <1>1 DEF DataInv, DataTypeOK, PPTypeOK, Members, Mine, IsS5, Settled
<1>3. CallsInv'
  BY <1>1 DEF DataInv, CallsInv, Untouched, Members, Mine, IsS5
<1>4. ObservedInv'
  BY <1>1 DEF DataInv, ObservedInv, Sending
<1>5. BaseInv'
  BY <1>1 DEF DataInv, BaseInv, Mine, IsS5, Members
<1>6. SettledInv'
  BY <1>1 DEF DataInv, SettledInv, Mine, IsS5, Members, Sending
<1>. QED
  BY <1>2, <1>3, <1>4, <1>5, <1>6 DEF DataInv

\* What begins a scenario is unlike anything of it.
LEMMA GateStep ==
  ASSUME DataInv, NEW outcome \in {"complete", "blocked", "error"}, Gate(outcome)
  PROVE  DataInv'
<1>1. /\ UNCHANGED <<rec, wire, db, node, debited, arms, arm, overdue, latest, proofs, shot, expired, stateError>>
      /\ base' = base \/ base' \in {Balance(debited), None}
      /\ pc' \in {"submit", "shutProcessor", "dropping"}
      /\ pc = "s0"
  BY DEF Gate, ppVars
<1>2. arm = 1 /\ \A b \in Batch : rec[b] = "none" /\ node[b] = "unsent"
  BY <1>1 DEF DataInv, CallsInv, Untouched, Starting, Mine, IsS5
<1>3. DataTypeOK'
  BY <1>1, BalanceInRange DEF DataInv, DataTypeOK, PPTypeOK, Members, Mine, IsS5, Settled
<1>4. CallsInv'
  BY <1>1 DEF DataInv, CallsInv, Untouched, Members, Mine, IsS5, Starting
<1>5. ObservedInv'
  BY <1>1 DEF DataInv, ObservedInv, Sending
<1>6. BaseInv'
  <2>1. debited = {}
    BY <1>2 DEF DataInv, DataTypeOK, PPTypeOK
  <2>2. debited \in SUBSET (debited' \ Mine')
    BY <1>1, <2>1
  <2>3. CASE base' = base
    <3>1. Mine' = Mine
      BY <1>1 DEF Mine, IsS5, Members
    <3>. QED
      BY <1>1, <2>3, <3>1 DEF DataInv, BaseInv
  <2>4. CASE base' \in {Balance(debited), None}
    BY <2>2, <2>4 DEF BaseInv
  <2>. QED
    BY <1>1, <2>3, <2>4
<1>7. SettledInv'
  BY <1>1 DEF SettledInv
<1>. QED
  BY <1>3, <1>4, <1>5, <1>6, <1>7 DEF DataInv

\* With the run its batches are forgotten.
LEMMA ForgetStep ==
  ASSUME Forget, DataInv, arms' = arms, pc' \notin Sending
  PROVE  DataInv'
<1>1. DataTypeOK'
  <2>1. Balance(Batch) \in Nat
    BY BalanceNat
  <2>2. base' \in 0..Balance(Batch)
    BY <2>1 DEF Forget
  <2>3. PPTypeOK'
    BY DEF Forget, PPTypeOK
  <2>. QED
    BY <2>2, <2>3 DEF Forget, DataInv, DataTypeOK
<1>2. CallsInv'
  BY DEF Forget, CallsInv, Untouched, Members, Mine, IsS5
<1>3. ObservedInv'
  BY DEF Forget, ObservedInv
<1>4. BaseInv'
  <2>1. base' = Balance({}) /\ {} \in SUBSET (debited' \ Mine')
    BY BalanceEmpty DEF Forget
  <2>. QED
    BY <2>1 DEF BaseInv
<1>5. SettledInv'
  BY DEF SettledInv, Sending
<1>. QED
  BY <1>1, <1>2, <1>3, <1>4, <1>5 DEF DataInv

\* The balance the scenario began with stays what it was, whatever is debited in the meantime.
LEMMA BaseStands ==
  ASSUME BaseInv, UNCHANGED <<base, arms>>, IsS5' = IsS5, debited \subseteq debited'
  PROVE  BaseInv'
<1>1. Mine' = Mine
  BY DEF Mine, Members
<1>. QED
  BY <1>1 DEF BaseInv

LEMMA SubmitStep ==
  ASSUME DataInv, Submit
  PROVE  DataInv'
<1>1. /\ UNCHANGED <<db, node, debited, arms, pc, arm, overdue, latest, proofs, shot, expired, base, stateError>>
      /\ pc = "submit"
  BY DEF Submit, Call, Harness, summary
<1>2. PICK bs \in SUBSET Members(arm) : Call(bs) /\ \A b \in bs : rec[b] = "none"
  BY DEF Submit, Asked
<1>3. \A b \in bs : b \in Batch /\ Untouched(b)
  <2>1. Members(arm) \subseteq Mine \cup Members(0)
    BY DEF Mine, Members, IsS5
  <2>. QED
    BY <1>2, <2>1 DEF DataInv, CallsInv, Members
<1>4. /\ rec' = [b \in Batch |-> IF b \in bs THEN "calling" ELSE rec[b]]
      /\ wire' = wire \cup bs
  BY <1>2 DEF Call
<1>5. DataTypeOK'
  <2>1. PPTypeOK'
    BY <1>1, <1>3, <1>4 DEF DataInv, DataTypeOK, PPTypeOK, Untouched
  <2>2. \A b \in Batch : rec[b] = "accepted" => rec'[b] = "accepted"
    BY <1>2, <1>4
  <2>. QED
    BY <1>1, <2>1, <2>2 DEF DataInv, DataTypeOK, Members, Mine, IsS5, Settled
<1>6. CallsInv'
  BY <1>1, <1>2, <1>4 DEF DataInv, CallsInv, Untouched, Members, Mine, IsS5, Starting
<1>7. ObservedInv' /\ BaseInv' /\ SettledInv'
  BY <1>1, BaseStands DEF DataInv, ObservedInv, SettledInv, IsS5
<1>. QED
  BY <1>5, <1>6, <1>7 DEF DataInv

LEMMA RespondStep ==
  ASSUME DataInv, NEW b \in Batch, Respond(b)
  PROVE  DataInv'
<1>1. /\ UNCHANGED <<wire, db, node, debited, arms, pc, arm, overdue, latest, proofs, shot, expired, base, stateError>>
      /\ pc = "submit"
  BY DEF Respond, Accepted, Failed, Harness, summary
<1>2. rec[b] = "calling" /\ \E answer \in {"accepted", "failed"} : rec' = [rec EXCEPT ![b] = answer]
  BY DEF Respond, Accepted, Failed
<1>3. DataTypeOK'
  BY <1>1, <1>2 DEF DataInv, DataTypeOK, PPTypeOK, Members, Mine, IsS5, Settled
<1>4. CallsInv'
  BY <1>1, <1>2 DEF DataInv, DataTypeOK, PPTypeOK, CallsInv, Untouched, Members, Mine, IsS5, Starting
<1>5. ObservedInv' /\ BaseInv' /\ SettledInv'
  BY <1>1, BaseStands DEF DataInv, ObservedInv, SettledInv, IsS5
<1>. QED
  BY <1>3, <1>4, <1>5 DEF DataInv

\* The end of the requests, by themselves or by the deadline, and of an arm's time.
LEMMA TimeStep ==
  ASSUME DataInv, AllAnswered \/ SubmitDeadline \/ Expire
  PROVE  DataInv'
<1>1. /\ UNCHANGED <<wire, db, node, debited, arms, arm, latest, proofs, shot, expired, base, stateError>>
      /\ overdue' \in BOOLEAN
      /\ pc \in {"submit", "observe"}
      /\ pc' \in {pc, "observe"}
  BY DEF DataInv, DataTypeOK, AllAnswered, SubmitDeadline, Expire, Harness, ppVars, summary
<1>2. \/ rec' = rec
      \/ rec' = [b \in Batch |-> IF b \in InFlight THEN "failed" ELSE rec[b]]
  BY DEF AllAnswered, SubmitDeadline, Expire, ppVars
<1>3. /\ rec' \in [Batch -> {"none", "calling", "accepted", "failed"}]
      /\ \A b \in Batch : rec[b] = "accepted" => rec'[b] = "accepted"
      /\ \A b \in Batch : rec'[b] = "none" <=> rec[b] = "none"
  BY <1>2 DEF DataInv, DataTypeOK, PPTypeOK, InFlight
<1>4. DataTypeOK'
  BY <1>1, <1>3 DEF DataInv, DataTypeOK, PPTypeOK, Members, Mine, IsS5, Settled
<1>5. CallsInv'
  BY <1>1, <1>3 DEF DataInv, CallsInv, Untouched, Members, Mine, IsS5, Starting
<1>6. ObservedInv' /\ BaseInv' /\ SettledInv'
  BY <1>1, BaseStands DEF DataInv, ObservedInv, SettledInv, IsS5
<1>. QED
  BY <1>4, <1>5, <1>6 DEF DataInv

\* A snapshot contains the one before: the service takes nothing back that it settled.
LEMMA ObserveStep ==
  ASSUME DataInv, ObserveOnce
  PROVE  DataInv'
<1> DEFINE asked == accepted \cap Members(arm)
<1>1. /\ UNCHANGED <<rec, wire, db, node, debited, arms, arm, overdue, shot, expired, base, stateError>>
      /\ pc = "observe" /\ pc' \in {"observe", "observed"}
      /\ latest' = snapshot(asked)
  BY DEF ObserveOnce, Harness, ppVars
<1>2. PICK proved \in provable(latest') : proofs' = proofs \cup proved
  BY DEF ObserveOnce, chain_proofs
<1>3. latest' = {b \in Members(arm) : rec[b] = "accepted" /\ b \in Settled}
  BY <1>1 DEF snapshot, accepted, Mine, Members, IsS5
<1>4. latest \subseteq latest'
  BY <1>3 DEF DataInv, DataTypeOK
<1>5. proved \subseteq {b \in latest' : db[b] = "CONFIRMED" /\ node[b] = "deep"}
  BY <1>2 DEF provable
<1>6. Members(arm)' = Members(arm) /\ Mine' = Mine
  BY <1>1 DEF Members, Mine, IsS5
<1>7. DataTypeOK'
  <2>1. proofs' \subseteq {b \in Batch : rec[b] = "accepted" /\ node[b] = "deep"}
    BY <1>2, <1>3, <1>5 DEF DataInv, DataTypeOK, Members
  <2>2. PPTypeOK'
    BY <1>1 DEF DataInv, DataTypeOK, PPTypeOK
  <2>. QED
    BY <1>1, <1>3, <1>6, <2>1, <2>2 DEF DataInv, DataTypeOK, Settled
<1>8. CallsInv'
  BY <1>1 DEF DataInv, CallsInv, Untouched, Members, Mine, IsS5, Starting
<1>9. ObservedInv'
  BY <1>1, <1>2, <1>4, <1>5 DEF DataInv, ObservedInv
<1>10. BaseInv' /\ SettledInv'
  BY <1>1, BaseStands DEF DataInv, SettledInv, IsS5
<1>. QED
  BY <1>7, <1>8, <1>9, <1>10 DEF DataInv

LEMMA AddBatchStep ==
  ASSUME DataInv, AddBatch
  PROVE  DataInv'
<1>1. /\ UNCHANGED <<rec, wire, db, node, debited, arms, proofs, base, stateError>>
      /\ pc' \in {"submit", "balance"}
      /\ shot' = shot \cup latest /\ latest' = {} /\ overdue' = FALSE
      /\ expired' \in BOOLEAN
  BY DEF DataInv, DataTypeOK, AddBatch, Harness, ppVars, merge_pp_snapshot
<1>2. arm' \in Nat /\ IsS5' = IsS5
  BY DEF AddBatch, IsS5, DataInv, DataTypeOK
<1>3. Mine' = Mine /\ Members(0)' = Members(0)
  BY <1>1, <1>2 DEF Mine, Members
<1>4. DataTypeOK'
  <2>1. PPTypeOK'
    BY <1>1 DEF DataInv, DataTypeOK, PPTypeOK
  <2>2. shot' \subseteq {b \in Mine : rec[b] = "accepted" /\ b \in Settled}
    BY <1>1, SetsOfBatches DEF DataInv, DataTypeOK
  <2>. QED
    BY <1>1, <1>2, <1>3, <2>1, <2>2 DEF DataInv, DataTypeOK, Settled
<1>5. CallsInv'
  BY <1>1, <1>2, <1>3 DEF DataInv, CallsInv, Untouched, Starting
<1>6. ObservedInv' /\ BaseInv' /\ SettledInv'
  BY <1>1, <1>2, BaseStands DEF DataInv, ObservedInv, SettledInv
<1>. QED
  BY <1>4, <1>5, <1>6 DEF DataInv

\* A balance that was reduced by what the proofs account for was reduced by these batches:
\* what else was debited since, late batches of S4 in S5, does not add up to any of them.
LEMMA BalanceTells ==
  ASSUME DataInv, base # None, Balance(debited) = expected_balance, Mine \subseteq proofs
  PROVE  Mine \subseteq debited
<1>1. PICK before \in SUBSET (debited \ Mine) : base = Balance(before)
  BY DEF DataInv, BaseInv
<1> DEFINE late == (debited \ Mine) \ before
           there == Mine \cap debited
           missing == Mine \ debited
<1>2. /\ debited \in SUBSET Batch /\ Mine \in SUBSET Batch /\ before \in SUBSET debited
      /\ late \in SUBSET Batch /\ there \in SUBSET Batch /\ missing \in SUBSET Batch
  BY <1>1, SetsOfBatches DEF DataInv
<1>3. Balance(debited) = Balance(before) + Balance(Mine)
  <2>1. proofs \cap Mine = Mine
    OBVIOUS
  <2>2. Balance(proofs \cap Mine) = Balance(Mine)
    BY <2>1, Zenon
  <2>. QED
    BY <1>1, <2>2 DEF expected_balance
<1>4. Balance(debited) = Balance(before) + (Balance(there) + Balance(late))
  <2>1. Balance(debited) = Balance(before) + Balance(debited \ before)
    BY <1>2, BalanceGrows
  <2>2. debited \ before = there \cup late /\ there \cap late = {}
    BY <1>1
  <2>3. Balance(there \cup late) = Balance(there) + Balance(late)
    <3>. HIDE DEF there, late
    <3>. QED
      BY <1>2, <2>2, BalanceApart
  <2>4. Balance(debited \ before) = Balance(there \cup late)
    BY <2>2, Zenon
  <2>. HIDE DEF there, late
  <2>. QED
    BY <2>1, <2>3, <2>4
<1>5. Balance(Mine) = Balance(there) + Balance(missing)
  <2>1. Mine = there \cup missing /\ there \cap missing = {}
    OBVIOUS
  <2>2. Balance(there \cup missing) = Balance(there) + Balance(missing)
    <3>. HIDE DEF there, missing
    <3>. QED
      BY <1>2, <2>1, BalanceApart
  <2>3. Balance(Mine) = Balance(there \cup missing)
    BY <2>1, Zenon
  <2>. QED
    BY <2>2, <2>3, Zenon
<1>6. Balance(late) = Balance(missing)
  <2>. HIDE DEF late, there, missing
  <2>1. /\ Balance(before) \in Nat /\ Balance(there) \in Nat
        /\ Balance(late) \in Nat /\ Balance(missing) \in Nat
    BY <1>2, BalanceNat
  <2>. QED
    BY <1>3, <1>4, <1>5, <2>1
<1>7. missing = {}
  <2>1. CASE IsS5
    <3>1. arms \in Configs
      BY DEF DataInv, DataTypeOK
    <3>2. /\ late \in SUBSET {b \in Batch : arms[b] # 0}
          /\ missing \in SUBSET {b \in Batch : arms[b] = 0}
      BY <1>2, <2>1 DEF Mine, Members
    <3>. HIDE DEF late, missing
    <3>. QED
      BY <1>6, <3>1, <3>2, CostAssumption
  <2>2. CASE ~IsS5
    <3>1. late = {}
      BY <2>2, S4HasNoS5 DEF DataInv
    <3>2. Balance(missing) = 0
      BY <1>6, <3>1, BalanceEmpty, Zenon
    <3>. HIDE DEF late, missing
    <3>. QED
      BY <1>2, <3>2, BalancePositive
  <2>. QED
    BY <2>1, <2>2
<1>. QED
  BY <1>7

LEMMA BalanceStep ==
  ASSUME DataInv, BalanceRead \/ BalanceTimesOut
  PROVE  DataInv'
<1>1. /\ UNCHANGED <<rec, wire, db, node, debited, arms, arm, overdue, latest, proofs, shot, expired, base>>
      /\ pc = "balance" /\ pc' = "record"
      /\ stateError' \in BOOLEAN
  BY DEF BalanceRead, BalanceTimesOut, Harness, ppVars, summary, DataInv, DataTypeOK
<1>2. Mine' = Mine /\ Members(arm)' = Members(arm)
  BY <1>1 DEF Mine, Members, IsS5
<1>3. DataTypeOK'
  BY <1>1, <1>2 DEF DataInv, DataTypeOK, PPTypeOK, Settled
<1>4. CallsInv'
  BY <1>1 DEF DataInv, CallsInv, Untouched, Members, Mine, IsS5, Starting
<1>5. ObservedInv' /\ BaseInv'
  BY <1>1, BaseStands DEF DataInv, ObservedInv, IsS5
<1>6. SettledInv'
  <2>1. CASE BalanceRead
    <3>1. base # None => Balance(debited) = expected_balance
      BY <2>1 DEF BalanceRead
    <3>. QED
      BY <1>1, <1>2, <3>1, BalanceTells DEF SettledInv
  <2>2. CASE BalanceTimesOut
    BY <2>2 DEF BalanceTimesOut, SettledInv
  <2>. QED
    BY <2>1, <2>2
<1>. QED
  BY <1>3, <1>4, <1>5, <1>6 DEF DataInv

\* S5 begins with what S4 left.
LEMMA RecordS4Step ==
  ASSUME DataInv, RecordS4
  PROVE  DataInv'
<1>1. /\ UNCHANGED <<wire, db, node, debited, arms, overdue, latest>>
      /\ pc = "record" /\ pc' = "submit" /\ ~IsS5 /\ arm' = 0
      /\ base' \in {Balance(debited), None}
      /\ rec' = [b \in Batch |-> "none"]
      /\ proofs' = {} /\ shot' = {} /\ expired' = FALSE /\ stateError' = FALSE
  BY DEF RecordS4, Harness
<1>2. latest = {}
  BY <1>1 DEF DataInv, ObservedInv
<1>3. Mine' = Members(0)
  BY <1>1 DEF Mine, IsS5, Members
<1>4. debited \cap Members(0) = {}
  BY <1>1, S4HasNoS5 DEF DataInv, Mine
<1>5. DataTypeOK'
  <2>1. base' \in 0..Balance(Batch) \cup {None}
    BY <1>1, BalanceInRange DEF DataInv
  <2>2. PPTypeOK'
    BY <1>1 DEF DataInv, DataTypeOK, PPTypeOK
  <2>. QED
    BY <1>1, <1>2, <2>1, <2>2 DEF DataInv, DataTypeOK
<1>6. CallsInv'
  <2>1. \A b \in Members(0) : Untouched(b)
    BY <1>1 DEF DataInv, CallsInv
  <2>. QED
    BY <1>1, <2>1 DEF CallsInv, Untouched, Mine, Members, IsS5, Starting
<1>7. ObservedInv'
  BY <1>1, <1>2 DEF ObservedInv
<1>8. BaseInv'
  <2>1. debited \in SUBSET (debited' \ Mine')
    BY <1>1, <1>3, <1>4
  <2>. QED
    BY <1>1, <2>1 DEF BaseInv
<1>9. SettledInv'
  BY <1>1 DEF SettledInv
<1>. QED
  BY <1>5, <1>6, <1>7, <1>8, <1>9 DEF DataInv

\* The service, the chain and the receiver.
LEMMA ServiceStep ==
  ASSUME DataInv, Service \/ (\E b \in Batch : Deep(b) \/ Debit(b)),
         UNCHANGED <<pc, held, fate, arms, summary>>
  PROVE  DataInv'
<1>1. UNCHANGED <<rec, pc, arms, arm, overdue, latest, proofs, shot, expired, base, stateError>>
  BY DEF Service, Receive, Pay, Settle, Deep, Debit, summary
<1>2. PICK b \in Batch : Receive(b) \/ Pay(b) \/ Settle(b) \/ Deep(b) \/ Debit(b)
  BY DEF Service
<1>3. /\ PPTypeOK' /\ debited \subseteq debited'
      /\ Settled \subseteq Settled' /\ \A c \in Batch : db[c] = "CONFIRMED" => db'[c] = "CONFIRMED"
      /\ \A c \in Batch : node[c] = "deep" => node'[c] = "deep"
      /\ \A c \in Batch : Untouched(c) => Untouched(c)'
  BY <1>2 DEF DataInv, DataTypeOK, PPTypeOK, Receive, Pay, Settle, Deep, Debit, Untouched, Settled
<1>4. Mine' = Mine /\ Members(0)' = Members(0) /\ Members(arm)' = Members(arm) /\ IsS5' = IsS5
  BY <1>1 DEF Mine, Members, IsS5
<1>5. DataTypeOK'
  BY <1>1, <1>3, <1>4, SetsOfBatches DEF DataInv, DataTypeOK
<1>6. CallsInv'
  BY <1>1, <1>3, <1>4 DEF DataInv, CallsInv, Mine, Members
<1>7. ObservedInv' /\ BaseInv'
  <2>1. proofs \subseteq Batch
    BY DEF DataInv, DataTypeOK
  <2>2. ObservedInv'
    BY <1>1, <1>3, <2>1 DEF DataInv, ObservedInv
  <2>. QED
    BY <1>1, <1>3, <1>4, <2>2, BaseStands DEF DataInv
<1>8. SettledInv'
  BY <1>1, <1>3, <1>4 DEF DataInv, SettledInv
<1>. QED
  BY <1>5, <1>6, <1>7, <1>8 DEF DataInv

LEMMA DataStep ==
  ASSUME PlaceInv, DataInv, [Next]_vars
  PROVE  DataInv'
<1>1. CASE Lifecycle
  <2>1. CASE \E outcome \in {"complete", "blocked", "error"} : Gate(outcome)
    BY <2>1, GateStep
  <2>2. CASE StartupFails \/ StartSigner \/ StartReceiver \/ StartProcessor \/ Healthy
    BY <2>2, QuietStep DEF StartupFails, StartSigner, StartReceiver, StartProcessor, Healthy, Start, Starting, Sending
  <2>3. CASE EndingStep
    BY <2>3, QuietStep DEF EndingStep
  <2>4. CASE (Shutdown \/ ShutdownReturns) /\ Quiet
    BY <2>4, QuietStep DEF Shutdown, ShutdownReturns, Starting, Sending
  <2>5. CASE (DropNext \/ Dropped \/ AllDropped) /\ Quiet
    BY <2>5, QuietStep DEF DropNext, Dropped, AllDropped, Starting, Sending
  <2>. QED
    BY <1>1, <2>1, <2>2, <2>3, <2>4, <2>5 DEF Lifecycle
<1>2. CASE Sends
  <2>1. CASE RecordS5
    BY <2>1, ForgetStep DEF RecordS5, Sending
  <2>. QED
    BY <1>2, <2>1, SubmitStep, RespondStep, TimeStep, ObserveStep, AddBatchStep, BalanceStep, RecordS4Step DEF Sends
<1>3. CASE Interrupt
  BY <1>3, ForgetStep DEF Interrupt, Sending
<1>4. CASE World
  <2>1. CASE UNCHANGED ppVars
    BY <1>4, <2>1, QuietStep DEF World, Quiet
  <2>. QED
    BY <1>4, <2>1, ServiceStep DEF World
<1>5. CASE UNCHANGED vars
  BY <1>5, QuietStep DEF vars, Quiet
<1>. QED
  BY <1>1, <1>2, <1>3, <1>4, <1>5 DEF Next

----------------------------------------------------------------------------
\* The theorems.

LEMMA InitInv == Init => Inv
<1>. SUFFICES ASSUME Init
              PROVE  Inv
  OBVIOUS
<1>1. PlaceInv
  BY NamesDiffer DEF Init, ProcInit, PlaceInv, PlaceTypeOK, ProcTypeOK, HandInv, Starting, Sending, group_exists, Doomed
<1>2. DataTypeOK
  <2>1. base \in 0..Balance(Batch)
    BY BalanceNat DEF Init, FreshSummary
  <2>. QED
    BY <2>1 DEF Init, PPInit, FreshSummary, DataTypeOK, PPTypeOK
<1>3. CallsInv /\ ObservedInv /\ SettledInv
  BY DEF Init, PPInit, FreshSummary, CallsInv, ObservedInv, SettledInv, Untouched, Mine, Members, IsS5
<1>4. BaseInv
  <2>1. base = Balance({}) /\ {} \in SUBSET (debited \ Mine)
    BY BalanceEmpty DEF Init, FreshSummary
  <2>. QED
    BY <2>1 DEF BaseInv
<1>. QED
  BY <1>1, <1>2, <1>3, <1>4 DEF Inv, DataInv

LEMMA TypeFollows ==
  ASSUME Inv
  PROVE  TypeOK
BY DEF Inv, PlaceInv, PlaceTypeOK, DataInv, DataTypeOK, TypeOK

\* As many rows as requests are all of them.
LEMMA OkFollows ==
  ASSUME Inv
  PROVE  OkIsSettled
<1>. SUFFICES ASSUME pc = "record", Status(FALSE) = "Ok", NEW b \in Mine
              PROVE  node[b] = "deep" /\ (base # None => b \in debited)
  BY DEF OkIsSettled
<1>1. Cardinality(Mine) = Cardinality(Verified) /\ ~stateError
  BY DEF Status, Inv, DataInv, DataTypeOK
<1>2. Verified \in SUBSET Mine
  BY DEF Verified, Inv, DataInv, DataTypeOK
<1>3. Mine = Verified
  <2>1. IsFiniteSet(Mine)
    BY BatchAssumption, SetsOfBatches, FS_Subset DEF Inv, DataInv
  <2>. QED
    BY <1>1, <1>2, <2>1, FS_Subset
<1>4. Mine \subseteq proofs
  BY <1>3 DEF Verified
<1>. QED
  BY <1>1, <1>4 DEF Inv, DataInv, DataTypeOK, SettledInv

LEMMA RowsFollow ==
  ASSUME Inv
  PROVE  RowsMatchObservations
<1>. SUFFICES ASSUME pc = "record"
              PROVE  Verified = {b \in Mine : Outcome(b) = "confirmed"}
  BY DEF RowsMatchObservations
<1>1. proofs \subseteq {b \in shot : db[b] = "CONFIRMED"} /\ shot \subseteq Mine
  BY DEF Inv, DataInv, ObservedInv, DataTypeOK
<1>2. \A b \in Mine : Outcome(b) = "confirmed" <=> b \in proofs
  BY DEF Outcome
<1>. QED
  BY <1>1, <1>2 DEF Verified

LEMMA ChildrenFollow ==
  ASSUME Inv
  PROVE  NoChildSurvives
BY DEF Inv, PlaceInv, HandInv, NoChildSurvives

\* Mode 3, with any batches and whatever its programs do: everything keeps its type; a cell
\* that is a success is settled in the chain and in the receiver's balance; its verified
\* transactions are the attempts observed as confirmed; and no process group is left behind
\* that was not killed.
THEOREM Mode3Correct ==
  Spec => [](TypeOK /\ OkIsSettled /\ RowsMatchObservations /\ NoChildSurvives)
<1>1. Inv /\ [Next]_vars => Inv'
  BY PlaceStep, DataStep DEF Inv
<1>2. Inv => TypeOK /\ OkIsSettled /\ RowsMatchObservations /\ NoChildSurvives
  BY TypeFollows, OkFollows, RowsFollow, ChildrenFollow
<1>. QED
  BY <1>1, <1>2, InitInv, PTL DEF Spec

\* No proof is ever taken away while its scenario is at work: neither by a later snapshot,
\* nor by a query that fails, nor by the next arm.
THEOREM ProofsCorrect == Spec => ProofsStand
<1>1. [Next]_vars => [pc' \in Sending /\ pc # "record" => proofs \subseteq proofs']_vars
  <2>. SUFFICES ASSUME Next, pc' \in Sending, pc # "record"
                PROVE  proofs \subseteq proofs'
    OBVIOUS
  <2>1. CASE Lifecycle
    BY <2>1 DEF Lifecycle, Quiet, summary, StartupFails, StartSigner, StartReceiver, StartProcessor, Healthy, Gate, EndingStep
  <2>2. CASE Sends
    BY <2>2 DEF Sends, Submit, AllAnswered, SubmitDeadline, Expire, Respond, ObserveOnce, chain_proofs, AddBatch,
       BalanceRead, BalanceTimesOut, RecordS4, RecordS5, summary
  <2>3. CASE Interrupt
    BY <2>3 DEF Interrupt, Sending
  <2>4. CASE World
    BY <2>4 DEF World, summary
  <2>. QED
    BY <2>1, <2>2, <2>3, <2>4 DEF Next
<1>. QED
  BY <1>1, PTL DEF Spec, ProofsStand

=============================================================================
