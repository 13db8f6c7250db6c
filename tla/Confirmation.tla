---------------------------- MODULE Confirmation ----------------------------
(***************************************************************************)
(* How the harness decides that transactions are final, against a chain    *)
(* that moves between its requests: src/src/live_minotari/verification.rs, *)
(* the loops around it in mode2.rs, and observe_s0_funding and             *)
(* query_wallet_transaction of live_minotari.rs.                           *)
(*                                                                         *)
(* A verdict combines two answers of the node that no transaction spans:   *)
(* the height a transaction was mined at, and the height of the tip.       *)
(*   kernel     modes 2: the tip, then up to QueryCap kernel queries at    *)
(*              once, repeated for what is unresolved until the deadline   *)
(*   processor  one round of the same over what the payment processor's    *)
(*              database calls confirmed; observe_db repeats it            *)
(*   console    mode 1: the wallet's claim, the tip, then the block at     *)
(*              the claimed height, one transaction after the other        *)
(*   funding    fund-s0: the kernel query, then the tip                    *)
(*   query      query-tx: one round of the same                            *)
(***************************************************************************)
EXTENDS NodeChain, FiniteSets

CONSTANTS
    Tx,         \* the transactions to verify
    Holds,      \* the transactions in a block, by the choice that led to it
    CMin,       \* c_min, the depth that counts as final
    QueryCap    \* queries open at once; 16 in the code

ASSUME ConfirmationAssumption ==
    /\ Holds \in [Branch -> SUBSET Tx]
    /\ CMin \in Nat
    /\ QueryCap \in Nat \ {0}

VARIABLES
    deep,       \* history: transactions that were CMin deep at some moment of this call
    pc,         \* where the call is
    kind,       \* whose call it is
    expired,    \* its deadline has passed
    tip,        \* the tip height it read this round
    todo,       \* transactions it has yet to ask for this round
    open,       \* queries in flight
    got,        \* the answers of this round
    moved,      \* history: the chain reorganised after the answer and before the tip's
    confirmed,  \* observed as confirmed
    doubtful    \* history: of those, the ones the order of requests does not vouch for

roundVars == <<tip, todo, open, got, moved>>
vars == <<chain, deep, pc, kind, expired, roundVars, confirmed, doubtful>>

Kind     == {"kernel", "processor", "console", "funding", "query"}
TipFirst == kind \in {"kernel", "processor", "console"}
Active   == {"round", "tip", "query", "verdict", "pause"}

NoTip    == -1
Nothing  == [height |-> 0, short |-> FALSE]   \* no answer, or not mined
Answers  == [height : 0..MaxHeight, short : BOOLEAN]

TypeOK ==
    /\ chain \in Block \ {Genesis}
    /\ deep \in SUBSET Tx
    /\ pc \in Active \cup {"idle", "done", "failed"}
    /\ kind \in Kind
    /\ expired \in BOOLEAN
    /\ tip \in {NoTip} \cup 0..MaxHeight
    /\ todo \in SUBSET Tx
    /\ open \in SUBSET Tx
    /\ got \in [Tx -> Answers]
    /\ moved \in BOOLEAN
    /\ confirmed \in SUBSET Tx
    /\ doubtful \in SUBSET confirmed

\* No chain spends the same inputs twice.
Valid(c) == \A i, j \in 1..Height(c) : i # j => Holds[c[i]] \cap Holds[c[j]] = {}

MinedAt(t, h, c) == h \in 1..Height(c) /\ t \in Holds[c[h]]
Deep(t, c)       == \E h \in 1..MaxHeight : MinedAt(t, h, c) /\ Height(c) - h >= CMin

ClearRound ==
    /\ tip' = NoTip /\ todo' = {} /\ open' = {} /\ moved' = FALSE
    /\ got' = [t \in Tx |-> Nothing]

Init ==
    /\ chain \in {b \in Block : Height(b) = 1}
    /\ deep = {t \in Tx : Deep(t, chain)}
    /\ pc = "idle" /\ kind = "kernel" /\ expired = FALSE
    /\ tip = NoTip /\ todo = {} /\ open = {} /\ moved = FALSE
    /\ got = [t \in Tx |-> Nothing]
    /\ confirmed = {} /\ doubtful = {}

----------------------------------------------------------------------------
\* The node.

NodeMoves ==
    /\ \/ Extend /\ moved' = moved
       \/ Reorganise /\ moved' = (moved \/ pc \in {"tip", "verdict"})
    /\ Valid(chain')
    /\ deep' = deep \cup {t \in Tx : Deep(t, chain')}
    /\ UNCHANGED <<pc, kind, expired, tip, todo, open, got, confirmed, doubtful>>

----------------------------------------------------------------------------
\* The loop around the rounds.

Goto(place) == pc' = place /\ UNCHANGED <<chain, deep, kind, expired, confirmed, doubtful>>

\* Whoever waits for confirmations; a new call knows nothing of an earlier one.
Verify(k) ==
    /\ pc \notin Active
    /\ pc' = "round" /\ kind' = k /\ expired' = FALSE
    /\ confirmed' = {} /\ doubtful' = {}
    /\ deep' = {t \in Tx : Deep(t, chain)}
    /\ ClearRound
    /\ UNCHANGED chain

Expire ==
    /\ pc \in Active
    /\ kind # "query"
    /\ ~expired
    /\ expired' = TRUE
    /\ UNCHANGED <<chain, deep, pc, kind, roundVars, confirmed, doubtful>>

\* Mode 2 asks again only for what it has not seen confirmed; the others ask for all.
unresolved == IF kind = "kernel" THEN Tx \ confirmed ELSE Tx

\* The processor asks for the batches its database calls CONFIRMED, fund-s0 and query-tx
\* for one transaction.
Asked(ids) ==
    CASE kind = "processor"            -> ids \subseteq Tx
      [] kind \in {"funding", "query"} -> \E t \in Tx : ids = {t}
      [] OTHER                         -> ids = unresolved

BeginRound ==
    /\ pc = "round"
    /\ ~expired
    /\ \E ids \in SUBSET Tx : Asked(ids) /\ todo' = ids
    /\ Goto(IF TipFirst THEN "tip" ELSE "query")
    /\ UNCHANGED <<tip, open, got, moved>>

\* Mutant of DeadlineAtTop: only the loop of S0 tests its deadline.
DeadlineOfFundingOnly ==
    /\ pc = "round"
    /\ expired
    /\ kind = "funding"
    /\ Goto("failed")
    /\ UNCHANGED roundVars

\* S0 fails at its deadline; the others return what they have.
DeadlineAtTop ==
    /\ pc = "round"
    /\ expired
    /\ Goto(IF kind = "funding" THEN "failed" ELSE "done")
    /\ UNCHANGED roundVars

----------------------------------------------------------------------------
\* One round: verify_mode2_transactions_with_client, verify_pp_snapshot_chain,
\* verify_mode1_transactions, and the body of observe_s0_funding.

\* Mutant of ReadTip: the height of the block after the tip.
ReadNextHeight ==
    /\ pc = "tip"
    /\ tip' = Height(chain) + 1
    /\ Goto(IF TipFirst THEN "query" ELSE "verdict")
    /\ UNCHANGED <<todo, open, got, moved>>

\* get_tip_info; without it mode 2 and mode 1 go on and confirm nothing.
ReadTip ==
    /\ pc = "tip"
    /\ tip' = Height(chain)
    /\ Goto(IF TipFirst THEN "query" ELSE "verdict")
    /\ UNCHANGED <<todo, open, got, moved>>

TipFails ==
    /\ pc = "tip"
    /\ CASE kind \in {"kernel", "console"} -> Goto("query") /\ UNCHANGED roundVars
         [] kind = "processor"             -> Goto("pause") /\ ClearRound
         [] kind = "funding"               -> Goto("failed") /\ UNCHANGED roundVars
         [] kind = "query"                 -> Goto("verdict") /\ UNCHANGED roundVars

cap == IF kind \in {"kernel", "processor"} THEN QueryCap ELSE 1

Ask(t) ==
    /\ pc = "query"
    /\ expired => kind \in {"funding", "query"}
    /\ t \in todo
    /\ Cardinality(open) < cap
    /\ todo' = todo \ {t}
    /\ open' = open \cup {t}
    /\ Goto("query")
    /\ UNCHANGED <<tip, got, moved>>

\* No row, no kernel, no signed payload; or the console wallet's status is not the
\* terminal one, or it omits the transaction.
PassOver(t) ==
    /\ pc = "query"
    /\ TipFirst
    /\ t \in todo
    /\ todo' = todo \ {t}
    /\ Goto("query")
    /\ UNCHANGED <<tip, open, got, moved>>

\* query_mode2_transaction, or mode1_outputs_exist_at_height at the height the wallet
\* claims. A block's hash commits to its outputs, so asking for them by the hash of
\* the header does not depend on when.
Answered(t) ==
    /\ pc = "query"
    /\ t \in open
    /\ open' = open \ {t}
    /\ moved' = FALSE
    /\ \/ \E h \in 1..MaxHeight :
            /\ MinedAt(t, h, chain)
            /\ got' = [got EXCEPT ![t] = [height |-> h, short |-> Height(chain) < tip]]
       \/ (\A h \in 1..MaxHeight : ~MinedAt(t, h, chain)) /\ got' = got
       \/ kind = "console" /\ got' = got     \* a claim the block does not bear out
    /\ Goto(IF TipFirst THEN "query" ELSE "tip")
    /\ UNCHANGED <<tip, todo>>

\* The request fails or times out. fund-s0 and query-tx end with the error.
QueryFails(t) ==
    /\ pc = "query"
    /\ t \in open
    /\ open' = open \ {t}
    /\ Goto(IF TipFirst THEN "query" ELSE "failed")
    /\ UNCHANGED <<tip, todo, got, moved>>

\* Mutant of Confirmed: the block counts as its own first confirmation.
ConfirmedCountingItself(t) ==
    /\ got[t].height > 0
    /\ tip # NoTip
    /\ tip + 1 >= got[t].height + CMin

\* mode2_transaction_query_status, and the depth test of verify_mode1_transactions
\* (saturating: a tip below the block counts as no depth).
Confirmed(t) ==
    /\ got[t].height > 0
    /\ tip # NoTip
    /\ IF kind = "console"
       THEN (IF tip > got[t].height THEN tip - got[t].height ELSE 0) >= CMin
       ELSE tip >= got[t].height + CMin

seen == {t \in Tx : Confirmed(t)}
doubt == {t \in seen : IF TipFirst THEN got[t].short ELSE moved}

\* Mutant of Merge: the last round alone, for every caller.
MergeLastOnly == confirmed' = seen /\ doubtful' = doubt

\* merge_mode2_verification, chain_proofs.extend: what was confirmed stays confirmed.
\* Mode 1 keeps the last round alone (latest = verified).
Merge ==
    IF kind = "console"
    THEN confirmed' = seen /\ doubtful' = doubt
    ELSE /\ confirmed' = confirmed \cup seen
         /\ doubtful' = doubtful \cup (doubt \ confirmed)

\* Mutant of CloseRound: mode 2 stops at the first confirmation.
CloseAtFirst ==
    /\ \/ pc = "query" /\ TipFirst /\ open = {} /\ todo = {}
       \/ pc = "query" /\ kind = "kernel" /\ expired
       \/ pc = "verdict"
    /\ Merge
    /\ pc' = CASE kind # "processor" /\ confirmed' # {} -> "done"
               [] kind = "query"                         -> "done"
               [] OTHER                                  -> "pause"
    /\ ClearRound
    /\ UNCHANGED <<chain, deep, kind, expired>>

\* The end of a round: mode2_verification_confirmed, all_terminal, and S0's break.
CloseRound ==
    /\ \/ pc = "query" /\ TipFirst /\ open = {} /\ todo = {}
       \/ pc = "query" /\ kind = "kernel" /\ expired    \* abort_all
       \/ pc = "verdict"
    /\ Merge
    /\ pc' = CASE kind \in {"kernel", "console"} -> IF confirmed' = Tx \/ (kind = "kernel" /\ expired) THEN "done" ELSE "pause"
               [] kind = "processor"             -> "pause"
               [] kind = "funding"               -> IF seen # {} THEN "done" ELSE "pause"
               [] kind = "query"                 -> "done"
    /\ ClearRound
    /\ UNCHANGED <<chain, deep, kind, expired>>

\* observation_poll_pause, interval.tick
Pause == pc = "pause" /\ Goto("round") /\ UNCHANGED roundVars

\* observe_db has what it waits for: every accepted batch is proved or failed.
ProcessorDone == pc = "pause" /\ kind = "processor" /\ Goto("done") /\ UNCHANGED roundVars

\* Mode 1 ends at the first round that fails or exceeds its timeout, and keeps the
\* last one that did not. Mode 2's database may fail.
GiveUp ==
    /\ pc \in {"tip", "query"}
    /\ kind \in {"console", "kernel"}
    /\ Goto(IF kind = "console" THEN "done" ELSE "failed")
    /\ ClearRound

----------------------------------------------------------------------------

Steps ==
    \/ BeginRound \/ DeadlineAtTop \/ ReadTip \/ TipFails
    \/ \E t \in Tx : Ask(t) \/ PassOver(t) \/ Answered(t) \/ QueryFails(t)
    \/ CloseRound \/ Pause \/ ProcessorDone \/ GiveUp

Next ==
    \/ NodeMoves
    \/ \E k \in Kind : Verify(k)
    \/ Expire
    \/ Steps

Spec == Init /\ [][Next]_vars

\* Time passes, and every await of the harness has a timeout. Nothing is assumed of the
\* chain or of the answers.
FairSpec == Spec /\ WF_vars(Expire) /\ WF_vars(Steps)

----------------------------------------------------------------------------
\* Properties.

\* A transaction that is reported as confirmed had, at some moment of the call, CMin blocks on top
\* of it on the selected chain. Both answers may be stale when they are combined: with
\* the tip read first, this fails only if the chain became shorter between the two
\* requests; with the tip read last (fund-s0, query-tx) any reorganisation between them
\* can make a transaction look deep that never was.
ConfirmedWasDeep == confirmed \ doubtful \subseteq deep

\* A confirmation seen once is not lost when a later query of the same call fails, times
\* out, or meets another branch. (Mode 1 keeps its last round only.)
ConfirmationStands ==
    [][(pc \in Active /\ kind # "console") => (confirmed \subseteq confirmed')]_vars

\* Before its deadline mode 2 stops asking only when everything is confirmed, whatever
\* requests failed or were passed over in between; and fund-s0 never ends in success
\* without the one transaction it waits for.
NobodyStopsEarly ==
    pc = "done" => /\ kind = "kernel" /\ ~expired => confirmed = Tx
                   /\ kind = "funding" => confirmed # {}

\* No call outlives its deadline for ever, however the chain moves and whatever the node
\* fails to answer.
ObservationEnds == (pc \in Active) ~> (pc \notin Active)

=============================================================================
