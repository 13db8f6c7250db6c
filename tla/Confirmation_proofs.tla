------------------------ MODULE Confirmation_proofs ------------------------
(***************************************************************************)
(* Proofs about Confirmation, for any transactions, any contents of the    *)
(* blocks, any depth and any number of queries at once.                    *)
(***************************************************************************)
EXTENDS Confirmation, TLAPS

\* The history variable remembers at least the present.
DeepInv == \A t \in Tx : Deep(t, chain) => t \in deep

\* Where a round has no answers yet.
NoAnswersYet ==
    pc \in {"round", "pause"} \/ (pc = "tip" /\ TipFirst) \/ (pc = "query" /\ ~TipFirst)

PlaceInv ==
    /\ NoAnswersYet => \A t \in Tx : got[t].height = 0
    /\ pc = "verdict" => ~TipFirst
    /\ pc \in {"round", "pause", "tip"} \/ (pc = "query" /\ ~TipFirst) => tip = NoTip

\* What an answer is worth, by the order of the requests. With the tip read first the
\* verdict is decided when the answer comes; with the tip read last the answer stands
\* until the tip is read, unless the chain reorganises.
AnswerInv ==
    \A t \in Tx :
        /\ pc = "query" /\ TipFirst /\ Confirmed(t) /\ ~got[t].short => t \in deep
        /\ pc = "tip" /\ ~TipFirst /\ got[t].height > 0 /\ ~moved =>
              MinedAt(t, got[t].height, chain)
        /\ pc = "verdict" /\ Confirmed(t) /\ ~moved => t \in deep

\* ConfirmedWasDeep is not inductive: it says nothing of the answers of the round.
Inv == TypeOK /\ DeepInv /\ PlaceInv /\ AnswerInv /\ ConfirmedWasDeep

----------------------------------------------------------------------------
\* Blocks.

\* A block is a short sequence.
LEMMA BlockIsSequence ==
  ASSUME NEW block \in Block
  PROVE  block \in Seq(Branch) /\ Height(block) \in 0..MaxHeight
<1>1. PICK h \in 0..MaxHeight : block \in [1..h -> Branch]
  BY DEF Block
<1>2. h \in Nat
  BY <1>1, ChainAssumption
<1>. QED
  BY <1>1, <1>2 DEF Height

\* A short sequence is a block, and only the empty one is genesis.
LEMMA SequenceIsBlock ==
  ASSUME NEW block \in Seq(Branch), Height(block) \in 1..MaxHeight
  PROVE  block \in Block \ {Genesis}
<1>1. Len(block) \in 0..MaxHeight /\ block \in [1..Len(block) -> Branch]
  BY DEF Height
<1>2. block # << >>
  BY DEF Height
<1>. QED
  BY <1>1, <1>2 DEF Block, Genesis

\* The chain stays a chain, and an extension keeps every block where it is.
LEMMA ChainStep ==
  ASSUME chain \in Block \ {Genesis}, Extend \/ Reorganise
  PROVE  /\ chain' \in Block \ {Genesis}
         /\ Extend => \A t \in Tx, h \in 1..MaxHeight :
                          MinedAt(t, h, chain) => MinedAt(t, h, chain')
<1>1. CASE Reorganise /\ ~Extend
  BY <1>1 DEF Reorganise
<1>2. CASE Extend
  <2>1. PICK b \in Branch : Height(chain) < MaxHeight /\ chain' = Append(chain, b)
    BY <1>2 DEF Extend
  <2>2. /\ chain \in Seq(Branch) /\ Len(chain) \in Nat
        /\ chain' \in Seq(Branch) /\ Len(chain') = Len(chain) + 1
        /\ \A h \in 1..Len(chain) : chain'[h] = chain[h]
    BY <2>1, BlockIsSequence DEF Height
  <2>3. Height(chain') \in 1..MaxHeight
    BY <2>1, <2>2, ChainAssumption DEF Height
  <2>4. chain' \in Block \ {Genesis}
    BY <2>2, <2>3, SequenceIsBlock
  <2>5. \A t \in Tx, h \in 1..MaxHeight : MinedAt(t, h, chain) => MinedAt(t, h, chain')
    BY <2>2 DEF MinedAt, Height
  <2>. QED
    BY <2>4, <2>5
<1>. QED
  BY <1>1, <1>2

----------------------------------------------------------------------------
\* Steps.

\* A step of the node.
LEMMA NodeStep ==
  ASSUME Inv, NodeMoves
  PROVE  Inv'
<1>1. /\ UNCHANGED <<pc, kind, expired, tip, todo, open, got, confirmed, doubtful>>
      /\ deep' = deep \cup {t \in Tx : Deep(t, chain')}
      /\ Extend \/ Reorganise
  BY DEF NodeMoves
<1>2. /\ chain' \in Block \ {Genesis}
      /\ Extend => \A t \in Tx, h \in 1..MaxHeight :
                       MinedAt(t, h, chain) => MinedAt(t, h, chain')
  BY <1>1, ChainStep DEF Inv, TypeOK
<1>3. moved' \in BOOLEAN /\ (moved => moved') /\ (Extend \/ (pc \in {"tip", "verdict"} => moved'))
  <2>1. moved \in BOOLEAN
    BY DEF Inv, TypeOK
  <2>2. (Extend /\ moved' = moved) \/ moved' = (moved \/ pc \in {"tip", "verdict"})
    BY DEF NodeMoves
  <2>3. CASE Extend /\ moved' = moved
    BY <2>1, <2>3
  <2>4. CASE moved' = (moved \/ pc \in {"tip", "verdict"})
    BY <2>1, <2>4
  <2>. QED
    BY <2>2, <2>3, <2>4
<1>4. TypeOK'
  BY <1>1, <1>2, <1>3 DEF Inv, TypeOK
<1>5. DeepInv'
  BY <1>1 DEF DeepInv
<1>6. PlaceInv'
  BY <1>1 DEF Inv, PlaceInv, NoAnswersYet, TipFirst
<1>7. ASSUME NEW t \in Tx
      PROVE  /\ pc = "query" /\ TipFirst /\ Confirmed(t) /\ ~got[t].short => t \in deep'
             /\ pc = "tip" /\ ~TipFirst /\ got[t].height > 0 /\ ~moved' =>
                   MinedAt(t, got[t].height, chain')
             /\ pc = "verdict" /\ Confirmed(t) /\ ~moved' => t \in deep'
  <2>1. got[t].height \in 0..MaxHeight
    BY DEF Inv, TypeOK, Answers
  <2>2. got[t].height > 0 => got[t].height \in 1..MaxHeight
    BY <2>1, ChainAssumption
  <2>. QED
    BY <1>1, <1>2, <1>3, <2>2 DEF Inv, AnswerInv
<1>8. AnswerInv'
  BY <1>1, <1>7 DEF AnswerInv, TipFirst, Confirmed
<1>9. ConfirmedWasDeep'
  BY <1>1 DEF Inv, ConfirmedWasDeep
<1>. QED
  BY <1>4, <1>5, <1>6, <1>8, <1>9 DEF Inv

\* A step that leaves the chain and the verdicts alone and drops the answers.
LEMMA ClearStep ==
  ASSUME Inv, ClearRound, UNCHANGED <<chain, deep>>,
         pc' \in {"round", "pause", "done", "failed"}, kind' \in Kind,
         expired' \in BOOLEAN,
         confirmed' \in SUBSET Tx, doubtful' \in SUBSET confirmed',
         confirmed' \ doubtful' \subseteq deep'
  PROVE  Inv'
<1>1. got' = [t \in Tx |-> Nothing] /\ \A t \in Tx : got'[t].height = 0
  BY DEF ClearRound, Nothing
<1>2. Nothing \in Answers
  BY ChainAssumption DEF Nothing, Answers
<1>3. TypeOK'
  BY <1>1, <1>2 DEF Inv, TypeOK, ClearRound, Active
<1>4. DeepInv' /\ ConfirmedWasDeep'
  BY DEF Inv, DeepInv, ConfirmedWasDeep, Deep
<1>5. PlaceInv' /\ AnswerInv'
  BY <1>1 DEF PlaceInv, AnswerInv, ClearRound
<1>. QED
  BY <1>3, <1>4, <1>5 DEF Inv

\* A new call forgets the one before.
LEMMA VerifyStep ==
  ASSUME Inv, NEW k \in Kind, Verify(k)
  PROVE  Inv'
<1>1. got' = [t \in Tx |-> Nothing] /\ \A t \in Tx : got'[t].height = 0
  BY DEF Verify, ClearRound, Nothing
<1>2. Nothing \in Answers
  BY ChainAssumption DEF Nothing, Answers
<1>3. TypeOK'
  BY <1>1, <1>2 DEF Inv, TypeOK, Verify, ClearRound, Active
<1>4. chain' = chain /\ deep' = {t \in Tx : Deep(t, chain)}
  BY DEF Verify
<1>5. DeepInv' /\ ConfirmedWasDeep'
  BY <1>4 DEF DeepInv, ConfirmedWasDeep, Verify
<1>6. PlaceInv' /\ AnswerInv'
  BY <1>1 DEF PlaceInv, AnswerInv, Verify, ClearRound
<1>. QED
  BY <1>3, <1>5, <1>6 DEF Inv

\* A step that keeps the answers, and where it goes the answers say as much.
LEMMA MoveStep ==
  ASSUME Inv, UNCHANGED <<chain, deep, kind, tip, got, moved, confirmed, doubtful>>,
         expired' \in BOOLEAN, todo' \in SUBSET Tx, open' \in SUBSET Tx,
         \/ pc' = pc
         \/ pc = "round" /\ pc' = (IF TipFirst THEN "tip" ELSE "query")
         \/ pc = "pause" /\ pc' = "round"
         \/ pc = "tip" /\ TipFirst /\ pc' = "query"
         \/ pc = "tip" /\ kind = "query" /\ pc' = "verdict" /\ tip = NoTip
         \/ pc' \in {"done", "failed"}
  PROVE  Inv'
<1>1. TypeOK'
  BY DEF Inv, TypeOK, Active
<1>2. DeepInv' /\ ConfirmedWasDeep'
  BY DEF Inv, DeepInv, ConfirmedWasDeep, Deep
<1>3. PlaceInv'
  BY DEF Inv, PlaceInv, NoAnswersYet, TipFirst
<1>4. AnswerInv'
  BY DEF Inv, PlaceInv, NoAnswersYet, TipFirst, AnswerInv, Confirmed, MinedAt
<1>. QED
  BY <1>1, <1>2, <1>3, <1>4 DEF Inv

\* The tip is read: last, it makes the verdict of the answer in hand.
LEMMA TipStep ==
  ASSUME Inv, ReadTip
  PROVE  Inv'
<1>1. /\ pc = "tip" /\ tip' = Height(chain)
      /\ pc' = (IF TipFirst THEN "query" ELSE "verdict")
      /\ UNCHANGED <<chain, deep, kind, expired, todo, open, got, moved, confirmed, doubtful>>
  BY DEF ReadTip, Goto
<1>2. Height(chain) \in 0..MaxHeight
  BY BlockIsSequence DEF Inv, TypeOK
<1>3. TypeOK'
  BY <1>1, <1>2 DEF Inv, TypeOK, Active
<1>4. DeepInv' /\ ConfirmedWasDeep'
  BY <1>1 DEF Inv, DeepInv, ConfirmedWasDeep, Deep
<1>5. PlaceInv'
  BY <1>1 DEF Inv, PlaceInv, NoAnswersYet, TipFirst
<1>6. ASSUME TipFirst PROVE AnswerInv'
  <2>1. \A t \in Tx : got'[t].height = 0
    BY <1>1, <1>6 DEF Inv, PlaceInv, NoAnswersYet
  <2>2. \A t \in Tx : ~Confirmed(t)'
    BY <2>1 DEF Confirmed
  <2>3. pc' = "query"
    BY <1>1, <1>6
  <2>. QED
    BY <2>2, <2>3 DEF AnswerInv
<1>7. ASSUME ~TipFirst PROVE AnswerInv'
  <2>0. pc' = "verdict"
    BY <1>1, <1>7
  <2>. SUFFICES ASSUME NEW t \in Tx, Confirmed(t)', ~moved'
                PROVE  t \in deep'
    BY <2>0 DEF AnswerInv
  <2>1. got[t].height > 0 /\ Height(chain) >= got[t].height + CMin
    BY <1>1, <1>7 DEF Confirmed, TipFirst
  <2>2. got[t].height \in 1..MaxHeight
    BY <2>1, ChainAssumption DEF Inv, TypeOK, Answers
  <2>3. MinedAt(t, got[t].height, chain)
    BY <1>1, <1>7, <2>1 DEF Inv, AnswerInv
  <2>4. Height(chain) - got[t].height >= CMin
    BY <1>2, <2>1, <2>2, ConfirmationAssumption, ChainAssumption
  <2>. QED
    BY <1>1, <2>2, <2>3, <2>4 DEF Inv, DeepInv, Deep
<1>. QED
  BY <1>3, <1>4, <1>5, <1>6, <1>7 DEF Inv

\* An answer arrives: with the tip in hand it decides the verdict.
LEMMA AnswerStep ==
  ASSUME Inv, NEW t \in Tx, Answered(t)
  PROVE  Inv'
<1>1. /\ pc = "query" /\ t \in open /\ moved' = FALSE /\ open' = open \ {t}
      /\ pc' = (IF TipFirst THEN "query" ELSE "tip")
      /\ UNCHANGED <<chain, deep, kind, expired, tip, todo, confirmed, doubtful>>
  BY DEF Answered, Goto
<1>2. \/ got' = got
      \/ \E h \in 1..MaxHeight :
            /\ MinedAt(t, h, chain)
            /\ got' = [got EXCEPT ![t] = [height |-> h, short |-> Height(chain) < tip]]
  BY DEF Answered
<1>3. got' \in [Tx -> Answers]
  <2>1. got \in [Tx -> Answers]
    BY DEF Inv, TypeOK
  <2>2. ASSUME NEW h \in 1..MaxHeight
        PROVE  [height |-> h, short |-> Height(chain) < tip] \in Answers
    <3>1. h \in 0..MaxHeight /\ (Height(chain) < tip) \in BOOLEAN
      BY ChainAssumption
    <3>. QED
      BY <3>1 DEF Answers
  <2>. QED
    BY <1>2, <2>1, <2>2
<1>4. TypeOK'
  BY <1>1, <1>3 DEF Inv, TypeOK, Active
<1>5. DeepInv' /\ ConfirmedWasDeep'
  BY <1>1 DEF Inv, DeepInv, ConfirmedWasDeep, Deep
<1>6. PlaceInv'
  BY <1>1 DEF Inv, PlaceInv, NoAnswersYet, TipFirst
<1>7. ASSUME got' = got PROVE AnswerInv'
  <2>1. CASE TipFirst
    <3>1. \A u \in Tx : Confirmed(u)' = Confirmed(u) /\ got'[u] = got[u]
      BY <1>1, <1>7 DEF Confirmed
    <3>. QED
      BY <1>1, <2>1, <3>1 DEF Inv, AnswerInv, TipFirst
  <2>2. CASE ~TipFirst
    <3>1. pc' = "tip" /\ \A u \in Tx : got'[u].height = 0
      BY <1>1, <1>7, <2>2 DEF Inv, PlaceInv, NoAnswersYet
    <3>. QED
      BY <3>1 DEF AnswerInv
  <2>. QED
    BY <2>1, <2>2
<1>8. ASSUME NEW h \in 1..MaxHeight, MinedAt(t, h, chain),
             got' = [got EXCEPT ![t] = [height |-> h, short |-> Height(chain) < tip]]
      PROVE  AnswerInv'
  <2>1. got'[t].height = h /\ got'[t].short = (Height(chain) < tip)
        /\ \A u \in Tx \ {t} : got'[u] = got[u]
    BY <1>8 DEF Inv, TypeOK
  <2>2. CASE ~TipFirst
    <3>1. \A u \in Tx : got'[u].height > 0 => MinedAt(u, got'[u].height, chain)
      BY <1>1, <1>8, <2>1, <2>2 DEF Inv, PlaceInv, NoAnswersYet
    <3>. QED
      BY <1>1, <2>2, <3>1 DEF AnswerInv, TipFirst, MinedAt
  <2>3. CASE TipFirst
    <3>1. \A u \in Tx \ {t} : Confirmed(u)' = Confirmed(u)
      BY <1>1, <2>1 DEF Confirmed
    <3>2. ASSUME Confirmed(t)', ~got'[t].short PROVE t \in deep
      <4>0. tip \in 0..MaxHeight /\ Height(chain) \in 0..MaxHeight
        BY <1>1, <3>2, BlockIsSequence DEF Inv, TypeOK, Confirmed
      <4>1. tip \in 0..MaxHeight /\ Height(chain) >= tip /\ Height(chain) \in 0..MaxHeight
        <5>1. ~(Height(chain) < tip)
          BY <2>1, <3>2, Zenon
        <5>. QED
          BY <4>0, <5>1, ChainAssumption
      <4>2. h <= Height(chain)
        BY <1>8, <4>1, ChainAssumption DEF MinedAt
      <4>3. IF kind = "console" THEN (IF tip > h THEN tip - h ELSE 0) >= CMin
                                ELSE tip >= h + CMin
        BY <1>1, <2>1, <3>2 DEF Confirmed
      <4>4. Height(chain) - h >= CMin
        BY <4>1, <4>2, <4>3, ConfirmationAssumption, ChainAssumption
      <4>. QED
        BY <1>8, <4>4 DEF Inv, DeepInv, Deep
    <3>3. \A u \in Tx \ {t} : Confirmed(u) /\ ~got[u].short => u \in deep
      BY <1>1, <2>3 DEF Inv, AnswerInv
    <3>4. \A u \in Tx : Confirmed(u)' /\ ~got'[u].short => u \in deep
      BY <2>1, <3>1, <3>2, <3>3
    <3>. QED
      BY <1>1, <2>3, <3>4 DEF AnswerInv, TipFirst
  <2>. QED
    BY <2>2, <2>3
<1>9. AnswerInv'
  <2>1. CASE got' = got
    BY <1>7, <2>1
  <2>2. CASE got' # got
    <3>1. PICK h \in 1..MaxHeight :
            /\ MinedAt(t, h, chain)
            /\ got' = [got EXCEPT ![t] = [height |-> h, short |-> Height(chain) < tip]]
      BY <1>2, <2>2
    <3>. QED
      BY <1>8, <3>1
  <2>. QED
    BY <2>1, <2>2
<1>. QED
  BY <1>4, <1>5, <1>6, <1>9 DEF Inv

\* The round closes: what it calls confirmed was vouched for by its answers.
LEMMA CloseStep ==
  ASSUME Inv, CloseRound
  PROVE  Inv'
<1>1. ClearRound /\ UNCHANGED <<chain, deep, kind, expired>> /\ Merge
  BY DEF CloseRound
<1>2. pc' \in {"pause", "done"}
  BY DEF CloseRound, Inv, TypeOK, Kind
<1>3. seen \subseteq Tx /\ doubt \subseteq seen
  BY DEF seen, doubt
<1>4. seen \ doubt \subseteq deep
  <2>1. (pc = "query" /\ TipFirst) \/ (pc = "verdict" /\ ~TipFirst)
    BY DEF CloseRound, Inv, PlaceInv, TipFirst
  <2>. QED
    BY <2>1 DEF Inv, AnswerInv, seen, doubt
<1>5. /\ confirmed' \in SUBSET Tx /\ doubtful' \in SUBSET confirmed'
      /\ confirmed' \ doubtful' \subseteq deep'
  BY <1>1, <1>3, <1>4 DEF Merge, Inv, TypeOK, ConfirmedWasDeep
<1>. QED
  BY <1>1, <1>2, <1>5, ClearStep DEF Inv, TypeOK

----------------------------------------------------------------------------
\* The theorem.

\* Whatever the chain does between its requests, and whatever fails, the harness reports
\* a transaction as confirmed only if it was CMin deep at some moment of the call, the
\* exceptions being those the order of its requests cannot vouch for.
THEOREM ConfirmationCorrect == Spec => [](TypeOK /\ ConfirmedWasDeep)
<1>1. Init => Inv
  <2>. SUFFICES ASSUME Init PROVE Inv
    OBVIOUS
  <2>1. Nothing \in Answers
    BY ChainAssumption DEF Nothing, Answers
  <2>2. chain \in Block \ {Genesis}
    <3>1. chain \in Block /\ Height(chain) = 1
      BY DEF Init
    <3>2. Height(Genesis) = 0
      BY DEF Genesis, Height
    <3>3. chain # Genesis
      BY <3>1, <3>2
    <3>. QED
      BY <3>1, <3>3
  <2>3. TypeOK
    BY <2>1, <2>2 DEF Init, TypeOK, Kind, NoTip
  <2>. QED
    BY <2>3 DEF Init, Inv, DeepInv, PlaceInv, NoAnswersYet, AnswerInv, ConfirmedWasDeep
<1>2. Inv /\ [Next]_vars => Inv'
  <2>. SUFFICES ASSUME Inv, [Next]_vars PROVE Inv'
    OBVIOUS
  <2>. USE DEF Goto, roundVars
  <2>0. confirmed \in SUBSET Tx /\ doubtful \in SUBSET confirmed
        /\ confirmed \ doubtful \subseteq deep /\ kind \in Kind /\ expired \in BOOLEAN
        /\ todo \in SUBSET Tx /\ open \in SUBSET Tx
    BY DEF Inv, TypeOK, ConfirmedWasDeep
  <2>1. CASE NodeMoves
    BY <2>1, NodeStep
  <2>2. ASSUME NEW k \in Kind, Verify(k) PROVE Inv'
    BY <2>2, VerifyStep
  <2>3. CASE Expire
    BY <2>0, <2>3, MoveStep DEF Expire
  <2>4. CASE BeginRound
    BY <2>0, <2>4, MoveStep DEF BeginRound
  <2>5. CASE DeadlineAtTop
    BY <2>0, <2>5, MoveStep DEF DeadlineAtTop
  <2>6. CASE ReadTip
    BY <2>6, TipStep
  <2>7. CASE TipFails
    <3>1. CASE kind \in {"kernel", "console"}
      BY <2>0, <2>7, <3>1, MoveStep DEF TipFails, TipFirst
    <3>2. CASE kind = "processor"
      BY <2>0, <2>7, <3>2, ClearStep DEF TipFails
    <3>3. CASE kind = "funding"
      BY <2>0, <2>7, <3>3, MoveStep DEF TipFails
    <3>4. CASE kind = "query"
      <4>1. tip = NoTip
        BY <2>7 DEF TipFails, Inv, PlaceInv
      <4>. QED
        BY <2>0, <2>7, <3>4, <4>1, MoveStep DEF TipFails
    <3>. QED
      BY <2>0, <3>1, <3>2, <3>3, <3>4 DEF Kind
  <2>8. ASSUME NEW t \in Tx, Ask(t) PROVE Inv'
    BY <2>0, <2>8, MoveStep DEF Ask
  <2>9. ASSUME NEW t \in Tx, PassOver(t) PROVE Inv'
    BY <2>0, <2>9, MoveStep DEF PassOver
  <2>10. ASSUME NEW t \in Tx, Answered(t) PROVE Inv'
    BY <2>10, AnswerStep
  <2>11. ASSUME NEW t \in Tx, QueryFails(t) PROVE Inv'
    BY <2>0, <2>11, MoveStep DEF QueryFails
  <2>12. CASE CloseRound
    BY <2>12, CloseStep
  <2>13. CASE Pause
    BY <2>0, <2>13, MoveStep DEF Pause
  <2>14. CASE ProcessorDone
    BY <2>0, <2>14, MoveStep DEF ProcessorDone
  <2>15. CASE GiveUp
    BY <2>0, <2>15, ClearStep DEF GiveUp
  <2>16. CASE UNCHANGED vars
    BY <2>0, <2>16, MoveStep DEF vars
  <2>. QED
    BY <2>1, <2>2, <2>3, <2>4, <2>5, <2>6, <2>7, <2>8, <2>9, <2>10, <2>11, <2>12,
       <2>13, <2>14, <2>15, <2>16 DEF Next, Steps
<1>3. Inv => TypeOK /\ ConfirmedWasDeep
  BY DEF Inv
<1>. QED
  BY <1>1, <1>2, <1>3, PTL DEF Spec

----------------------------------------------------------------------------
\* Ends.

\* The only ways to a good end: the deadline, a verdict, and the callers that make do
\* with what they have.
LEMMA DoneStep ==
  ASSUME TypeOK, Steps, pc' = "done"
  PROVE  NobodyStopsEarly'
<1>1. CASE DeadlineAtTop
  BY <1>1 DEF DeadlineAtTop, Goto, NobodyStopsEarly
<1>2. CASE CloseRound
  <2>1. kind' = kind /\ expired' = expired /\ kind # "processor"
    BY <1>2 DEF CloseRound
  <2>2. kind = "kernel" /\ ~expired => confirmed' = Tx
    BY <1>2 DEF CloseRound
  <2>3. kind = "funding" => confirmed' # {}
    <3>1. kind = "funding" => seen # {} /\ confirmed' = confirmed \cup seen
      BY <1>2 DEF CloseRound, Merge
    <3>. QED
      BY <3>1
  <2>. QED
    BY <2>1, <2>2, <2>3 DEF NobodyStopsEarly
<1>3. CASE ProcessorDone \/ GiveUp
  BY <1>3 DEF ProcessorDone, GiveUp, Goto, NobodyStopsEarly
<1>4. ~(BeginRound \/ ReadTip \/ Pause) /\ ~TipFails
      /\ \A t \in Tx : ~(Ask(t) \/ PassOver(t) \/ Answered(t) \/ QueryFails(t))
  <2>1. ~(BeginRound \/ ReadTip \/ Pause)
    BY DEF BeginRound, ReadTip, Pause, Goto
  <2>2. ~TipFails
    BY DEF TypeOK, Kind, TipFails, Goto
  <2>3. \A t \in Tx : ~(Ask(t) \/ PassOver(t) \/ Answered(t) \/ QueryFails(t))
    BY DEF Ask, PassOver, Answered, QueryFails, Goto
  <2>. QED
    BY <2>1, <2>2, <2>3
<1>. QED
  BY <1>1, <1>2, <1>3, <1>4 DEF Steps

\* For any transactions, any chain and any caller: before its deadline mode 2 stops asking
\* only when everything is confirmed, and fund-s0 never succeeds without its transaction
\* (mode2_verification_confirmed, observe_s0_funding).
THEOREM EndsCorrect == Spec => []NobodyStopsEarly
<1>1. Init => NobodyStopsEarly
  BY DEF Init, NobodyStopsEarly
<1>2. TypeOK /\ NobodyStopsEarly /\ [Next]_vars => NobodyStopsEarly'
  <2>. SUFFICES ASSUME TypeOK, NobodyStopsEarly, [Next]_vars
                PROVE  NobodyStopsEarly'
    OBVIOUS
  <2>1. CASE NodeMoves
    BY <2>1 DEF NodeMoves, NobodyStopsEarly
  <2>2. CASE \E k \in Kind : Verify(k)
    BY <2>2 DEF Verify, NobodyStopsEarly
  <2>3. CASE Expire
    BY <2>3 DEF Expire, Active, NobodyStopsEarly
  <2>4. CASE Steps
    <3>1. CASE pc' = "done"
      BY <2>4, <3>1, DoneStep
    <3>2. CASE pc' # "done"
      BY <3>2 DEF NobodyStopsEarly
    <3>. QED
      BY <3>1, <3>2
  <2>5. CASE UNCHANGED vars
    BY <2>5 DEF vars, NobodyStopsEarly
  <2>. QED
    BY <2>1, <2>2, <2>3, <2>4, <2>5 DEF Next
<1>. QED
  BY <1>1, <1>2, ConfirmationCorrect, PTL DEF Spec

\* For any transactions, any chain and every caller that keeps them: what a call has once
\* seen confirmed it still reports, whatever fails later (merge_mode2_verification,
\* chain_proofs.extend).
THEOREM ConfirmationsStand == Spec => ConfirmationStands
<1>1. TypeOK /\ [Next]_vars => [(pc \in Active /\ kind # "console") => (confirmed \subseteq confirmed')]_vars
  <2>. SUFFICES ASSUME TypeOK, Next, pc \in Active, kind # "console"
                PROVE  confirmed \subseteq confirmed'
    OBVIOUS
  <2>1. CASE NodeMoves
    BY <2>1 DEF NodeMoves
  <2>2. CASE \E k \in Kind : Verify(k)
    BY <2>2 DEF Verify
  <2>3. CASE Expire
    BY <2>3 DEF Expire
  <2>4. CASE BeginRound \/ DeadlineAtTop \/ ReadTip \/ Pause \/ ProcessorDone \/ GiveUp
    BY <2>4 DEF BeginRound, DeadlineAtTop, ReadTip, Pause, ProcessorDone, GiveUp, Goto
  <2>5. CASE TipFails
    BY <2>5 DEF TypeOK, Kind, TipFails, Goto
  <2>6. CASE \E t \in Tx : Ask(t) \/ PassOver(t) \/ Answered(t) \/ QueryFails(t)
    BY <2>6 DEF Ask, PassOver, Answered, QueryFails, Goto
  <2>7. CASE CloseRound
    <3>1. confirmed' = confirmed \cup seen
      BY <2>7 DEF CloseRound, Merge
    <3>. QED
      BY <3>1
  <2>. QED
    BY <2>1, <2>2, <2>3, <2>4, <2>5, <2>6, <2>7 DEF Next, Steps
<1>. QED
  BY <1>1, ConfirmationCorrect, PTL DEF Spec, ConfirmationStands

=============================================================================
