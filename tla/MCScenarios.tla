---------------------------- MODULE MCScenarios ----------------------------
(* Two doubling rounds and a fan-out to volume_target outputs. *)
EXTENDS Scenarios, TLC

NoCap     == [m \in Modes |-> 0]
Reference == [live |-> Modes, scans |-> TRUE, cap |-> NoCap,
              scan_repetitions |-> 1, canonical |-> TRUE]

MCReference == {Reference}

\* Local ones: one mode alone, mode 2's scans repeated; no scans, mode 3 switched off and
\* a cap on mode 1's S1.
Local == [Reference EXCEPT !.canonical = FALSE]

MCConfigs ==
    {Reference,
     [Local EXCEPT !.live = {"new_wallet"}, !.scan_repetitions = 2],
     [Local EXCEPT !.live = {"payment_processor"}],
     [Local EXCEPT !.scans = FALSE, !.live = {"old_wallet", "new_wallet"},
                   !.cap = [NoCap EXCEPT !["old_wallet"] = 2]]}

----------------------------------------------------------------------------
(* The reference funding, in fees per gram, is enough for every round of every mode. *)

Split == INSTANCE CoinSplit WITH MaxAmount <- 2000000000

ReferenceFunding == 2000000000

\* The smallest output after each round; the seventh round makes eight of one.
OutputsOf(r) == IF r = 7 THEN 8 ELSE 2

Smallest(Fee(_)) ==
    LET least[r \in 0..7] ==
          IF r = 0 THEN ReferenceFunding
          ELSE Split!Share(least[r - 1], Fee(OutputsOf(r)), OutputsOf(r))
    IN least

ASSUME EveryRoundIsPlanned ==
    \A r \in 1..7 :
        /\ Split!Mode1Plans(Smallest(Split!SelfWeight)[r - 1], OutputsOf(r), 1)
        /\ Split!Mode2Plans(Smallest(Split!SelfWeight)[r - 1], OutputsOf(r), 1)
        /\ Split!PPPlans(Smallest(Split!PaymentWeight)[r - 1], OutputsOf(r), 1)

=============================================================================
