------------------------------ MODULE MCMode3 ------------------------------
(* Two requests of S4, at once or one after the other, or one of S4 and one of S5. *)
EXTENDS Mode3, TLC

CONSTANTS b1, b2

MCBatch   == {b1, b2}
MCProcess == {Signer, Receiver, Processor}
MCConfigs == {b1 :> 1 @@ b2 :> 1, b1 :> 1 @@ b2 :> 2, b1 :> 1 @@ b2 :> 0}
MCCost    == b1 :> 2 @@ b2 :> 3

=============================================================================
