-------------------------- MODULE MCSendDispatch --------------------------
(* Two sends, at once or in a batch each. *)
EXTENDS SendDispatch, TLC

CONSTANTS t1, t2

MCTx      == {t1, t2}
MCConfigs == {t1 :> 1 @@ t2 :> 1, t1 :> 1 @@ t2 :> 2}

=============================================================================
