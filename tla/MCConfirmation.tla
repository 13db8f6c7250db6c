--------------------------- MODULE MCConfirmation ---------------------------
(* Two transactions and an empty block. *)
EXTENDS Confirmation, TLC

CONSTANTS a, b, c, t1, t2

MCBranch == {a, b, c}
MCTx     == {t1, t2}
MCHolds  == a :> {t1} @@ b :> {t2} @@ c :> {}

=============================================================================
