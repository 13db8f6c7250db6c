----------------------------- MODULE CoinSplit -----------------------------
(***************************************************************************)
(* The amounts of one S1 transaction: the three planners that decide how   *)
(* an input becomes outputs_per_tx outputs.                                *)
(* mode1_coin_split_plan and exact_pp_split_with_change of                 *)
(* src/src/live_minotari/mode1.rs, normal_change_split_amounts of          *)
(* src/src/live_minotari/mode2.rs.                                         *)
(*                                                                         *)
(* None of them spends the last output: it is the wallet's change, what is *)
(* left of the input. n is outputs_per_tx, rate the fee per gram.          *)
(***************************************************************************)
EXTENDS Integers

CONSTANT MaxAmount      \* the largest u64

STEALTH_OUTPUT_GRAMS      == 57
CONSOLE_SELF_OUTPUT_GRAMS == 65
PP_LOCK_FEE_BUFFER        == 200000

\* One kernel, one input and n outputs that carry the sender's address.
SelfWeight(n) == 18 + CONSOLE_SELF_OUTPUT_GRAMS * n

\* The payments carry no memo, the change does.
PaymentWeight(n) == 18 + STEALTH_OUTPUT_GRAMS * (n - 1) + CONSOLE_SELF_OUTPUT_GRAMS

\* What is left for the outputs, in equal parts.
Share(input, fee, n) == (input - fee) \div n

\* The output nobody asks for.
Change(input, fee, n) == input - fee - (n - 1) * Share(input, fee, n)

\* mode1_coin_split_plan plans the input: every checked step of it succeeds.
Mode1Plans(input, n, rate) ==
    LET fee == SelfWeight(n) * rate
    IN /\ n >= 2
       /\ fee <= MaxAmount /\ fee <= input
       /\ Share(input, fee, n) > fee

\* exact_pp_split_with_change plans the input. The processor locks a buffer with the payments.
PPPlans(input, n, rate) ==
    LET fee      == PaymentWeight(n) * rate
        explicit == (n - 1) * Share(input, fee, n)
    IN /\ n >= 2
       /\ fee <= MaxAmount /\ fee <= input
       /\ Share(input, fee, n) > fee
       /\ explicit + PP_LOCK_FEE_BUFFER <= MaxAmount
       /\ explicit + PP_LOCK_FEE_BUFFER <= input

\* normal_change_split_amounts plans a whole round from its smallest input; the fee it
\* reserves is not the one that will be paid.
Mode2Plans(floor, n, rate) ==
    LET reserve == SelfWeight(n) * rate
    IN /\ n >= 2
       /\ reserve <= MaxAmount /\ reserve <= floor
       /\ Share(floor, reserve, n) # 0

=============================================================================
