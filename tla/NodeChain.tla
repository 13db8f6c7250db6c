----------------------------- MODULE NodeChain -----------------------------
(***************************************************************************)
(* The base node's selected chain, as its callers see it: the answers of   *)
(* get_tip_info and get_header_by_height.  It is external, and known from  *)
(* how src/src/live_minotari.rs uses it.                                   *)
(*                                                                         *)
(* A block hash commits to every block below it, so a block is the         *)
(* sequence of choices that leads to it and its height is the length of    *)
(* that sequence; the chain is its tip.                                    *)
(***************************************************************************)
EXTENDS Integers, Sequences

CONSTANTS
    Branch,     \* the blocks that may follow a block
    MaxHeight   \* bound: the chain grows no higher

ASSUME ChainAssumption == MaxHeight \in Nat \ {0} /\ Branch # {}

VARIABLE chain  \* the selected tip

Height(block) == Len(block)
Genesis == <<>>
Block   == UNION {[1..h -> Branch] : h \in 0..MaxHeight}

\* get_header_by_height answers with this block.
OnChain(block) ==
    /\ Height(block) <= Height(chain)
    /\ \A h \in 1..Height(block) : chain[h] = block[h]

Extend == \E b \in Branch : Height(chain) < MaxHeight /\ chain' = Append(chain, b)

\* Another branch is selected; it has more work, which need not mean more blocks.
Reorganise == \E tip \in Block \ {Genesis, chain} : chain' = tip

=============================================================================
