------------------------------ MODULE Finality ------------------------------
(***************************************************************************)
(* What the checkpoint ledger promises the node (spec sections 3 and 4.2), *)
(* with no checkpoints in sight: the chain has an immutable height, which *)
(* never goes down within a session and never lies above the top, and no  *)
(* step of the node changes a block at or below it.  Above it the chain    *)
(* may grow, shrink or be rewritten freely.                                *)
(*                                                                         *)
(* A block is a fork id, as in Blockchain; chain[h + 1] is the block at    *)
(* height h.                                                               *)
(***************************************************************************)
EXTENDS Naturals, Sequences

VARIABLES
    chain,      \* the main chain, genesis first
    immutable   \* the immutable height

Init ==
    /\ chain = <<0>>
    /\ immutable = 0

\* The blocks at heights 0..h.
Prefix(c, h) == SubSeq(c, 1, h + 1)

\* Any step of the node: the immutable height may only rise, and only to a
\* height both the old and the new chain have; the blocks up to the new
\* immutable height are the ones that were there before the step.
Step ==
    /\ immutable' >= immutable
    /\ immutable' < Len(chain)
    /\ immutable' < Len(chain')
    /\ Prefix(chain', immutable') = Prefix(chain, immutable')

Spec == Init /\ [][Step]_<<chain, immutable>>

=============================================================================
