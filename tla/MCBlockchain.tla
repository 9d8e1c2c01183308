---------------------------- MODULE MCBlockchain ----------------------------
(* Model-checking instance of Blockchain: the checkpoint grid scaled from  *)
(* (4, 60) to (2, 6), so that a persistent height, culled heights and the *)
(* v12 threshold all fall within a chain of ten blocks.                   *)
EXTENDS Blockchain

\* Only the genesis block is hardcoded: it lies below the interval and is
\* never removed, like height 0 of HARDCODED_MAINNET_CHECKPOINTS.
MCGenesisOnly == (0 :> 0)

\* A hardcoded checkpoint ahead of a young chain, like the mainnet list
\* seeded into a node that has not synchronised yet.
MCAheadOfChain == (0 :> 0) @@ (6 :> 0)

=============================================================================
