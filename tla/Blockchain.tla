----------------------------- MODULE Blockchain -----------------------------
(***************************************************************************)
(* The node around the checkpoint ledger: the block-acceptance pipeline    *)
(* that calls it (cryptonote::Blockchain, not under src/, modelled from    *)
(* spec sections 2, 4.2 and 5) and the POP_BLOCKS RPC handler.  All ledger *)
(* mutations run under the blockchain-wide lock, so each action below is  *)
(* one atomic step.                                                       *)
(*                                                                        *)
(* A block is identified by its height and the fork it was mined on: the  *)
(* main chain is the sequence of fork ids of heights 0..Top, and a fork   *)
(* id in a checkpoint is the hash it pins.  Every alternative block opens *)
(* a new fork, so blocks of different forks at one height differ, and so  *)
(* does everything built on them.                                         *)
(***************************************************************************)
EXTENDS Checkpoints

CONSTANTS
    MaxHeight,        \* bound on the chain's top height
    MaxForks,         \* bound on the number of forks (alternative blocks switched to)
    V12Height,        \* first height whose block major_version is >= 12
    QuorumMayConflict, \* a quorum checkpoint may pin a hash the local chain does not have
    CullMayFail        \* a store removal in block_added's cull loop may throw

VARIABLES
    ledger,    \* the checkpoints object, see Checkpoints
    chain,     \* chain[h + 1] = fork id of the main-chain block at height h
    nextFork,  \* the fork id the next alternative block gets
    up,        \* the last init succeeded (the daemon is running)
    final      \* history: height -> block that was at or below the immutable height

vars == <<ledger, chain, nextFork, up, final>>

Top == Len(chain) - 1
BlockAt(h) == chain[h + 1]

MajorVersion(h) == IF h >= V12Height THEN network_version_12_checkpointing
                   ELSE network_version_12_checkpointing - 1

\* The immutable height of the chain as the store derives it, what the
\* GET_HEIGHT and GET_INFO handlers report as immutable_height.
ImmutableHeight(L, top) == ImmutableCheckpointHeight(L.db, top)

\* Record, in the history, the blocks at or below the immutable height.
Finalize(L, ch) ==
    LET imm == ImmutableCheckpointHeight(L.db, Len(ch) - 1)
    IN  final @@ [h \in 0..imm |-> ch[h + 1]]

Init ==
    LET r == InitLedger(EmptyStore)
    IN  /\ chain = <<0>>
        /\ ledger = r.ledger
        /\ up = r.ok
        /\ nextFork = 1
        /\ final = [h \in 0..ImmutableHeight(r.ledger, 0) |-> 0]

\* The sets of cull heights whose removal may throw when block_added(h)
\* runs on ledger L: none, or (under the fault model) any of them.
CullFailures(L, h) == IF CullMayFail THEN SUBSET CullWindow(L, h) ELSE {{}}

(***************************************************************************)
(* A block extending the main chain: check_block against the ledger, then *)
(* block_added, with the block's own service-node checkpoint when it has  *)
(* one (heights on the checkpoint grid).                                  *)
(***************************************************************************)
AddBlock ==
    /\ up
    /\ Top < MaxHeight
    /\ LET h == Top + 1
           f == chain[Len(chain)]
       IN  /\ CheckBlock(ledger, h, f)
           /\ \E cp \in {NoCheckpoint} \cup
                  (IF h % I = 0 THEN {ServiceNodeCheckpoint(h, f)} ELSE {}),
                 failed \in CullFailures(ledger, h) :
                  ledger' = BlockAdded(ledger, h, MajorVersion(h), cp, failed)
           /\ chain' = Append(chain, f)
           /\ final' = Finalize(ledger', chain')
    /\ UNCHANGED <<nextFork, up>>

(***************************************************************************)
(* A service-node quorum checkpoint for a main-chain block on the grid,   *)
(* written through update_checkpoint.                                     *)
(***************************************************************************)
QuorumHashes(h) == IF QuorumMayConflict THEN 0..(nextFork - 1) ELSE {BlockAt(h)}

QuorumCheckpoint ==
    /\ up
    /\ \E h \in {x \in V12Height..Top : x % I = 0} :
       \E hash \in QuorumHashes(h) :
          ledger' = [ledger EXCEPT !.db = UpdateCheckpoint(@, ServiceNodeCheckpoint(h, hash))]
    /\ final' = Finalize(ledger', chain)
    /\ UNCHANGED <<chain, nextFork, up>>

(***************************************************************************)
(* An alternative block at height s (its parent is the main-chain block   *)
(* at s - 1).  is_alternative_block_allowed is asked first; if it allows  *)
(* the block and the block passes check_block, either the node switches   *)
(* to it (the alternative chain carries more work): blocks s..Top are     *)
(* popped, blockchain_detached(s) runs, and the block is added with       *)
(* block_added; or it is kept as an alternative block.  A refused block   *)
(* still leaves the refreshed immutable-height cache behind.              *)
(***************************************************************************)
AltBlock ==
    /\ up
    /\ nextFork < MaxForks
    /\ \E s \in 1..Top :
       LET gate == IsAlternativeBlockAllowed(ledger, Top, s)
       IN  \/ /\ gate.allowed
              /\ CheckBlock(ledger, s, nextFork)
              /\ chain' = Append(SubSeq(chain, 1, s), nextFork)
              /\ LET detached == BlockchainDetached(gate.ledger, s)
                 IN  \E failed \in CullFailures(detached, s) :
                        ledger' = BlockAdded(detached, s, MajorVersion(s),
                                             NoCheckpoint, failed)
              /\ nextFork' = nextFork + 1
              /\ final' = Finalize(ledger', chain')
           \/ /\ ledger' = gate.ledger
              /\ UNCHANGED <<chain, nextFork, final>>
    /\ UNCHANGED up

(***************************************************************************)
(* POP_BLOCKS(nblocks): Blockchain::pop_blocks, which ends in             *)
(* blockchain_detached(new chain height).  The administrator discards     *)
(* what was final above the new top.                                      *)
(***************************************************************************)
PopBlocks ==
    /\ up
    /\ \E n \in 1..Top :
          /\ chain' = SubSeq(chain, 1, Len(chain) - n)
          /\ ledger' = BlockchainDetached(ledger, Top - n + 1)
          /\ final' = Restrict(final, (DOMAIN final) \cap 0..(Top - n))
    /\ UNCHANGED <<nextFork, up>>

(***************************************************************************)
(* The daemon restarts: checkpoints::init on the same store.              *)
(***************************************************************************)
Restart ==
    /\ up
    /\ LET r == InitLedger(ledger.db)
       IN  /\ ledger' = r.ledger
           /\ up' = r.ok
    /\ final' = Finalize(ledger', chain)
    /\ UNCHANGED <<chain, nextFork>>

Next ==
    \/ AddBlock
    \/ QuorumCheckpoint
    \/ AltBlock
    \/ PopBlocks
    \/ Restart

Spec == Init /\ [][Next]_vars

\* The block-acceptance pipeline alone: every detach goes through the
\* is_alternative_block_allowed gate.
PipelineNext ==
    \/ AddBlock
    \/ QuorumCheckpoint
    \/ AltBlock

PipelineSpec == Init /\ [][PipelineNext]_vars

\* The pipeline with the administrative events: daemon restarts and the
\* POP_BLOCKS handler.
PipelineAdminSpec == Init /\ [][PipelineNext \/ Restart \/ PopBlocks]_vars

(***************************************************************************)
(* Properties                                                             *)
(***************************************************************************)
Heights == 0..MaxHeight
Forks   == 0..(MaxForks - 1)

\* Finality (spec 4.2, is_alternative_block_allowed): once a block has been
\* at or below the chain's immutable height, no later reorganisation
\* replaces it; only the administrator's pop_blocks gives it up.
FinalityPermanent ==
    \A h \in DOMAIN final : h <= Top => BlockAt(h) = final[h]

\* blockchain_detached removes every service-node checkpoint above the new
\* top: a service-node checkpoint only ever pins a block of the chain, and
\* one left above the top would refuse the next block at its height.
ServiceNodeCheckpointsWithinChain ==
    \A x \in DOMAIN ledger.db :
        ledger.db[x].type = ServiceNodeType => x <= Top

\* block_added's culling and update_checkpoint never lower the immutable
\* height: only a step that detaches blocks (a switch to an alternative
\* chain, pop_blocks) may.
\* A step that keeps every block of the chain (it only appends, or leaves
\* the chain alone).
KeepsChain ==
    \/ chain' = chain
    \/ Len(chain') > Len(chain) /\ SubSeq(chain', 1, Len(chain)) = chain

ImmutableOnlyDropsOnDetach ==
    [][KeepsChain /\ up' => ImmutableHeight(ledger', Top') >= ImmutableHeight(ledger, Top)]_vars

\* check_block against the hardcoded list (spec 4.2: a hardcoded checkpoint
\* is never removed): no main-chain block contradicts a hardcoded checkpoint.
HardcodedCheckpointsHold ==
    \A h \in DOMAIN HARDCODED_CHECKPOINTS :
        h <= Top => BlockAt(h) = HARDCODED_CHECKPOINTS[h]

\* A checkpoint, once written, keeps the hash it pins until it is removed
\* (spec 4.2: update_checkpoint rejects a different hash at a stored height).
CheckpointHashStable ==
    [][\A x \in (DOMAIN ledger.db) \cap (DOMAIN ledger'.db) :
          ledger'.db[x].hash = ledger.db[x].hash]_vars

\* block_added's cull loop (spec 4.2: what lies below the immutable
\* checkpoint off the persistent grid is deleted, the cursor recording how
\* far): a block appended to the chain leaves no service-node checkpoint
\* on the CHECKPOINT_INTERVAL grid, off the persistent grid, between where
\* culling resumes (the cursor, or the window start if that is higher)
\* and end_cull_height.  A cursor that a detach left off the grid steps
\* past every such height.
CullWindowCleared ==
    [][ (/\ up /\ Len(chain') = Len(chain) + 1 /\ SubSeq(chain', 1, Len(chain)) = chain
         /\ Top' >= P /\ MajorVersion(Top') >= network_version_12_checkpointing)
        => LET end  == CullEnd(ledger.db, Top')
               from == Max({ledger.m_last_cull_height, CullStart(end)})
           IN  \A x \in from..(end - 1) :
                  x % I = 0 /\ x % P # 0 => ~IsServiceNodeCheckpoint(ledger', x)
      ]_vars

(***************************************************************************)
(* Refinement: the pipeline implements Finality, with the immutable       *)
(* height mapped to the m_immutable_height cache that                     *)
(* is_alternative_block_allowed keeps and tests every alternative block   *)
(* against.                                                               *)
(***************************************************************************)
AbstractFinality == INSTANCE Finality WITH immutable <- ledger.m_immutable_height

\* The cache is what makes a height immutable for the node: it never goes
\* down within a session (std::max at checkpoints.cpp:307), never lies above
\* the top, and no block, quorum checkpoint or reorganisation changes a
\* block at or below it.
FinalityRefined == AbstractFinality!Spec

=============================================================================
