---------------------------- MODULE Checkpoints -----------------------------
(***************************************************************************)
(* The checkpoint ledger, class cryptonote::checkpoints                   *)
(* (src/src/checkpoints/checkpoints.cpp).  Its state is the store it is    *)
(* bound to and its two in-memory cursors; a ledger value is the record   *)
(*   [db, m_last_cull_height, m_immutable_height].                        *)
(* Every mutating member function is an operator from a ledger value (and *)
(* its arguments) to the ledger value it leaves, so that a caller that    *)
(* runs several of them under one blockchain lock composes them.          *)
(***************************************************************************)
EXTENDS CheckpointDB, Sequences, SequencesExt

CONSTANTS
    CHECKPOINT_INTERVAL,                    \* service_nodes::CHECKPOINT_INTERVAL
    CHECKPOINT_STORE_PERSISTENTLY_INTERVAL, \* service_nodes::CHECKPOINT_STORE_PERSISTENTLY_INTERVAL
    network_version_12_checkpointing,       \* cryptonote_config.h, = 12
    HARDCODED_CHECKPOINTS,                  \* height -> hash, HARDCODED_MAINNET_CHECKPOINTS
    SeedHardcoded                           \* nettype == MAINNET and no integration-test hooks

ASSUME CHECKPOINT_STORE_PERSISTENTLY_INTERVAL % CHECKPOINT_INTERVAL = 0

I == CHECKPOINT_INTERVAL
P == CHECKPOINT_STORE_PERSISTENTLY_INTERVAL

\* The optional checkpoint argument of block_added when it is a null pointer.
NoCheckpoint == [height |-> NoHeight, hash |-> NoHeight, type |-> HardcodedType]

ServiceNodeCheckpoint(height, hash) ==
    [height |-> height, hash |-> hash, type |-> ServiceNodeType]

\* get_checkpoint followed by checkpoint_t::check, i.e. check_block: a
\* height without a checkpoint passes, otherwise the hashes must agree.
CheckBlock(L, height, hash) ==
    height \in DOMAIN L.db => L.db[height].hash = hash

\* check_block's is_a_checkpoint / service_node_checkpoint outputs.
IsServiceNodeCheckpoint(L, height) ==
    height \in (DOMAIN L.db) /\ L.db[height].type = ServiceNodeType

\* is_in_checkpoint_zone / get_max_height (read-only).
IsInCheckpointZone(L, height) ==
    height <= IF DOMAIN L.db = {} THEN 0 ELSE TopCheckpointHeight(L.db)

\* update_checkpoint: assumes the checkpoint is valid and writes it.
UpdateCheckpoint(store, cp) ==
    PutCheckpoint(store, cp.height, CheckpointRecord(cp.hash, cp.type))

\* add_checkpoint(height, hash): idempotent for the same hash, refused for a
\* different one, otherwise a hardcoded checkpoint written through
\* update_checkpoint.  Result: [ok, db].
AddCheckpoint(store, height, hash) ==
    IF height \in DOMAIN store
    THEN [ok |-> store[height].hash = hash, db |-> store]
    ELSE [ok |-> TRUE,
          db |-> UpdateCheckpoint(store, [height |-> height, hash |-> hash,
                                          type |-> HardcodedType])]

\* init's seeding loop: ADD_CHECKPOINT2 makes init return false at the first
\* add_checkpoint that fails, leaving the entries before it written.
RECURSIVE SeedFrom(_, _)
SeedFrom(store, hs) ==
    IF hs = <<>> THEN [ok |-> TRUE, db |-> store]
    ELSE LET r == AddCheckpoint(store, Head(hs), HARDCODED_CHECKPOINTS[Head(hs)])
         IN  IF r.ok THEN SeedFrom(r.db, Tail(hs)) ELSE r

\* init(nettype, db): *this = {} clears both cursors; the store keeps its
\* records and is seeded with the hardcoded list.  Result: [ok, ledger].
InitLedger(store) ==
    LET seeded == IF SeedHardcoded
                  THEN SeedFrom(store, SetToSortSeq(DOMAIN HARDCODED_CHECKPOINTS, <))
                  ELSE [ok |-> TRUE, db |-> store]
    IN  [ok     |-> seeded.ok,
         ledger |-> [db |-> seeded.db, m_last_cull_height |-> 0,
                     m_immutable_height |-> 0]]

(***************************************************************************)
(* block_added: the cull window and its cursor.                           *)
(***************************************************************************)
\* end_cull_height: the immutable checkpoint at height + 1, or 0.
CullEnd(store, height) ==
    LET c == ImmutableCheckpointHeight(store, height + 1)
    IN  IF c = NoHeight THEN 0 ELSE c

\* start_cull_height: end - P (floored at 0) rounded up to the interval grid.
CullStart(end) ==
    LET s0 == IF end < P THEN 0 ELSE end - P
    IN  IF s0 % I > 0 THEN s0 + (I - (s0 % I)) ELSE s0

\* Seeded fault (mutation testing): the loop bound written as <= end.
CullHeightsInclusive(from, end) ==
    {x \in from..end : (x - from) % I = 0 /\ x % P # 0}

\* The heights the loop removes, from the cursor value `from` up to end,
\* stepping by the interval and skipping the persistent grid.
CullHeights(from, end) ==
    {x \in from..(end - 1) : (x - from) % I = 0 /\ x % P # 0}

\* The cursor after the loop: the first from + k*I that is >= end.
CullCursor(from, end) ==
    IF from >= end THEN from ELSE from + I * ((end - from + I - 1) \div I)

\* The heights block_added(height) tries to remove: the cull loop's
\* heights from the cursor, raised to start_cull_height, up to the end.
CullWindow(L, height) ==
    LET end == CullEnd(L.db, height)
    IN  CullHeights(Max({L.m_last_cull_height, CullStart(end)}), end)

\* checkpoints::block_added(block, txs, checkpoint): below the persistent
\* interval or before v12 it returns at once (the checkpoint is dropped);
\* otherwise it culls the window, then persists the checkpoint if given.
\* `failed` are the heights whose remove_block_checkpoint throws: the
\* exception is logged and swallowed, the checkpoint stays, and the
\* cursor still moves past it.
BlockAdded(L, height, major_version, cp, failed) ==
    IF height < P \/ major_version < network_version_12_checkpointing THEN L
    ELSE LET end    == CullEnd(L.db, height)
             from   == Max({L.m_last_cull_height, CullStart(end)})
             culled == RemoveCheckpoints(L.db, CullHeights(from, end) \ failed)
         IN  [L EXCEPT !.db = IF cp = NoCheckpoint THEN culled
                              ELSE UpdateCheckpoint(culled, cp),
                       !.m_last_cull_height = CullCursor(from, end)]

(***************************************************************************)
(* blockchain_detached(height)                                            *)
(***************************************************************************)
\* Seeded fault: the loop condition written as delete_height > height.
DetachedHeightsAbove(store, height) ==
    LET top == TopCheckpointHeight(store)
    IN  IF top = NoHeight THEN {}
        ELSE {d \in (height + 1)..top : (top - d) % I = 0 /\ d >= I}

\* The loop from the top checkpoint downwards by the interval while
\* delete_height >= height and delete_height >= CHECKPOINT_INTERVAL.
DetachedHeights(store, height) ==
    LET top == TopCheckpointHeight(store)
    IN  IF top = NoHeight THEN {}
        ELSE {d \in height..top : (top - d) % I = 0 /\ d >= I}

\* Seeded fault: the cursor set to the detach height, not lowered to it.
BlockchainDetachedResetCursor(L, height) ==
    [L EXCEPT !.m_last_cull_height = height,
              !.db = RemoveCheckpoints(@, DetachedHeights(@, height))]

BlockchainDetached(L, height) ==
    [L EXCEPT !.m_last_cull_height = IF @ < height THEN @ ELSE height,
              !.db = RemoveCheckpoints(@, DetachedHeights(@, height))]

(***************************************************************************)
(* is_alternative_block_allowed(blockchain_height, block_height)          *)
(* Result: [allowed, ledger]; the ledger's m_immutable_height cache only  *)
(* ever grows.                                                            *)
(***************************************************************************)
\* Seeded fault: the cache is overwritten, not raised (no std::max).
IsAlternativeBlockAllowedNoMax(L, blockchain_height, block_height) ==
    IF block_height = 0 THEN [allowed |-> FALSE, ledger |-> L]
    ELSE IF CheckpointsUpTo(L.db, blockchain_height) = {}
    THEN [allowed |-> TRUE, ledger |-> L]
    ELSE LET c   == ImmutableCheckpointHeight(L.db, blockchain_height)
             imm == IF c = NoHeight THEN 0 ELSE c
         IN  [allowed |-> block_height > imm,
              ledger  |-> [L EXCEPT !.m_immutable_height = imm]]

\* Seeded fault: the block is compared with the cache before it is raised.
IsAlternativeBlockAllowedStale(L, blockchain_height, block_height) ==
    IF block_height = 0 THEN [allowed |-> FALSE, ledger |-> L]
    ELSE IF CheckpointsUpTo(L.db, blockchain_height) = {}
    THEN [allowed |-> TRUE, ledger |-> L]
    ELSE LET c   == ImmutableCheckpointHeight(L.db, blockchain_height)
             imm == IF c = NoHeight THEN 0 ELSE c
             cache == Max({imm, L.m_immutable_height})
         IN  [allowed |-> block_height > L.m_immutable_height,
              ledger  |-> [L EXCEPT !.m_immutable_height = cache]]

IsAlternativeBlockAllowed(L, blockchain_height, block_height) ==
    IF block_height = 0 THEN [allowed |-> FALSE, ledger |-> L]
    ELSE IF CheckpointsUpTo(L.db, blockchain_height) = {}
    THEN [allowed |-> TRUE, ledger |-> L]
    ELSE LET c   == ImmutableCheckpointHeight(L.db, blockchain_height)
             imm == IF c = NoHeight THEN 0 ELSE c
             cache == Max({imm, L.m_immutable_height})
         IN  [allowed |-> block_height > cache,
              ledger  |-> [L EXCEPT !.m_immutable_height = cache]]

=============================================================================
