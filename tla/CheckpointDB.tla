---------------------------- MODULE CheckpointDB ----------------------------
(***************************************************************************)
(* The checkpoint table of the block store (BlockchainDB), the persistent  *)
(* collaborator the checkpoint ledger delegates to.  Its code is not under *)
(* src/: every operator follows the store interface of spec section 6.    *)
(* A store is a function from checkpointed heights to records             *)
(* [hash, type]; the key is the height, so there is at most one record    *)
(* per height.                                                            *)
(***************************************************************************)
EXTENDS Integers, FiniteSets, FiniteSetsExt, Functions, SequencesExt, TLC

NoHeight == -1

HardcodedType   == "hardcoded"
ServiceNodeType == "service_node"
CheckpointTypes == {HardcodedType, ServiceNodeType}

CheckpointRecord(hash, type) == [hash |-> hash, type |-> type]

EmptyStore == [h \in {} |-> CheckpointRecord(0, HardcodedType)]

\* get_top_checkpoint: the highest checkpointed height, NoHeight if none.
TopCheckpointHeight(store) ==
    IF DOMAIN store = {} THEN NoHeight ELSE Max(DOMAIN store)

\* get_checkpoints_range(0, h, ...): the checkpointed heights at or below h.
CheckpointsUpTo(store, h) == {x \in DOMAIN store : x <= h}

\* get_immutable_checkpoint(h): among the checkpoints at or below h, the
\* highest one if it is hardcoded; otherwise the second highest (a
\* service-node checkpoint is final once a later checkpoint is on top of it).
ImmutableCheckpointHeight(store, h) ==
    LET below == CheckpointsUpTo(store, h)
    IN  IF below = {} THEN NoHeight
        ELSE LET c1 == Max(below)
             IN  IF store[c1].type # ServiceNodeType THEN c1
                 ELSE IF below = {c1} THEN NoHeight
                 ELSE Max(below \ {c1})

\* get_checkpoints_range(start, end, num_desired_checkpoints): the stored
\* heights between start and end inclusive, ordered from start toward end,
\* the first num_desired of them (all of them for GET_ALL_CHECKPOINTS, 0).
CheckpointsRange(store, start, end, count) ==
    LET hs == {x \in DOMAIN store : Min({start, end}) <= x /\ x <= Max({start, end})}
        ordered == SetToSortSeq(hs, LAMBDA a, b : IF start <= end THEN a < b ELSE a > b)
    IN  IF count = 0 \/ count >= Len(ordered) THEN ordered ELSE SubSeq(ordered, 1, count)

\* update_block_checkpoint: a key/value put, replacing any record at the height.
PutCheckpoint(store, height, rec) == (height :> rec) @@ store

\* remove_block_checkpoint for every height of hs (absent keys are no-ops).
RemoveCheckpoints(store, hs) == Restrict(store, DOMAIN store \ hs)

=============================================================================
