\* A hardcoded checkpoint above the chain top during initial sync.
CONSTANTS
    CHECKPOINT_INTERVAL = 2
    CHECKPOINT_STORE_PERSISTENTLY_INTERVAL = 6
    network_version_12_checkpointing = 12
    HARDCODED_CHECKPOINTS <- MCAheadOfChain
    SeedHardcoded = TRUE
    MaxHeight = 8
    MaxForks = 3
    V12Height = 2
    QuorumMayConflict = FALSE
    CullMayFail = FALSE
SPECIFICATION PipelineSpec
INVARIANT HardcodedCheckpointsHold
