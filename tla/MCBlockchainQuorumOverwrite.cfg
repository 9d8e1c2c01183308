\* Quorum checkpoints that may pin a hash the local chain does not have, over a chain with the genesis checkpoint only.
CONSTANTS
    CHECKPOINT_INTERVAL = 2
    CHECKPOINT_STORE_PERSISTENTLY_INTERVAL = 6
    network_version_12_checkpointing = 12
    HARDCODED_CHECKPOINTS <- MCGenesisOnly
    SeedHardcoded = TRUE
    MaxHeight = 8
    MaxForks = 3
    V12Height = 2
    QuorumMayConflict = TRUE
    CullMayFail = FALSE
SPECIFICATION PipelineSpec
PROPERTY CheckpointHashStable
