CONSTANTS
    CHECKPOINT_INTERVAL = 2
    CHECKPOINT_STORE_PERSISTENTLY_INTERVAL = 6
    network_version_12_checkpointing = 12
    HARDCODED_CHECKPOINTS <- MCGenesisOnly
    SeedHardcoded = TRUE
    MaxHeight = 9
    MaxForks = 3
    V12Height = 2
    QuorumMayConflict = FALSE
    CullMayFail = TRUE
SPECIFICATION Spec
INVARIANTS
    ServiceNodeCheckpointsWithinChain
PROPERTIES
    ImmutableOnlyDropsOnDetach
