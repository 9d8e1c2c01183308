\* The acceptance pipeline with an RPC thread answering GET_HEIGHT and
\* GET_BLOCK_HEADERS_RANGE: is what is final, and what is reported final, permanent?
CONSTANTS
    BlockTxs <- MCBlockTxs
    ServiceNodeList <- MCServiceNodes
    PeerLists <- MCPeerLists
    PeerListPublicOnly = TRUE
    NoNode = NoNode
    CHECKPOINT_INTERVAL = 2
    CHECKPOINT_STORE_PERSISTENTLY_INTERVAL = 6
    network_version_12_checkpointing = 12
    HARDCODED_CHECKPOINTS <- MCGenesisOnly
    SeedHardcoded = TRUE
    MaxHeight = 7
    MaxRange = 1
    HEIGHT_SENTINEL_VALUE = 100
    QUORUM_STATE_MAX_COUNT = 2
    CHECKPOINTS_MAX_COUNT = 2
    MaxForks = 3
    V12Height = 2
    QuorumMayConflict = FALSE
    CullMayFail = FALSE
SPECIFICATION RpcSpec
INVARIANTS
    FinalityPermanent
    ReportedImmutableHeld
    HeightQueriesAgree
    QuorumStateVisitsRequested
    CheckpointsAnswerRequest
    StateChangesCounted
    ServiceNodesAnswer
    PublicNodeChoice
PROPERTY
    FinalityRefined
    CullWindowCleared
