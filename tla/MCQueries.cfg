\* Every scan of hardfork.cpp against its reference on all three tables,
\* check_hash against check_hash_128 on every 2-bit-word hash and
\* difficulty, and both retargeting variants on every window of up to
\* W + 1 samples.
CONSTANTS
    Nets = {"MAINNET", "TESTNET", "DEVNET"}
    QueryVersions = {6, 7, 8, 9, 10, 11, 12, 13, 14, 15, 16, 17, 18, 19}
    WordBits = 2
    DIFFICULTY_WINDOW_V2 = 4
    DIFFICULTY_CUT = 1
    MaxDifficulty = 63
    Target = 20
    MaxSamples = 5
    TimestampSteps <- MCTimestampSteps
    DifficultySteps = {0, 1, 2}
SPECIFICATION QueriesSpec
INVARIANTS
    ActiveVersionMatchesSchedule
    CeilIsLeastScheduledAbove
    IdealVersionIsActiveAndNewest
    CheckHashMatchesWideCheck
    CutWindowWithinSamples
    SteadyStateFixedPoint
    V2ResultDefined
