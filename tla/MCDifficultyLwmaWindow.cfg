\* Both retargeting variants on every window of up to W + 1 samples.
CONSTANTS
    WordBits = 2
    DIFFICULTY_WINDOW_V2 = 4
    DIFFICULTY_CUT = 1
    MaxDifficulty = 63
    Target = 20
    MaxSamples = 5
    TimestampSteps <- MCTimestampSteps
    DifficultySteps = {0, 1, 2}
SPECIFICATION WindowSpec
INVARIANT LwmaUsesMostRecentWindow
