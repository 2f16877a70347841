SPECIFICATION Spec
CONSTANTS
    Rows <- MCRows
    Files <- MCFiles
    Percents = {1, 2}
    Hashes = 3
    Caps = {1, 2}
    SampleSizes = {0, 3}
    Gates <- MCGates
INVARIANTS HeldOut ReservoirIsSample SampleIsFair BlindNeverPasses
CHECK_DEADLOCK FALSE
