SPECIFICATION FairSpec
CONSTANTS
    MAX_SKIPPED_KEYS = 2
    COUNTER_MAX = 3
    GEN_MAX = 9
    Suites = {"xchacha"}
    MaxFrames = 5
    MaxRotations = 1
    MaxExhausted = 1
INVARIANTS
    InSync
    LossTolerated
PROPERTY EventuallyDelivered
