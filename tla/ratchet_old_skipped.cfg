SPECIFICATION Spec
CONSTANTS
    MAX_SKIPPED_KEYS = 2
    COUNTER_MAX = 3
    GEN_MAX = 9
    Suites = {"xchacha"}
    MaxFrames = 4
    MaxRotations = 1
    MaxExhausted = 1
INVARIANT RetainedKeysOpen
