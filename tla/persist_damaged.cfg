SPECIFICATION DamagedStorageSpec
CONSTANTS
    MAX_SKIPPED_KEYS = 1
    COUNTER_MAX = 2
    GEN_MAX = 4
    Suites = {"xchacha"}
    DEFAULT_SUITE = "xchacha"
    StoredVersions = {2}
    MaxFrames = 2
    MaxRotations = 0
    MaxExhausted = 1
    MaxCrashes = 1
INVARIANT RunsFromCommit
