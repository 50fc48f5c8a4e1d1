SPECIFICATION MCSpec
CONSTANTS
    MAX_SKIPPED_KEYS = 2
    COUNTER_MAX = 2
    GEN_MAX = 9
    Suites = {"xchacha", "aes"}
    DEFAULT_SUITE = "xchacha"
    StoredVersions = {1, 2}
    MaxFrames = 3
    MaxRotations = 1
    MaxExhausted = 1
    MaxCrashes = 1
INVARIANTS
    FloorPinsState
    SnapshotRestores
    FrameReleasedOnce
    PlaintextReturnedOnce
    InSyncAcrossCrashes
    StorageInv
