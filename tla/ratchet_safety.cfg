SPECIFICATION Spec
CONSTANTS
    MAX_SKIPPED_KEYS = 2
    COUNTER_MAX = 3
    GEN_MAX = 4
    Suites = {"xchacha", "aes"}
    MaxFrames = 4
    MaxRotations = 2
    MaxExhausted = 1
INVARIANTS
    SkippedBounded
    SkippedUnique
    DeliveredAtMostOnce
    OnlyPeerFrames
    KeyUsedOnce
    HeaderNumbersKey
    NothingLostInChain
    RatchetInv
    SyncInv
PROPERTY ImplementsChannel
