SPECIFICATION FairDeliverySpec
CONSTANTS
    MAX_SKIPPED_KEYS = 1
    COUNTER_MAX = 3
    GEN_MAX = 9
    Suites = {"xchacha"}
    MaxFrames = 3
    MaxRotations = 1
    MaxExhausted = 1
    MAX_CIPHERTEXT_LEN = 4
    AEAD_TAG_LEN = 1
    OUTER_FIXED_LEN = 2
    NONCE_LEN = 1
    Capacity = 2
    INNER_OVERHEAD = 2
    PayloadLens = {1, 3, 4}
    PaddingLens = {0}
    Expiries = {0}
    MaxNow = 1
    MaxEnvelopes = 2
    MaxRestarts = 1
INVARIANTS
    StrandedOnlyByLimit
    LossTolerated
    CacheInv
PROPERTIES
    EndToEndChannel
    EventuallyReturned
