SPECIFICATION Spec
CONSTANTS
    MAX_CIPHERTEXT_LEN = 4
    AEAD_TAG_LEN = 1
    OUTER_FIXED_LEN = 2
    NONCE_LEN = 1
    Local = "local"
    Capacity = 2
    Recipients = {"local", "other"}
    InnerLens = {1}
    PaddingLens = {0, 2, 3}
    Paddings = {"zero", "other"}
    Expiries = {1, 2}
    MaxNow = 3
    MaxEnvelopes = 3
INVARIANTS
    AcceptedOnce
    CacheBounded
    FreshAccepted
    SealedDecodes
    EnvelopeInv
