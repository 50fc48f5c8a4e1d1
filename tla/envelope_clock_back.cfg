SPECIFICATION AdjustedClockSpec
CONSTANTS
    MAX_CIPHERTEXT_LEN = 4
    AEAD_TAG_LEN = 1
    OUTER_FIXED_LEN = 2
    NONCE_LEN = 1
    Local = "local"
    Capacity = 2
    Recipients = {"local"}
    InnerLens = {1}
    PaddingLens = {0}
    Paddings = {"zero"}
    Expiries = {1, 2}
    MaxNow = 3
    MaxEnvelopes = 2
INVARIANT AcceptedOnce
