SPECIFICATION Spec
CONSTANTS
    AEAD_TAG_LEN = 1
    MAX_CIPHERTEXT_LEN = 3
    PqPublicLen = 3
    PqCiphertextLen = 2
    Objects <- MCObjects
    Units <- MCUnits
    MaxEdits = 2
INVARIANTS
    RoundTrip
    OneEncoding
    HybridBundleIntact
CHECK_DEADLOCK FALSE
