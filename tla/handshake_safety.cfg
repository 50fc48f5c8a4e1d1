SPECIFICATION ProfilesSpec
CONSTANTS
    Initiators = {1}
    SignedIds = {1, 2}
    OneTimeIds = {1, 2}
    Expiries = {0}
    FreshIds = TRUE
    MaxNow = 1
    MaxInitiations = 2
    MaxSessions = 2
INVARIANTS
    Agreement
    OneTimeUsedOnce
    DuplicateSameSession
    DelayedAccepted
    HybridAgreement
    UnalteredShared
    HandshakeInv
    HybridInv
