SPECIFICATION Spec
CONSTANTS
    Initiators = {1}
    SignedIds = {1}
    OneTimeIds = {1}
    Expiries = {0}
    FreshIds = FALSE
    MaxNow = 0
    MaxInitiations = 2
    MaxSessions = 2
INVARIANT ConsumedByMatching
