SPECIFICATION Spec
CONSTANTS
    Exchanges <- ManyExchanges
    Frames = 3
INVARIANTS
    SentUnderPolicy
    WithheldFromClient
    AccountedOnce
