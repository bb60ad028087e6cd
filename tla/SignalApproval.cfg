SPECIFICATION FairSpec
CONSTANTS
    MaxSignals = 3
    Submitters = {c1, c2}
    Deciders = {d1, d2}
    MaxQueue = 1
INVARIANT TypeOK
INVARIANT OneWinner
INVARIANT ExpiryAnnouncedLate
INVARIANT QueueBounded
PROPERTY DecidedOnce
PROPERTY StaleSettles
