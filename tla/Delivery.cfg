CONSTANTS
    r1 = r1
    r2 = r2
    c1 = c1
    c2 = c2
    Events <- TwoEvents
    MustRoute <- MCMustRoute
    Mailing <- MCMailing
    Relays <- TwoRelays
    Consumers <- OneConsumer
    BatchSize = 2
    MaxAttempts = 2
    MaxTries = 2
    MaxCrashes = 1
SPECIFICATION FairSpec
INVARIANTS TypeOK PublishedIsNotLost ProcessedWasMailed
PROPERTIES EventArrives
CHECK_DEADLOCK FALSE
