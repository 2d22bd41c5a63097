CONSTANTS
    r1 = r1
    r2 = r2
    c1 = c1
    c2 = c2
    Events <- OneEvent
    MustRoute <- MCMustRoute
    Mailing <- MCMailing
    Relays <- OneRelay
    Consumers <- OneConsumer
    BatchSize = 2
    MaxAttempts = 2
    MaxTries = 2
    MaxCrashes = 1
SPECIFICATION Spec

INVARIANTS MailedAtMostOnce
CHECK_DEADLOCK FALSE
