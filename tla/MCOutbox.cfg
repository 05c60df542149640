SPECIFICATION FairOutboxSpec
CONSTANTS
    Nobody = Nobody
    NoAnswer = NoAnswer
    Publishers = {p1, p2}
    Entries <- FourEvents
    Served <- ThreeServed
    Malformed <- OneRefused
    BatchSize = 2
    MaxPublishAttempts = 2
    MaxMishaps = 1
INVARIANTS
    OutboxTypeOK
    PublishedWasReceived
    DeadLettersWereRefused
PROPERTIES
    SettledStaysSettled
    ServedEventsSettle
CHECK_DEADLOCK FALSE
