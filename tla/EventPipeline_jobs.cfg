SPECIFICATION FairSpec
CONSTANTS
    Events = {created, deleted}
    Mailed = {created, deleted}
    Logged = {created}
    MailAttempts = 2
    LogAttempts = 1
    Attempts <- MCAttempts
    MaxStalls = 1
    MaxCrashes = 2
CHECK_DEADLOCK FALSE
INVARIANTS
    TypeOK
    DuplicatesBounded
    SettledRightly
    QueuedInOrder
PROPERTIES
    JobsSettle
