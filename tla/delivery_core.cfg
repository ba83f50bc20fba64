\* A command and a reissue, two concurrent requests, one recovery sweep.
SPECIFICATION Spec
CONSTANTS
    Commands = {c1, c2}
    Handlers = {h1, h2}
    Schedulers = {s1}
    NoCommand = NoCommand
    NoHandler = NoHandler
    MaxAttempts = 2
    Ttl = 2
    BaseDelay = 1
    DelayCap = 2
    MaxIssued = 1
    MaxTime = 3
SYMMETRY FullSymmetry
INVARIANTS
    TypeOK
    DeadLetterJustified
    AcknowledgedWasCompleted
    IInv
    ReissuedIsOutOfDelivery
    RetriedHasSuccessor
PROPERTIES
    NeverResurrected
    ClaimedOnce
