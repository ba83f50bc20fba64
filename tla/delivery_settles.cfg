\* Liveness, and the refinement of the lifecycle with its fairness.
SPECIFICATION FairSpec
CONSTANTS
    Commands = {c1}
    Handlers = {h1}
    Schedulers = {s1}
    NoCommand = NoCommand
    NoHandler = NoHandler
    MaxAttempts = 2
    Ttl = 2
    BaseDelay = 1
    DelayCap = 2
    MaxIssued = 1
    MaxTime = 3
PROPERTIES
    EveryCommandSettles
    ImplementsLifecycle
