\* A stale failure report puts a command with no attempt left back into delivery.
SPECIFICATION Spec
CONSTANTS
    Commands = {c1}
    Handlers = {h1}
    Schedulers = {s1}
    NoCommand = NoCommand
    NoHandler = NoHandler
    MaxAttempts = 2
    Ttl = 3
    BaseDelay = 1
    DelayCap = 2
    MaxIssued = 1
    MaxTime = 4
INVARIANT AttemptsWithinLimit
