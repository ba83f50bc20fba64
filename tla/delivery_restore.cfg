\* A command and its reissue, one request and one sweep, one archive restored
\* at any moment after any other.
SPECIFICATION RestoreSpec
CONSTANTS
    Commands = {c1, c2}
    Handlers = {h1}
    Schedulers = {s1}
    NoCommand = NoCommand
    NoHandler = NoHandler
    MaxAttempts = 1
    Ttl = 2
    BaseDelay = 1
    DelayCap = 1
    MaxIssued = 1
    MaxTime = 3
    MaxRestores = 1
SYMMETRY RestoreSymmetry
INVARIANTS
    RestoreTypeOK
    RestoreKeepsPromises
