\* One controller, two restore requests and a drain or resume; leadership does
\* not change while three synchronizations wait.
SPECIFICATION FairSpec
CONSTANTS
    Restores = {r1, r2}
    MaxSyncs = 3
CHECK_DEADLOCK FALSE
INVARIANTS
    TypeOK
    LateStartIsUndone
    LeaderIsServed
    ClosedIsQuiet
PROPERTIES
    ServicesFollowLeadership
    ShutdownEnds
