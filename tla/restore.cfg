\* One mutation and three backups or restores on two controllers that share a
\* directory of one archive, or on one JSON controller, with every fault.
SPECIFICATION Spec
CONSTANTS
    Replicas = {a, b}
    Modes = {"json", "postgresql"}
    Writes = {w1}
    Calls = {k1, k2, k3}
    NoCall = NoCall
    NoReplica = NoReplica
    Genesis = Genesis
    Retention = 1
    Faults = {"crash", "failure"}
SYMMETRY RequestSymmetry
CHECK_DEADLOCK FALSE
INVARIANTS
    TypeOK
    ChainVerifies
    GateMatchesRestore
    CheckpointIsKept
    ArchiveHoldsAnswered
PROPERTY OnlyInFlightIsLost
