\* Two replicas, one request each, every fault.
SPECIFICATION Spec
CONSTANTS
    Controllers = {a, b}
    Requests = {r1}
    Faults = {"crash", "break", "statement"}
SYMMETRY ControllerSymmetry
VIEW SafetyView
INVARIANTS
    TypeOK
    SessionHoldsLock
    LockIsHeldByItsClient
