\* One tab, two organizations, two requests at a time and every operation; pages
\* that are left have requests in progress, as other tabs would.
SPECIFICATION Spec
CONSTANTS
    Organizations = {o1, o2}
    Default = o1
    Principals <- TwoPrincipals
    o1 = o1
    o2 = o2
    Incidents = {i1}
    Secrets = {s1}
    Values = {v1, v2}
    Operations = {"organizations", "load", "create", "patch", "store", "rotate", "verify"}
    Tabs = {a}
    Sids = {x, y}
    Slots = {q1, q2}
    None = None
SYMMETRY AccessSymmetry
VIEW AccessView
CHECK_DEADLOCK FALSE
INVARIANTS
    TypeOK
    SecretsOpen
    SignedOutShowsNothing
PROPERTIES
    ChangesStayInScope
    DestroyedSessionsStayOut
