\* Two organizations and two loads at a time.
SPECIFICATION Spec
CONSTANTS
    Organizations = {o1, o2}
    Default = o1
    Principals <- TwoPrincipals
    o1 = o1
    o2 = o2
    Incidents = {i1}
    Secrets = {s1}
    Values = {v1, v2}
    Operations = {"organizations", "load", "create"}
    Tabs = {a}
    Sids = {x, y}
    Slots = {q1, q2}
    None = None
SYMMETRY AccessSymmetry
CHECK_DEADLOCK FALSE
INVARIANT ShowsActiveOrganization
