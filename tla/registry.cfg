\* Two organizations, two identifiers they may both choose, two hosts, and three
\* requests of any kind that overlap.
SPECIFICATION Spec
CONSTANTS
    Organizations = {o1, o2}
    Tokens = {t1, t2}
    Canaries = {n1}
    Ids = {s1, s2}
    IncidentIds = {i1}
    Machines = {a, b}
    Requests = {r1, r2, r3}
    None = None
SYMMETRY RegistrySymmetry
CHECK_DEADLOCK FALSE
INVARIANTS
    TypeOK
    SavedIdentityIsRegistered
    EvidenceInItsOrganization
PROPERTIES
    TokenIsSpent
    OrganizationIsKept
    IdentityChangesByEnrollment
