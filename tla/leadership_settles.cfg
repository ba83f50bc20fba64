\* Drains, resumes, shutdowns and crashes: leadership and the
\* members table settle.
SPECIFICATION FairSpec
CONSTANTS
    Controllers = {a, b}
    Requests = {r1}
    Faults = {"crash"}
PROPERTIES
    OneLeaderAmongConnected
    TopologyConverges
