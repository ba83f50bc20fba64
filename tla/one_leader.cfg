\* A leader connection breaks while its replica takes the lead.
SPECIFICATION FairSpec
CONSTANTS
    Controllers = {a, b}
    Requests = {}
    Faults = {"break"}
PROPERTY OneLeaderInTheEnd
