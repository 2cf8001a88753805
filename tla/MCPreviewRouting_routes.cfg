CONSTANTS
    Requirement = {r1}
    Session = {s1, s2}
    Request = {q1}
    None = None
    Unclaimed = Unclaimed
    MaxCalls = 3
    MaxEvents = 2
SPECIFICATION FairSpec
INVARIANTS
    TypeOK
    EndedIsQuiet
PROPERTIES
    RouteReturns
    MisrouteEnds
CHECK_DEADLOCK FALSE
