\* One request at a time on a cascade of two flights.
SPECIFICATION FairSpec
CONSTANTS
    r1 = r1
    Flight = {1, 2}
    Request <- OneRequest
    MaxSteps = 6
    MaxForeign = 1
    MaxAborts = 1
INVARIANTS
    TypeOK
    OneIncidentPerMember
    RefusedOnlyWhenClosed
PROPERTIES
    GroupMovesLegally
    ClosedOverAll
    EventuallyDerived
