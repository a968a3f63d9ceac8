\* What the engine refused and a person may approve all the same.
SPECIFICATION Spec
CONSTANTS
    Revision <- MCRevision
    Trips <- MCTrips
    Case <- MCCase
    PackVersion = 1
    ActionType = {"evaluate_entitlements"}
    PolicyBearing = {"evaluate_entitlements"}
    Mode = "charter"
    MaxDecisions = 2
INVARIANTS
    RefusedIsNotApprovable
CHECK_DEADLOCK FALSE
