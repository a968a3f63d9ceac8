\* One pack directory in charter mode, revised, ingested and decided against.
SPECIFICATION Spec
CONSTANTS
    Revision <- MCRevision
    Trips <- MCTrips
    Case <- MCCase
    PackVersion = 1
    ActionType = {"evaluate_entitlements"}
    PolicyBearing = {"evaluate_entitlements"}
    Mode = "charter"
    MaxDecisions = 2
INVARIANTS
    ApprovableIsFiguredOrUnsettled
    ProvenanceIsChecked
    EvaluationsExplained
    ReplaysAlike
PROPERTIES
    ExtractedTextStands
CHECK_DEADLOCK FALSE
