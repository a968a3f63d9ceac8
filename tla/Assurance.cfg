\* Two incidents of one cascade, people deciding singly and signing the plan.
SPECIFICATION Spec
CONSTANTS
    ActionType <- MCActions
    PolicyBearing = {}
    Incident = {1, 2}
    r1 = r1
    r2 = r2
    Request <- Requests
    Baseline <- MCBaseline
    Sibling <- MCSibling
    TasksOf <- MCTasks
    Reading <- MCReading
    GateConfig <- MCGateConfig
    PlanConfig <- MCPlanConfig
    Policy <- MCPolicy
    HotelAction = "reserve_hotel_block"
    Exposure <- MCExposure
    MaxDecisions = 2
INVARIANTS
    TypeOK
    SignatureReleasesNothing
    ApprovalIsWhole
    HighRiskDecidedAlone
PROPERTIES
    DecisionsStand
SYMMETRY Symmetry
CHECK_DEADLOCK FALSE
