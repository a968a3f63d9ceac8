\* The plans of a group: the planner within its allowance, variants and choices.
SPECIFICATION DrivenSpec
CHECK_DEADLOCK FALSE
CONSTANTS
    Member = {1, 2, 3}
    Primary = 1
    PrimaryBudget = 150
    OrdinaryBudget = 40
    PoolBudget = 50
    MinSlice = 10
    MaxGrace = 10
    RequestTimeout = 120
    MinAttempt = 10
    RetryDelay = 3
    MaxRetries = 2
    MinOutputBudget = 512
    TpmLimit = 8000
    SafetyMargin = 800
    MaxTokens = 3072
    Available <- MCAvailable
    Target <- MCTarget
    PlaybookTasks <- MCPlaybook
    Reply <- MCReply
    Prompt = {1400, 6800}
    Request = {q1, q2, q3}
    Contested = {3}
    MaxPlans = 3
    MaxLost = 1
INVARIANTS
    PlannerWaitBounded
    PlansAreSound
PROPERTIES
    PlanningEnds
