\* The incident driven by the API and by its cascade.
SPECIFICATION RunSpec
CONSTANTS
    Task <- MCTask
    PlanOf <- MCPlanOf
    ActionOf <- MCActionOf
    DependsOn <- MCDependsOn
    Baseline = 1
    PlannerPlans = {3, 4}
    VariantPlans = {2}
    HighRisk = {"notify", "hotel"}
    MaxSteps = 11
    MaxAborts = 2
INVARIANTS
    TypeOK
    ActedOnlyWithAuthority
    CalledAtMostOnce
    ParkedIsApprovable
    BudgetSpansRuns
PROPERTIES
    LegalMoves
    ResolvedIsWorked
    SettledIsFinal
    KeepsPromise
    RunReturns
    EventuallyClosed
