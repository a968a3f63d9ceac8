\* A run is lost while the incident executes.
SPECIFICATION RunSpec
CONSTANTS
    Task <- SmallTask
    PlanOf <- SmallPlanOf
    ActionOf <- SmallActionOf
    DependsOn <- SmallDependsOn
    Baseline = 1
    PlannerPlans = {}
    VariantPlans = {}
    HighRisk = {"notify"}
    MaxSteps = 12
    MaxAborts = 1
PROPERTIES
    ResumesAfterRestart
