SPECIFICATION SmallSpec
CONSTANTS
    planned = planned
    autonomous = autonomous
    manual = manual
    Instances = {i1, i2}
    Approvals = {planned, autonomous, manual}
    Plans = {planned, autonomous}
    Autonomous = {autonomous}
    NoPlan = NoPlan
    MaxGeneration = 4
    MaxRuns = 2
    MaxExecutions = 1
    MaxMishaps = 2
SYMMETRY Symmetric
CHECK_DEADLOCK FALSE
INVARIANTS
    RemediationTypeOK
    EffectsWithinBudget
    NotExecutedMeansNot
PROPERTIES
    ImplementsGovernedAction
