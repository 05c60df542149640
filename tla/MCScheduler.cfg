SPECIFICATION SchedulerSpec
CONSTANTS
    Instances = {i1, i2}
    Nobody = Nobody
    Readers = {i1}
    MaxRuns = 1
    Limit = 1
    MaxToken = 2
INVARIANTS
    SchedulerTypeOK
    OneCoordinatorPerTerm
