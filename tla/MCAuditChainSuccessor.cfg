SPECIFICATION FairAuditSpec
CONSTANTS
    Instances = {i1, i2}
    Nobody = Nobody
    MaxToken = 2
    MaxRecords = 2
    MaxDoubts = 0
PROPERTIES
    SuccessorContinues
