SPECIFICATION AuditSpec
CONSTANTS
    Instances = {i1, i2}
    Nobody = Nobody
    MaxToken = 4
    MaxRecords = 3
    MaxDoubts = 1
INVARIANTS
    AuditTypeOK
    TokenNamesOneInstance
    ChainNeverForks
    OneWriterPerTerm
PROPERTIES
    SupersededWritesNothing
SYMMETRY Symmetric
