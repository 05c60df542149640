SPECIFICATION StoreSpec
CONSTANTS
    a = a
    b = b
    Nodes <- ChainNodes
    DependsOn <- ChainDependsOn
    Mutating <- ChainNodes
    Keyed = {}
    MaxAttempts <- ChainMaxAttempts
    Workers = {w}
    LeaseSeconds = 1
    NoLease = NoLease
    Classes = {"timeout", "transient_failure"}
    MaxTime = 3
    MaxCheckpoints = 0
    Procs = {p1, p2, p3}
    Replacing = {}
    MaxRevision = 10
    NoCopy = NoCopy
INVARIANTS
    CopyMatchesRevision
    EveryGrantOnRecord
PROPERTIES
    Spec
