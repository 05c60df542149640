SPECIFICATION StoreSpec
CONSTANTS
    a = a
    b = b
    Nodes <- OneNode
    DependsOn <- OneDependsOn
    Mutating <- OneNode
    Keyed = {}
    MaxAttempts <- OneMaxAttempts
    Workers = {w}
    LeaseSeconds = 1
    NoLease = NoLease
    Classes = {"transient_failure"}
    MaxTime = 1
    MaxCheckpoints = 0
    Procs = {p1, p2}
    Replacing = {"pause", "resume"}
    MaxRevision = 6
    NoCopy = NoCopy
INVARIANTS
    AttemptGrantedOnce
