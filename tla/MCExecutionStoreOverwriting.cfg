SPECIFICATION StoreSpec
CONSTANTS
    a = a
    b = b
    Nodes <- ChainNodes
    DependsOn <- ChainDependsOn
    Mutating <- ChainNodes
    Keyed = {}
    MaxAttempts <- ChainRetryAttempts
    Workers = {w}
    LeaseSeconds = 1
    NoLease = NoLease
    Classes = {"transient_failure"}
    MaxTime = 1
    MaxCheckpoints = 1
    Procs = {p1, p2}
    Replacing = {"pause", "resume", "complete", "abort", "heartbeat", "retry", "skip", "compensate", "checkpoint"}
    MaxRevision = 4
    NoCopy = NoCopy
INVARIANTS
    StoreTypeOK
    CopyMatchesRevision
    StoredRunCoherent
SYMMETRY Symmetric
