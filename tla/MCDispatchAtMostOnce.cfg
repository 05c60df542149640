SPECIFICATION DispatchSpec
CONSTANTS
    a = a
    Nodes <- OneNode
    DependsOn <- OneDependsOn
    Mutating <- OneNode
    Keyed = {}
    MaxAttempts <- OneMaxAttempts
    Workers = {holder}
    Holder = holder
    Implementation = implementation
    LeaseSeconds = 1
    NoLease = NoLease
    NoNode = NoNode
    Classes = {"timeout", "transient_failure", "validation_failure"}
    MaxTime = 3
    MaxCheckpoints = 0
    Dispatchers = {d1, d2}
INVARIANTS
    DispatchTypeOK
    AtMostOnce
    LandedIsOnRecord
    InvocationsOnRecord
    OneInFlight
SYMMETRY Symmetric

CHECK_DEADLOCK FALSE
