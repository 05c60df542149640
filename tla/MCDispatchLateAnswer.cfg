SPECIFICATION DispatchSpec
CONSTANTS
    a = a
    Nodes <- OneNode
    DependsOn <- OneDependsOn
    Mutating <- OneNode
    Keyed <- OneNode
    MaxAttempts <- OneMaxAttempts
    Workers = {holder}
    Holder = holder
    Implementation = implementation
    LeaseSeconds = 1
    NoLease = NoLease
    NoNode = NoNode
    Classes = {"timeout"}
    MaxTime = 2
    MaxCheckpoints = 0
    Dispatchers = {d1, d2}
INVARIANTS
    AnswerClosesItsAttempt

CHECK_DEADLOCK FALSE
