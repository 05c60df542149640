SPECIFICATION Spec
CONSTANTS
    a = a
    b = b
    Nodes <- MCNodes
    DependsOn <- MCDependsOn
    Mutating <- MCMutating
    Keyed <- MCKeyed
    MaxAttempts <- MCMaxAttempts
    Workers = {w}
    LeaseSeconds = 1
    NoLease = NoLease
    Classes = {"timeout", "permanent_failure", "transient_failure"}
    MaxTime = 2
    MaxCheckpoints = 1
INVARIANTS
    TypeOK
    LeaseMatchesAttempt
    AmbiguousMutationNeverRepeated
    CompletedIsSettled
    NoNodeForgotten
    CheckpointsNeverAhead
    RecoveryLeavesNoDoubt
    RecoveryCanBeDone
PROPERTIES
    TerminalIsFinal
    AttemptHistoryKept
CHECK_DEADLOCK FALSE
