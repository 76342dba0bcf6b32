CONSTANTS
    wide = wide
    first = first
    second = second
    None = None
    Proposals = {wide, first, second}
    Clients = {"a", "b"}
    Unit = {"u", "v"}
    Changes <- Overlapping
    Starts <- Both
    MaxVersion = 2
    MaxCalls = 4
SPECIFICATION Spec
INVARIANTS
    LocksHoldReads
PROPERTIES
    ImplementsProposalLifecycle
    EveryTransactionEnds
CHECK_DEADLOCK FALSE
