CONSTANTS
    wide = wide
    first = first
    second = second
    None = None
    Proposals = {wide, first, second}
    Clients = {"a", "b"}
    Unit = {"u", "v"}
    Changes <- Overlapping
    Starts <- TwoDrafts
    MaxVersion = 2
    MaxCalls = 4
SPECIFICATION Spec
INVARIANTS
    ReviewedWorkWasShown
CHECK_DEADLOCK FALSE
