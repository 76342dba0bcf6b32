SPECIFICATION Spec
CONSTANTS
    Text = {"a", "b"}
    MaxUnit = 4
    Proposals = {p0, p1, p2}
    Authors = {a1}
    None = None
    Seed <- SplitSeed
    MaxChanges = 2
    MaxCopies = 1
    Calls = {"set_dependency", "update_fields"}
SYMMETRY ProposalSymmetry
INVARIANTS
    ReviewCanSucceed
CHECK_DEADLOCK FALSE
