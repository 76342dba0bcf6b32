SPECIFICATION Spec
CONSTANTS
    Text = {"a", "b"}
    MaxUnit = 3
    Proposals = {p0, p1, p2}
    Authors = {a1}
    None = None
    Seed <- ChainSeed
    MaxChanges = 2
    MaxCopies = 1
    Calls = {"delete_unit"}
SYMMETRY ProposalSymmetry
INVARIANTS
    ResolvedDeletionsAreValid
CHECK_DEADLOCK FALSE
