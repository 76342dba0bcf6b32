SPECIFICATION Spec
CONSTANTS
    Text = {"a"}
    MaxUnit = 2
    Proposals = {p0, p1}
    Authors = {a1}
    None = None
    Seed <- PairSeed
    MaxChanges = 2
    MaxCopies = 1
    Calls = {"set_dependency"}
INVARIANTS
    OpenProposalsHaveAnOverview
CHECK_DEADLOCK FALSE
