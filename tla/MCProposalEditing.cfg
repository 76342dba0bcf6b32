SPECIFICATION ScenarioSpec
CONSTANTS
    Text = {"a", "b", "c"}
    MaxUnit = 3
    Proposals = {p0, p1, p2}
    Authors = {a1}
    None = None
    Seed <- PairSeed
    MaxChanges = 3
    MaxCopies = 2
    Calls <- AllCalls
    Client = {c1}
    Title = {"t", "u"}
    Via = {"rest", "mcp"}
    Tools <- AllTools
    MaxTries = 1
SYMMETRY ProposalSymmetry
INVARIANTS
    TypeOK
    PublishedGraphIsSound
    SubmittedIsPublishable
    HistoryIsLinear
    DraftIsNormalizedDiff
    ReviewersSeeWhatIsPublished
PROPERTIES
    SubmissionFreezes
    OverlapIsReviewed
    RetriesConverge
    ImplementsPublishedCurriculum
CHECK_DEADLOCK FALSE
