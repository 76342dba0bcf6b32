SPECIFICATION ScenarioSpec
CONSTANTS
    a = a
    b = b
    c = c
    Learner = {l1}
    Unit = {a, b, c}
    Publishable <- Routes
    Requests = {r1, r2}
    MaxPublications = 3
    MaxOpen = 3
    Text = {"a", "b"}
    MaxUnit = 3
    MaxRows = 3
    MaxTotal = 4
SYMMETRY RequestSymmetry
INVARIANTS
    RecognizedFromEarlierEvidence
    ChainsOfEvidence
    VerdictIsOfTheSet
    WhatIsShownIsPublished
    HistoryIsReadBack
    LayoutIsReadable
    MergeLosesNothing
    PanesYieldToTheRight
PROPERTIES
    GrantedAtPublication
    ReturnIsExact
    RepeatedViewKeepsItsOrder
CHECK_DEADLOCK FALSE
