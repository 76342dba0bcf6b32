SPECIFICATION ScenarioSpec
CONSTANTS
    a = a
    b = b
    c = c
    Unit = {a, b, c}
    Path = {q1}
    Publishable <- Splits
    Initial <- First
    Requests = {r1}
    MaxPublications = 2
    Requires <- Orders
    Reader = {x1}
    Pages = {}
PROPERTIES
    TargetsFollowRecognitions
CHECK_DEADLOCK FALSE
