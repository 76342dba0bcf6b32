SPECIFICATION ScenarioSpec
CONSTANTS
    a = a
    b = b
    c = c
    Unit = {a, b, c}
    Path = {q1}
    Publishable <- Splits
    Initial <- First
    Requests = {r1, r2}
    MaxPublications = 2
    Requires <- Orders
    Reader = {x1}
    Pages = {}
INVARIANTS
    EveryPathHasATarget
    TargetsAreWanted
    AdviceLeadsOn
PROPERTIES
    MigrationIsExact
    EveryTransactionEnds
CHECK_DEADLOCK FALSE
