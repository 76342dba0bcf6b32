SPECIFICATION Spec
CONSTANTS
    a = a
    b = b
    c = c
    Learner = {l1}
    Unit = {a, b}
    Publishable <- Routes
    Requests = {r1}
    MaxPublications = 2
    MaxOpen = 1
PROPERTIES
    ReturnsRevealOtherRoutes
