SPECIFICATION Spec
CONSTANTS
    a = a
    b = b
    c = c
    Learner = {l1}
    Unit = {a, b}
    Publishable <- Routes
    Requests = {}
    MaxPublications = 2
    MaxOpen = 2
PROPERTIES
    CompletedBeforeIsRecognized
