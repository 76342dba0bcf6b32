SPECIFICATION ScenarioSpec
CONSTANTS
    q1 = q1
    q2 = q2
    first = first
    second = second
    None = None
    Emails = {first, second}
    Invitations = {first, second}
    Transactions = {q1, q2}
    Requests = {q1, q2}
    Links = {first}
    MaxTokens = 2
    Keys = {first, second}
    Limit = 3
    Window = 2
    Block = 2
    Retention = 3
    MaxTime = 6
    MaxEvents = 6
    Grants = {first, second}
    Asked = {"authorize", "exchange", "renew", "list", "revoke", "disconnect"}
    MaxOpen = 2
    MaxIssued = 3
    User = {first, second}
    Token = {1, 2}
    Lifetime = 2
    MaxVisitTime = 2
SYMMETRY Symmetry
INVARIANTS
    SecretsReachTheirOwner
    RotationKeepsTheSession
    LinksAreUsedOnce
    InvitationsAreUsedOnce
    ContributorsWereInvited
    AdmissionsAreBounded
    RejectionsAreEarned
    FailuresNeedDormancy
    OneRefreshTokenPerGrant
    GrantsEndureAlone
CHECK_DEADLOCK FALSE
