------------------------------- MODULE Accounts -------------------------------
(***************************************************************************)
(* The parts of the system around accounts share no row but the user's:    *)
(* how people join (ContributorInvitations, extended here), the sessions   *)
(* and password resets of an account (Browsing), the rate limits of the    *)
(* public forms (Limiting), what a user has granted a remote client        *)
(* (Connecting) and the tokens of the account page (Creating). Each part   *)
(* has its own variables and its own next-state relation.                  *)
(***************************************************************************)
EXTENDS ContributorInvitations

CONSTANTS Requests,                                \* what the server can be serving at once
          Links, MaxTokens,                        \* Sessions
          Keys, Limit, Window, Block, Retention,   \* AuthenticationRateLimits
          MaxTime, MaxEvents,
          Grants, Asked, MaxOpen, MaxIssued,       \* OAuthConnections
          User, Token, Lifetime, MaxVisitTime      \* AccountTokens

VARIABLES sessions, jar, requests, link, tokens, resets, careful, signedIn,
          clock, limits, submissions, verdicts, before, failures,
          rows, expired, exchanges, issued, history, alone,
          time, owner, unused, flashes, visits, shown

Browsing == INSTANCE Sessions WITH NoLink <- None

Limiting == INSTANCE AuthenticationRateLimits
    WITH NoRow <- None, NoKey <- None, rows <- limits, requests <- submissions

Connecting == INSTANCE OAuthConnections WITH txs <- exchanges, Kinds <- Asked

Creating == INSTANCE AccountTokens
    WITH MaxTime <- MaxVisitTime, NoToken <- None, clock <- time, requests <- visits

browsing == <<sessions, jar, requests, link, tokens, resets, careful, signedIn>>
limiting == <<clock, limits, submissions, verdicts, before, failures>>
connections == <<rows, expired, exchanges, issued, history, alone>>
creating == <<time, owner, unused, flashes, visits, shown>>

\* What the constants of the code, and the names this model gives things, satisfy.
ASSUME LinksAreTokens == Browsing!LinksAreTokens
ASSUME LimitsAreOrdered == Limiting!LimitsAreOrdered
ASSUME KindsAreRequests == Connecting!KindsAreRequests
ASSUME FlashesExpire == Creating!FlashesExpire

-------------------------------------------------------------------------------
\* The properties of the parts, under the names they have there.

\* The rotation of tokens logs no browser out that gets its answers in order.
RotationKeepsTheSession == Browsing!RotationKeepsTheSession

\* A reset link sets the password once.
LinksAreUsedOnce == Browsing!LinksAreUsedOnce

\* No stretch of a window's length admits more than what two windows leave.
AdmissionsAreBounded == Limiting!AdmissionsAreBounded

\* Only an address that submitted too often within a block is turned away.
RejectionsAreEarned == Limiting!RejectionsAreEarned

\* Deadlocks of the cleanup take two addresses dormant for long.
FailuresNeedDormancy == Limiting!FailuresNeedDormancy

\* No retry or overlap gives one grant two refresh tokens.
OneRefreshTokenPerGrant == Connecting!OneRefreshTokenPerGrant

\* A completed grant lasts, while no two requests overlap.
GrantsEndureAlone == Connecting!GrantsEndureAlone

\* The secret of a new token is on the page its creator is redirected to.
SecretsReachTheirOwner == Creating!SecretsReachTheirOwner

===============================================================================
