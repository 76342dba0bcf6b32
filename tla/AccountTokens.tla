----------------------------- MODULE AccountTokens -----------------------------
(***************************************************************************)
(* API tokens and the account page (internal/server/account.go,            *)
(* internal/services/api_tokens.go, internal/db/api_tokens.go).            *)
(*                                                                         *)
(* Only the hash of a token is stored.  Its secret waits in the memory of  *)
(* the server, one flash per user, for the account page the browser is     *)
(* redirected to.  Other tabs of the user set and take the same flash,     *)
(* every new flash sweeps out those of all users that have expired, and a  *)
(* restart forgets them.  The page takes the flash before it loads the     *)
(* rest of what it shows, which may fail.                                  *)
(***************************************************************************)
EXTENDS Naturals, FiniteSets

CONSTANTS User, Token, Requests,
          Lifetime,   \* accountAPITokenFlashLifetime, in ticks far longer than a request
          MaxTime,    \* bound: the last tick
          NoToken

VARIABLES
    clock,
    owner,      \* api_tokens: whose token it is, NoToken for none
    unused,     \* secrets not drawn yet
    flashes,    \* accountAPITokenFlashes, NoFlash for none
    requests,   \* creations and views of the account page, to their end
    shown       \* history: how many pages have shown each secret

vars == <<clock, owner, unused, flashes, requests, shown>>

\* What the constants of the code are.
FlashesExpire == NoToken \notin Token /\ Lifetime \in Nat \ {0} /\ MaxTime \in Nat

NoFlash == [expires |-> 0]
Flash == [token : Token \cup {NoToken}, expires : 1..(MaxTime + Lifetime)]

Idle == [step |-> "idle"]

TypeOK ==
    /\ clock \in 0..MaxTime
    /\ owner \in [Token -> User \cup {NoToken}]
    /\ unused \subseteq Token
    /\ flashes \in [User -> Flash \cup {NoFlash}]
    /\ \A r \in Requests :
          \/ requests[r] = Idle
          \/ /\ requests[r].step \in {"created", "page", "taken", "done"}
             /\ requests[r].user \in User
             /\ {requests[r].token, requests[r].got} \subseteq Token \cup {NoToken}
    /\ shown \in [Token -> Nat]

Init ==
    /\ clock = 0
    /\ owner = [t \in Token |-> NoToken]
    /\ unused = Token
    /\ flashes = [u \in User |-> NoFlash]
    /\ requests = [r \in Requests |-> Idle]
    /\ shown = [t \in Token |-> 0]

--------------------------------------------------------------------------------
(***************************************************************************)
(* A request and what happens to it: alone is history, FALSE once another  *)
(* request of the user has set or taken the flash this one waits for.      *)
(***************************************************************************)
Request(step, u, t) ==
    [step |-> step, user |-> u, token |-> t, got |-> NoToken, set |-> 0, alone |-> TRUE]

\* The others of the same user have lost their flash to the request r.
Disturb(r, now) ==
    requests' = [q \in Requests |->
        IF q = r THEN now
        ELSE IF requests[q].step = "page" /\ requests[q].user = now.user
        THEN [requests[q] EXCEPT !.alone = FALSE] ELSE requests[q]]

\* services.CreateAPIToken: the row is inserted ...
CreateAPIToken(r, u, t) ==
    /\ requests[r] = Idle
    /\ t \in unused
    /\ owner' = [owner EXCEPT ![t] = u]
    /\ unused' = unused \ {t}
    /\ requests' = [requests EXCEPT ![r] = Request("created", u, t)]
    /\ UNCHANGED <<clock, flashes, shown>>

\* ... or the name is refused, and the flash will hold the error instead.
RefuseName(r, u) ==
    /\ requests[r] = Idle
    /\ requests' = [requests EXCEPT ![r] = Request("created", u, NoToken)]
    /\ UNCHANGED <<clock, owner, unused, flashes, shown>>

\* Mutant: the sweep removes the flashes that have not expired.
SetFlashSweepingFresh(r) ==
    LET x == requests[r] IN
    /\ x.step = "created"
    /\ flashes' = [u \in User |->
           IF u = x.user THEN [token |-> x.token, expires |-> clock + Lifetime]
           ELSE IF flashes[u].expires > clock THEN NoFlash ELSE flashes[u]]
    /\ Disturb(r, [x EXCEPT !.step = "page", !.set = clock])
    /\ UNCHANGED <<clock, owner, unused, shown>>

\* setAccountAPITokenFlash, and the redirection to the account page.
SetFlash(r) ==
    LET x == requests[r] IN
    /\ x.step = "created"
    /\ flashes' = [u \in User |->
           IF u = x.user THEN [token |-> x.token, expires |-> clock + Lifetime]
           ELSE IF flashes[u].expires > clock THEN flashes[u] ELSE NoFlash]
    /\ Disturb(r, [x EXCEPT !.step = "page", !.set = clock])
    /\ UNCHANGED <<clock, owner, unused, shown>>

\* The account page is opened in another tab.
OpenAccount(r, u) ==
    /\ requests[r] = Idle
    /\ requests' = [requests EXCEPT ![r] = Request("page", u, NoToken)]
    /\ UNCHANGED <<clock, owner, unused, flashes, shown>>

\* takeAccountAPITokenFlash: the flash is gone, before anything is shown.
TakeFlash(r) ==
    LET x == requests[r]
        flash == flashes[x.user]
        got == IF flash.expires > clock THEN flash.token ELSE NoToken
    IN /\ x.step = "page"
       /\ flashes' = [flashes EXCEPT ![x.user] = NoFlash]
       /\ Disturb(r, [x EXCEPT !.step = "taken", !.got = got, !.set = 0,
                               !.alone = @ /\ clock < x.set + Lifetime])
       /\ UNCHANGED <<clock, owner, unused, shown>>

\* renderAccount: the user, the tokens and the connections were loaded.
RenderAccount(r) ==
    LET x == requests[r] IN
    /\ x.step = "taken"
    /\ shown' = IF x.got = NoToken THEN shown ELSE [shown EXCEPT ![x.got] = @ + 1]
    /\ requests' = [requests EXCEPT ![r].step = "done"]
    /\ UNCHANGED <<clock, owner, unused, flashes>>

\* One of the three could not be loaded: the answer is an error, and a secret that
\* was taken is lost.  So is that of a page which does not arrive.
FailAccount(r) ==
    /\ requests[r].step = "taken"
    /\ requests' = [requests EXCEPT ![r] = Idle]
    /\ UNCHANGED <<clock, owner, unused, flashes, shown>>

\* The page arrived, or nobody follows the redirection to it.
End(r) ==
    /\ requests[r].step \in {"page", "done"}
    /\ requests' = [requests EXCEPT ![r] = Idle]
    /\ UNCHANGED <<clock, owner, unused, flashes, shown>>

RevokeAPIToken(u, t) ==
    /\ owner[t] = u
    /\ owner' = [owner EXCEPT ![t] = NoToken]
    /\ UNCHANGED <<clock, unused, flashes, requests, shown>>

Tick ==
    /\ clock < MaxTime
    /\ clock' = clock + 1
    /\ UNCHANGED <<owner, unused, flashes, requests, shown>>

\* The process restarts: its requests end without an answer.
Restart ==
    /\ flashes' = [u \in User |-> NoFlash]
    /\ requests' = [r \in Requests |->
           IF requests[r].step = "page" THEN [requests[r] EXCEPT !.alone = FALSE]
                               ELSE Idle]
    /\ UNCHANGED <<clock, owner, unused, shown>>

Next ==
    \/ \E r \in Requests, u \in User :
          \/ \E t \in Token : CreateAPIToken(r, u, t)
          \/ RefuseName(r, u)
          \/ OpenAccount(r, u)
    \/ \E r \in Requests :
          SetFlash(r) \/ TakeFlash(r) \/ RenderAccount(r) \/ FailAccount(r) \/ End(r)
    \/ \E u \in User, t \in Token : RevokeAPIToken(u, t)
    \/ Tick
    \/ Restart

Spec == Init /\ [][Next]_vars

--------------------------------------------------------------------------------
(***************************************************************************)
(* Properties.                                                             *)
(***************************************************************************)
\* A page that shows the account after a token was created shows its secret, unless
\* that user did something else at the account page, the server restarted or
\* the page came after the lifetime; what other users do does not matter.  (A page
\* that fails after it took the secret shows nothing, and no later page has it.)
\* A page shows no secret but its own user's, and no secret is on two pages.
SecretsReachTheirOwner ==
    /\ \A r \in Requests : requests[r].step = "done" =>
          LET x == requests[r] IN
          /\ x.alone /\ x.token # NoToken => x.got = x.token
          /\ x.got # NoToken => owner[x.got] \in {x.user, NoToken}
    /\ \A t \in Token : shown[t] <= 1

================================================================================
