------------------------------ MODULE Sessions ------------------------------
(***************************************************************************)
(* One account, the sessions the server keeps for it, and one browser with *)
(* its cookie. The server gives a session a new token now and then; the    *)
(* browser learns it from the answer to the request that happened to be    *)
(* served then. Answers may arrive in another order, or never.             *)
(*                                                                         *)
(* Beside them, the links by which the account's password is reset: one at *)
(* a time, for an hour, and one use.                                       *)
(*                                                                         *)
(* A tick of the clock is far longer than a request.                       *)
(***************************************************************************)
EXTENDS Naturals, FiniteSets

CONSTANTS Requests,   \* the requests the browser can have on the way
          Links,      \* the reset tokens that can be generated
          MaxTokens,  \* bound: the session tokens generated
          NoLink

VARIABLES sessions,  \* the rows of the table, by token
          jar,       \* the browser's cookie
          requests,  \* what each request carries, and how far it has got
          link,      \* the row of password_reset_tokens
          tokens,    \* session tokens generated so far
          resets,    \* history: how often each link has set the password
          careful,   \* history: no two requests at once, no answer lost
          signedIn   \* history: logged in, and nothing since that ends a session

vars == <<sessions, jar, requests, link, tokens, resets, careful, signedIn>>
tables == <<sessions, link, tokens, resets>>
browser == <<jar, careful, signedIn>>

NoCookie == 0
LinksAreTokens == NoLink \notin Links /\ MaxTokens \in Nat
NoRow == [id |-> NoLink, age |-> "none"]

\* Since the last use: within a day, longer, or beyond SessionIdleTimeout; and
\* whether SessionRotationInterval has passed since the token was made.
Session == [token : 1..MaxTokens, unused : {"day", "days", "lapsed"}, due : BOOLEAN]
NewSession(n) == [token |-> n, unused |-> "day", due |-> FALSE]

Kinds == {"page", "login", "logout", "reset"}
\* The Set-Cookie header of an answer: none, a token, or one that clears it.
Quiet == [step |-> "quiet", kind |-> "page", cookie |-> NoCookie, answer |-> <<>>,
          known |-> FALSE, link |-> NoLink, doomed |-> {}]

Init ==
  /\ sessions = {}
  /\ jar = NoCookie
  /\ requests = [r \in Requests |-> Quiet]
  /\ link = NoRow
  /\ tokens = 0
  /\ resets = [l \in Links |-> 0]
  /\ careful = TRUE /\ signedIn = FALSE

At(r, step, kind) == requests[r].step = step /\ requests[r].kind = kind
OnTheWay == {r \in Requests : requests[r] # Quiet}
Doomed == UNION {requests[r].doomed : r \in Requests}

Step(r, step) == requests' = [requests EXCEPT ![r].step = step]
SetCookie(r, cookie) == requests' = [requests EXCEPT ![r].step = "answered", ![r].answer = <<cookie>>]

-----------------------------------------------------------------------------
\* The browser sends a request with the cookie it has at the time.
Send(r, kind, l) ==
  /\ requests[r] = Quiet
  /\ requests' = [requests EXCEPT ![r].step = "sent", ![r].kind = kind,
                                  ![r].cookie = jar, ![r].link = l]
  /\ careful' = (careful /\ OnTheWay = {})
  /\ signedIn' = (signedIn /\ kind # "logout")
  /\ UNCHANGED <<jar, tables>>

Held(cookie) == {s \in sessions : s.token = cookie}

\* A plausible bug: the new token is not sent back.
UseSessionSilently(r, s) ==
  /\ tokens < MaxTokens
  /\ sessions' = (sessions \ {s}) \cup {NewSession(IF s.due THEN tokens + 1 ELSE s.token)}
  /\ tokens' = IF s.due THEN tokens + 1 ELSE tokens
  /\ requests' = [requests EXCEPT ![r].step = "served", ![r].known = TRUE]

\* UseSession of a session that has not lapsed: a new token if one is due, and
\* otherwise a later expiry if a day has passed.
UseSession(r, s) ==
  /\ s.due => tokens < MaxTokens
  /\ LET token == IF s.due THEN tokens + 1 ELSE s.token
     IN  /\ sessions' = (sessions \ {s}) \cup
              {IF s.due THEN NewSession(token) ELSE [s EXCEPT !.unused = "day"]}
         /\ tokens' = IF s.due THEN tokens + 1 ELSE tokens
         /\ requests' = [requests EXCEPT ![r].step = "served", ![r].known = TRUE, ![r].cookie = token,
                           ![r].answer = IF s.due \/ s.unused = "days" THEN <<token>> ELSE <<>>]

\* maintainSession, before every handler. A row that a reset is deleting is
\* waited for.
Maintain(r) ==
  /\ requests[r].step = "sent"
  /\ Held(requests[r].cookie) \cap Doomed = {}
  /\ \/ /\ requests[r].cookie = NoCookie
        /\ Step(r, "served") /\ UNCHANGED <<sessions, tokens>>
     \/ \E s \in Held(requests[r].cookie) : s.unused # "lapsed" /\ UseSession(r, s)
     \/ /\ requests[r].cookie # NoCookie
        /\ \A s \in Held(requests[r].cookie) : s.unused = "lapsed"
        /\ sessions' = sessions \ Held(requests[r].cookie)
        /\ requests' = [requests EXCEPT ![r].step = "served", ![r].answer = <<NoCookie>>]
        /\ UNCHANGED tokens
  /\ UNCHANGED <<link, resets, browser>>

\* A page, whatever the handler does with it.
ServePage(r) ==
  /\ At(r, "served", "page")
  /\ Step(r, "answered")
  /\ UNCHANGED <<browser, tables>>

\* login: the password is compared, then the session is inserted.
Login(r) ==
  /\ At(r, "served", "login")
  /\ \/ Step(r, "compared")
     \/ Step(r, "answered")   \* rejected, or too many attempts
  /\ UNCHANGED <<browser, tables>>

CreateSession(r) ==
  /\ At(r, "compared", "login") /\ tokens < MaxTokens
  /\ sessions' = sessions \cup {NewSession(tokens + 1)}
  /\ tokens' = tokens + 1
  /\ SetCookie(r, tokens + 1)
  /\ UNCHANGED <<link, resets, browser>>

\* logout: only with the CSRF token of a session the middleware has found.
Logout(r) ==
  /\ At(r, "served", "logout")
  /\ Held(requests[r].cookie) \cap Doomed = {}
  /\ IF requests[r].known
     THEN sessions' = sessions \ Held(requests[r].cookie) /\ SetCookie(r, NoCookie)
     ELSE Step(r, "answered") /\ UNCHANGED sessions
  /\ UNCHANGED <<link, tokens, resets, browser>>

\* The answer arrives and its Set-Cookie header, if it has one, is obeyed.
Deliver(r) ==
  /\ requests[r].step = "answered"
  /\ LET answer == requests[r].answer
     IN  /\ jar' = IF answer = <<>> THEN jar ELSE answer[1]
         /\ signedIn' = (signedIn \/ (requests[r].kind = "login" /\ answer \notin {<<>>, <<NoCookie>>}))
  /\ requests' = [requests EXCEPT ![r] = Quiet]
  /\ UNCHANGED <<careful, tables>>

Lose(r) ==
  /\ requests[r].step = "answered"
  /\ requests' = [requests EXCEPT ![r] = Quiet]
  /\ careful' = FALSE
  /\ UNCHANGED <<jar, signedIn, tables>>

\* Time passes for a session.
Age(s) ==
  /\ OnTheWay = {}
  /\ \E later \in {[s EXCEPT !.unused = "days"], [s EXCEPT !.unused = "days", !.due = TRUE],
                   [s EXCEPT !.unused = "lapsed", !.due = TRUE]} :
       /\ later # s /\ s.unused # "lapsed" /\ (s.due => later.due)
       /\ sessions' = (sessions \ {s}) \cup {later}
       /\ signedIn' = (signedIn /\ ~(s.token = jar /\ later.unused = "lapsed"))
  /\ UNCHANGED <<jar, requests, link, tokens, resets, careful>>

-----------------------------------------------------------------------------
\* Password reset.

Current(l) == link.id = l /\ link.age \in {"new", "cooled"}
Locked == \E r \in Requests : requests[r].step \in {"locked", "ended"}

\* RequestPasswordReset: a new link replaces the one before, unless that is
\* younger than the cooldown.
RequestPasswordReset(l) ==
  /\ ~Locked
  /\ resets[l] = 0 /\ \A r \in Requests : requests[r].link # l
  /\ link.age # "new"
  /\ link' = [id |-> l, age |-> "new"]
  /\ UNCHANGED <<sessions, requests, tokens, resets, browser>>

AgeLink ==
  /\ OnTheWay = {} /\ link.age \in {"new", "cooled"}
  /\ link' = [link EXCEPT !.age = IF @ = "new" THEN "cooled" ELSE "expired"]
  /\ UNCHANGED <<sessions, requests, tokens, resets, browser>>

\* ResetPassword: the link is looked at before the password is hashed...
ValidateLink(r) ==
  /\ At(r, "served", "reset")
  /\ Step(r, IF Current(requests[r].link) THEN "valid" ELSE "answered")
  /\ UNCHANGED <<browser, tables>>

\* A plausible bug: it is not looked at again.
StillCurrentAsBefore(l) == TRUE

StillCurrent(l) == Current(l)

\* ...and again in the transaction, once nobody else holds its row.
LockLink(r) ==
  /\ At(r, "valid", "reset") /\ ~Locked
  /\ Step(r, IF StillCurrent(requests[r].link) THEN "locked" ELSE "answered")
  /\ UNCHANGED <<browser, tables>>

EndSessions(r) ==
  /\ At(r, "locked", "reset")
  /\ requests' = [requests EXCEPT ![r].step = "ended", ![r].doomed = sessions]
  /\ UNCHANGED <<browser, tables>>

CommitReset(r) ==
  /\ At(r, "ended", "reset")
  /\ sessions' = sessions \ requests[r].doomed
  /\ link' = NoRow
  /\ resets' = [resets EXCEPT ![requests[r].link] = @ + 1]
  /\ requests' = [requests EXCEPT ![r].step = "answered", ![r].doomed = {}]
  /\ signedIn' = FALSE
  /\ UNCHANGED <<jar, tokens, careful>>

Rollback(r) ==
  /\ requests[r].step \in {"valid", "locked", "ended"}
  /\ requests' = [requests EXCEPT ![r].step = "answered", ![r].doomed = {}]
  /\ UNCHANGED <<browser, tables>>

Next ==
  \/ \E r \in Requests :
       \/ \E kind \in Kinds \ {"reset"} : Send(r, kind, NoLink)
       \/ \E l \in Links : Send(r, "reset", l)
       \/ Maintain(r) \/ ServePage(r) \/ Login(r) \/ CreateSession(r) \/ Logout(r)
       \/ Deliver(r) \/ Lose(r)
       \/ ValidateLink(r) \/ LockLink(r) \/ EndSessions(r) \/ CommitReset(r) \/ Rollback(r)
  \/ \E s \in sessions : Age(s)
  \/ \E l \in Links : RequestPasswordReset(l)
  \/ AgeLink

Spec == Init /\ [][Next]_vars

-----------------------------------------------------------------------------

TypeOK ==
  /\ sessions \subseteq Session
  /\ jar \in 0..MaxTokens
  /\ \A r \in Requests :
       /\ requests[r].kind \in Kinds
       /\ requests[r].answer \in {<<>>} \cup {<<c>> : c \in 0..MaxTokens}
       /\ requests[r].doomed \subseteq Session
  /\ link \in [id : Links, age : {"new", "cooled", "expired"}] \cup {NoRow}
  /\ tokens \in 0..MaxTokens
  /\ resets \in [Links -> Nat]
  /\ careful \in BOOLEAN /\ signedIn \in BOOLEAN

\* Rotation does not log anybody out: a browser that sends one request at a time
\* and receives every answer keeps the cookie of a session that exists until it
\* logs out, resets the password or stays away for SessionIdleTimeout.
RotationKeepsTheSession ==
  careful /\ signedIn /\ OnTheWay = {} =>
    \E s \in sessions : s.token = jar /\ s.unused # "lapsed"

\* A reset link sets the password once, however often its form is sent.
LinksAreUsedOnce == \A l \in Links : resets[l] <= 1
=============================================================================
