-------------------------- MODULE Accounts_proofs --------------------------
(***************************************************************************)
(* Proofs about the parts that Accounts composes, each by an inductive     *)
(* invariant of its own, for every number of users, tokens, addresses and  *)
(* requests and every length of the windows: the sessions, the rate        *)
(* limits, the connections of remote clients and the flashes of new tokens.*)
(***************************************************************************)
EXTENDS Accounts, Sequences, TLAPS, FiniteSetTheorems

--------------------------------------------------------------------------------
(***************************************************************************)
(* The sessions. A request on its way carries the cookie the browser has,  *)
(* and the browser's cookie, or the one on its way back, is that of a      *)
(* session as long as the browser gets its answers in order. One request   *)
(* at a time holds a reset link, and a link that is current has not been   *)
(* used.                                                                   *)
(***************************************************************************)

Answers == {<<>>} \cup {<<c>> : c \in 0..MaxTokens}

Browsed ==
  [step : {"quiet", "sent", "served", "compared", "answered", "valid", "locked", "ended"},
   kind : Browsing!Kinds, cookie : 0..MaxTokens, answer : Answers,
   known : BOOLEAN, link : Links \cup {None}, doomed : SUBSET Browsing!Session]

SessionsTyped ==
  /\ sessions \subseteq Browsing!Session
  /\ jar \in 0..MaxTokens
  /\ requests \in [Requests -> Browsed]
  /\ link \in [id : Links, age : {"new", "cooled", "expired"}] \cup {Browsing!NoRow}
  /\ tokens \in 0..MaxTokens
  /\ resets \in [Links -> Nat]
  /\ careful \in BOOLEAN /\ signedIn \in BOOLEAN

\* The cookie x is that of a session that has not lapsed.
Live(x) == \E s \in sessions : s.token = x /\ s.unused # "lapsed"

\* The cookie the browser will have once the answer to r has arrived.
NextJar(r) == IF requests[r].answer = <<>> THEN jar ELSE requests[r].answer[1]

Logs(r) == requests[r].kind = "login" /\ requests[r].answer \notin {<<>>, <<Browsing!NoCookie>>}

\* A browser whose requests are answered one by one: its cookie, or the one on its
\* way to it, is that of a session.
OneByOne == \A r, q \in Browsing!OnTheWay : r = q

Waiting(r) ==
  /\ requests[r].step = "sent" => requests[r].cookie = jar /\ requests[r].answer = <<>>
  /\ signedIn => requests[r].kind # "logout" /\ Live(NextJar(r))
  /\ Logs(r) => Live(requests[r].answer[1])

CookiesLive ==
  careful => /\ OneByOne
             /\ \A r \in Browsing!OnTheWay : Waiting(r)
             /\ signedIn /\ Browsing!OnTheWay = {} => Live(jar)

\* The request that holds the link's row has found it current, and a current
\* link has not been used.
Holding(r) == requests[r].step \in {"locked", "ended"}
LinksWait ==
  /\ \A r, q \in Requests : Holding(r) /\ Holding(q) => r = q
  /\ \A r \in Requests : Holding(r) => Browsing!Current(requests[r].link)
  /\ \A l \in Links : resets[l] <= (IF Browsing!Current(l) THEN 0 ELSE 1)

\* An answer sets no cookie, or one.
LEMMA AnswersSetCookies ==
  /\ <<>> \in Answers /\ \A c \in 0..MaxTokens : <<c>> \in Answers
  /\ \A c : <<c>> # <<>> /\ <<c>>[1] = c
  /\ \A a \in Answers : a # <<>> => a[1] \in 0..MaxTokens
BY DEF Answers

\* Neither does one that clears it.
LEMMA NoCookieIsAnAnswer == <<Browsing!NoCookie>> \in Answers /\ <<Browsing!NoCookie>> # <<>>
BY LinksAreTokens, AnswersSetCookies DEF Browsing!LinksAreTokens, Browsing!NoCookie

\* The invariant of the sessions, initially.
LEMMA SessionsInit == Browsing!Init => SessionsTyped /\ CookiesLive /\ LinksWait
<1> SUFFICES ASSUME Browsing!Init PROVE SessionsTyped /\ CookiesLive /\ LinksWait
  OBVIOUS
<1>1. Browsing!Quiet \in Browsed
  BY LinksAreTokens, AnswersSetCookies DEF Browsing!Quiet, Browsed, Browsing!LinksAreTokens, Browsing!Kinds, Browsing!NoCookie
<1>2. SessionsTyped
  <2>1. jar \in 0..MaxTokens /\ tokens \in 0..MaxTokens
    BY LinksAreTokens DEF Browsing!Init, Browsing!LinksAreTokens, Browsing!NoCookie
  <2>2. /\ sessions \subseteq Browsing!Session
        /\ careful \in BOOLEAN /\ signedIn \in BOOLEAN
        /\ link \in [id : Links, age : {"new", "cooled", "expired"}] \cup {Browsing!NoRow}
    BY DEF Browsing!Init
  <2>3. requests \in [Requests -> Browsed] /\ resets \in [Links -> Nat]
    BY <1>1 DEF Browsing!Init
  <2> QED BY <2>1, <2>2, <2>3 DEF SessionsTyped
<1>3. CookiesLive
  BY DEF Browsing!Init, CookiesLive, OneByOne, Browsing!OnTheWay
<1>4. LinksWait
  BY DEF Browsing!Init, LinksWait, Holding, Browsing!Quiet, Browsing!Current, Browsing!NoRow
<1> QED BY <1>2, <1>3, <1>4

\* A request that is on its way has been sent.
LEMMA SentRequests ==
  ASSUME SessionsTyped, NEW r \in Requests, requests[r].step # "quiet"
  PROVE  r \in Browsing!OnTheWay /\ requests[r] \in Browsed
BY DEF SessionsTyped, Browsing!OnTheWay, Browsing!Quiet

\* A step of the request r that the server takes leaves the others as they are.
LEMMA ServedStep ==
  ASSUME SessionsTyped, CookiesLive, NEW r \in Browsing!OnTheWay, NEW x \in Browsed,
         requests' = [requests EXCEPT ![r] = x], x.step \notin {"quiet", "sent"},
         careful' = careful, signedIn' => signedIn,
         careful /\ Waiting(r) => Waiting(r)'
  PROVE  CookiesLive'
<1>1. r \in Requests /\ requests'[r] = x /\ \A q \in Requests \ {r} : requests'[q] = requests[q]
  BY DEF Browsing!OnTheWay, SessionsTyped
<1>2. x # Browsing!Quiet
  BY DEF Browsing!Quiet
<1>3. Browsing!OnTheWay' = Browsing!OnTheWay
  BY <1>1, <1>2 DEF Browsing!OnTheWay
<1>4. CASE careful
  <2>1. \A q \in Browsing!OnTheWay : q = r
    BY <1>4 DEF CookiesLive, OneByOne
  <2>2. Waiting(r)'
    BY <1>4 DEF CookiesLive
  <2> QED BY <1>3, <2>1, <2>2 DEF CookiesLive, OneByOne
<1> QED BY <1>4 DEF CookiesLive

\* It does not come to hold a link, or the link is current and nobody else does.
LEMMA LinksStep ==
  ASSUME SessionsTyped, LinksWait, NEW r \in Requests, NEW x \in Browsed,
         requests' = [requests EXCEPT ![r] = x], UNCHANGED <<link, resets>>,
         x.step \in {"locked", "ended"} =>
           Browsing!Current(x.link) /\ \A q \in Requests : Holding(q) => q = r
  PROVE  LinksWait'
<1>1. requests'[r] = x /\ \A q \in Requests \ {r} : requests'[q] = requests[q]
  BY DEF SessionsTyped
<1>2. \A q \in Requests \ {r} : Holding(q)' <=> Holding(q)
  BY <1>1 DEF Holding
<1>3. Holding(r)' <=> x.step \in {"locked", "ended"}
  BY <1>1 DEF Holding
<1>4. \A l : Browsing!Current(l)' <=> Browsing!Current(l)
  BY DEF Browsing!Current
<1> QED BY <1>1, <1>2, <1>3, <1>4 DEF LinksWait

BrowsingInvariant == SessionsTyped /\ CookiesLive /\ LinksWait

\* The browser sends a request.
LEMMA SendStep ==
  ASSUME BrowsingInvariant, NEW r \in Requests, NEW kind \in Browsing!Kinds, NEW l \in Links \cup {None},
         Browsing!Send(r, kind, l)
  PROVE  BrowsingInvariant'
<1> USE DEF BrowsingInvariant
<1> DEFINE x == [requests[r] EXCEPT !.step = "sent", !.kind = kind, !.cookie = jar, !.link = l]
<1>1. /\ requests[r] = Browsing!Quiet /\ requests' = [requests EXCEPT ![r] = x]
      /\ careful' = (careful /\ Browsing!OnTheWay = {}) /\ signedIn' = (signedIn /\ kind # "logout")
      /\ UNCHANGED <<jar, sessions, link, tokens, resets>>
  BY DEF Browsing!Send, Browsing!tables
<1>2. /\ x \in Browsed /\ x.step = "sent" /\ x.kind = kind /\ x.cookie = jar
      /\ x.answer = <<>>
  <2>1. Browsing!Quiet \in Browsed /\ Browsing!Quiet.answer = <<>>
    BY <1>1 DEF SessionsTyped, Browsing!Quiet
  <2>2. jar \in 0..MaxTokens
    BY DEF SessionsTyped
  <2> QED BY <1>1, <2>1, <2>2 DEF Browsed
<1> HIDE DEF x
<1>3. SessionsTyped'
  <2>1. requests' \in [Requests -> Browsed]
    BY <1>1, <1>2 DEF SessionsTyped
  <2>2. careful' \in BOOLEAN /\ signedIn' \in BOOLEAN
    BY <1>1
  <2> QED BY <1>1, <2>1, <2>2 DEF SessionsTyped
<1>4. CookiesLive'
  <2> SUFFICES ASSUME careful' PROVE CookiesLive'
    BY DEF CookiesLive
  <2>1. careful /\ Browsing!OnTheWay = {}
    BY <1>1
  <2>2. requests'[r] = x /\ \A q \in Requests \ {r} : requests'[q] = requests[q]
    BY <1>1 DEF SessionsTyped
  <2>3. x # Browsing!Quiet
    BY <1>2 DEF Browsing!Quiet
  <2>4. Browsing!OnTheWay' = {r}
    BY <2>1, <2>2, <2>3 DEF Browsing!OnTheWay
  <2>5. signedIn' => Live(jar)'
    BY <1>1, <2>1 DEF CookiesLive, Live
  <2>6. NextJar(r)' = jar' /\ ~Logs(r)'
    BY <1>2, <2>2 DEF NextJar, Logs
  <2>7. Waiting(r)'
    BY <1>1, <1>2, <2>2, <2>5, <2>6 DEF Waiting
  <2> QED BY <2>4, <2>7 DEF CookiesLive, OneByOne
<1>5. LinksWait'
  BY <1>1, <1>2, LinksStep
<1> QED BY <1>3, <1>4, <1>5

\* The answer reaches the browser, or is lost.
LEMMA ArriveStep ==
  ASSUME BrowsingInvariant, NEW r \in Requests, Browsing!Deliver(r) \/ Browsing!Lose(r)
  PROVE  BrowsingInvariant'
<1> USE DEF BrowsingInvariant
<1>1. /\ requests' = [requests EXCEPT ![r] = Browsing!Quiet] /\ requests[r].step = "answered"
      /\ UNCHANGED <<sessions, link, tokens, resets>>
  BY DEF Browsing!Deliver, Browsing!Lose, Browsing!tables
<1>2. requests[r] \in Browsed /\ r \in Browsing!OnTheWay
  BY <1>1, SentRequests
<1>3. Browsing!Quiet \in Browsed /\ Browsing!Quiet.step = "quiet"
  BY LinksAreTokens, AnswersSetCookies DEF Browsing!Quiet, Browsed, Browsing!LinksAreTokens, Browsing!Kinds, Browsing!NoCookie
<1>4. CASE Browsing!Deliver(r)
  <2>1. /\ jar' = NextJar(r) /\ careful' = careful
        /\ signedIn' = (signedIn \/ Logs(r))
    BY <1>4 DEF Browsing!Deliver, NextJar, Logs
  <2>2. requests[r].answer # <<>> => requests[r].answer[1] \in 0..MaxTokens
    BY <1>2, AnswersSetCookies DEF Browsed
  <2>3. jar' \in 0..MaxTokens
    BY <2>1, <2>2 DEF NextJar, SessionsTyped
  <2>4. ASSUME careful PROVE CookiesLive'
    <3>1. Waiting(r) /\ \A q \in Browsing!OnTheWay : q = r
      BY <1>2, <2>4 DEF CookiesLive, OneByOne
    <3>2. Browsing!OnTheWay' = {}
      BY <1>1, <3>1 DEF Browsing!OnTheWay, SessionsTyped
    <3>3. signedIn' => Live(jar')
      BY <2>1, <3>1 DEF Waiting, Logs, NextJar
    <3>4. Live(jar)' <=> Live(jar')
      BY <1>1 DEF Live
    <3> QED BY <3>2, <3>3, <3>4 DEF CookiesLive, OneByOne
  <2>5. CookiesLive'
    BY <2>1, <2>4 DEF CookiesLive
  <2>9. LinksWait'
    BY <1>1, <1>3, LinksStep
  <2>6. requests' \in [Requests -> Browsed]
    BY <1>1, <1>3 DEF SessionsTyped
  <2>7. careful' \in BOOLEAN /\ signedIn' \in BOOLEAN
    BY <2>1 DEF SessionsTyped
  <2>8. SessionsTyped'
    BY <1>1, <2>3, <2>6, <2>7 DEF SessionsTyped
  <2> QED BY <2>5, <2>8, <2>9
<1>5. CASE Browsing!Lose(r)
  <2>1. careful' = FALSE /\ jar' = jar /\ signedIn' = signedIn
    BY <1>5 DEF Browsing!Lose
  <2>2. CookiesLive'
    BY <2>1 DEF CookiesLive
  <2>3. requests' \in [Requests -> Browsed]
    BY <1>1, <1>3 DEF SessionsTyped
  <2>4. SessionsTyped'
    BY <1>1, <2>1, <2>3 DEF SessionsTyped
  <2>5. LinksWait'
    BY <1>1, <1>3, LinksStep
  <2> QED BY <2>2, <2>4, <2>5
<1> QED BY <1>4, <1>5

\* A step of the server that changes no row, no cookie and no answer.
LEMMA QuietStep ==
  ASSUME BrowsingInvariant, NEW r \in Requests, NEW x \in Browsed,
         requests' = [requests EXCEPT ![r] = x], requests[r].step # "quiet",
         x.step \notin {"quiet", "sent"}, x.kind = requests[r].kind,
         x.answer = requests[r].answer, UNCHANGED <<Browsing!browser, Browsing!tables>>,
         x.step \in {"locked", "ended"} =>
           Browsing!Current(x.link) /\ \A q \in Requests : Holding(q) => q = r
  PROVE  BrowsingInvariant'
<1> USE DEF BrowsingInvariant
<1>1. UNCHANGED <<sessions, link, tokens, resets, jar, careful, signedIn>>
  BY DEF Browsing!browser, Browsing!tables
<1>2. requests'[r] = x /\ r \in Browsing!OnTheWay
  BY SentRequests DEF SessionsTyped
<1>3. NextJar(r)' = NextJar(r) /\ (Logs(r)' <=> Logs(r)) /\ \A c : Live(c)' <=> Live(c)
  BY <1>1, <1>2 DEF NextJar, Logs, Live
<1>4. Waiting(r) => Waiting(r)'
  BY <1>1, <1>2, <1>3 DEF Waiting, NextJar
<1>5. CookiesLive'
  BY <1>1, <1>2, <1>4, ServedStep
<1>6. LinksWait'
  BY <1>1, LinksStep
<1>7. requests' \in [Requests -> Browsed]
  BY DEF SessionsTyped
<1>8. SessionsTyped'
  BY <1>1, <1>7 DEF SessionsTyped
<1> QED BY <1>5, <1>6, <1>8

\* The sessions that remain are some of those there were, and nothing that the
\* answer says, or the user believes, relies on the others.
LEMMA EndingStep ==
  ASSUME BrowsingInvariant, NEW r \in Requests, NEW x \in Browsed,
         requests' = [requests EXCEPT ![r] = x], requests[r].step # "quiet",
         x.step \notin {"quiet", "sent", "locked", "ended"},
         sessions' \subseteq Browsing!Session, tokens' \in 0..MaxTokens,
         UNCHANGED <<jar, careful>>, signedIn' \in BOOLEAN, signedIn' => signedIn,
         careful /\ Waiting(r) =>
           /\ signedIn' => /\ x.kind # "logout"
                           /\ Live(IF x.answer = <<>> THEN jar ELSE x.answer[1])'
           /\ x.kind = "login" /\ x.answer \notin {<<>>, <<Browsing!NoCookie>>} => Live(x.answer[1])'
  PROVE  /\ CookiesLive' /\ requests' \in [Requests -> Browsed]
         /\ requests'[r] = x
         /\ UNCHANGED <<link, resets>> => BrowsingInvariant'
<1> USE DEF BrowsingInvariant
<1>1. requests'[r] = x /\ r \in Browsing!OnTheWay
  BY SentRequests DEF SessionsTyped
<1>2. ASSUME careful, Waiting(r) PROVE Waiting(r)'
  <2>1. NextJar(r)' = IF x.answer = <<>> THEN jar ELSE x.answer[1]
    BY <1>1 DEF NextJar
  <2>2. signedIn' => x.kind # "logout" /\ Live(NextJar(r))'
    BY <1>2, <2>1 DEF Live
  <2>3. Logs(r)' => Live(requests[r].answer[1])'
    BY <1>1, <1>2 DEF Live, Logs
  <2> QED BY <1>1, <2>2, <2>3 DEF Waiting
<1>3. CookiesLive'
  BY <1>1, <1>2, ServedStep
<1>4. requests' \in [Requests -> Browsed]
  BY DEF SessionsTyped
<1>5. ASSUME UNCHANGED <<link, resets>> PROVE SessionsTyped' /\ LinksWait'
  <2>1. LinksWait'
    BY <1>5, LinksStep
  <2>2. SessionsTyped'
    BY <1>4, <1>5 DEF SessionsTyped
  <2> QED BY <2>1, <2>2
<1> QED BY <1>1, <1>3, <1>4, <1>5

\* A request is served with the session it came with, and may rotate its token.
LEMMA UseSessionStep ==
  ASSUME BrowsingInvariant, NEW r \in Requests, NEW s \in Browsing!Held(requests[r].cookie),
         requests[r].step = "sent", Browsing!UseSession(r, s), UNCHANGED <<link, resets, Browsing!browser>>
  PROVE  BrowsingInvariant'
<1> USE DEF BrowsingInvariant
<1>1. /\ r \in Browsing!OnTheWay /\ requests[r] \in Browsed
      /\ s \in Browsing!Session /\ s.token = requests[r].cookie
      /\ tokens \in 0..MaxTokens /\ MaxTokens \in Nat
  BY SentRequests, LinksAreTokens DEF Browsing!Held, SessionsTyped, Browsing!LinksAreTokens
<1>2. PICK token : token = IF s.due THEN tokens + 1 ELSE s.token
  OBVIOUS
<1>3. PICK answer : answer = IF s.due \/ s.unused = "days" THEN <<token>> ELSE <<>>
  OBVIOUS
<1>20. PICK x : x = [requests[r] EXCEPT !.step = "served", !.known = TRUE, !.cookie = token,
                                        !.answer = answer]
  OBVIOUS
<1> DEFINE new == IF s.due THEN Browsing!NewSession(token) ELSE [s EXCEPT !.unused = "day"]
<1>4. /\ s.due => tokens < MaxTokens
      /\ sessions' = (sessions \ {s}) \cup {new}
      /\ tokens' = IF s.due THEN tokens + 1 ELSE tokens
      /\ requests' = [requests EXCEPT ![r] = x]
      /\ UNCHANGED <<link, resets, jar, careful, signedIn>>
  BY <1>2, <1>3, <1>20 DEF Browsing!UseSession, Browsing!browser
<1>5. token \in 1..MaxTokens /\ tokens' \in 0..MaxTokens
  BY <1>1, <1>2, <1>4 DEF Browsing!Session
<1>6. new \in Browsing!Session /\ new.token = token /\ new.unused = "day"
  BY <1>1, <1>2, <1>5 DEF Browsing!Session, Browsing!NewSession
<1>7. /\ answer \in Answers /\ answer \in {<<>>, <<token>>}
      /\ answer = <<>> => token = s.token
      /\ answer # <<>> => answer[1] = token
  BY <1>2, <1>3, <1>5, AnswersSetCookies
<1>8. /\ x \in Browsed /\ x.step = "served" /\ x.kind = requests[r].kind
      /\ x.answer = answer
  <2>1. token \in 0..MaxTokens
    BY <1>1, <1>5
  <2> HIDE DEF BrowsingInvariant
  <2> QED BY <1>1, <1>7, <1>20, <2>1 DEF Browsed
<1> HIDE DEF new
<1>9. Live(token)'
  BY <1>4, <1>6 DEF Live
<1>10. /\ sessions' \subseteq Browsing!Session
       /\ UNCHANGED <<link, resets, jar, careful>> /\ signedIn' = signedIn
       /\ signedIn' \in BOOLEAN
  BY <1>4, <1>6 DEF SessionsTyped
<1>11. ASSUME Waiting(r)
       PROVE  /\ signedIn' => /\ x.kind # "logout"
                              /\ Live(IF x.answer = <<>> THEN jar ELSE x.answer[1])'
              /\ x.kind = "login" /\ x.answer \notin {<<>>, <<Browsing!NoCookie>>} => Live(x.answer[1])'
  <2>1. s.token = jar
    BY <1>1, <1>11 DEF Waiting
  <2>2. jar' = jar
    BY <1>4
  <2>3. (IF x.answer = <<>> THEN jar' ELSE x.answer[1]) = token
    BY <1>2, <1>7, <1>8, <2>1, <2>2
  <2>4. Live(IF x.answer = <<>> THEN jar ELSE x.answer[1])'
    BY <1>9, <2>3 DEF Live
  <2>5. x.answer # <<>> => x.answer[1] = token
    BY <1>7, <1>8
  <2>6. x.answer # <<>> => Live(x.answer[1])'
    BY <1>9, <2>5 DEF Live
  <2>7. signedIn' => x.kind # "logout"
    BY <1>8, <1>10, <1>11 DEF Waiting
  <2> QED BY <2>4, <2>6, <2>7
<1> HIDE DEF BrowsingInvariant
<1>12. x \in Browsed /\ requests' = [requests EXCEPT ![r] = x] /\ signedIn' => signedIn
  BY <1>4, <1>8, <1>10
<1>13. x.step \notin {"quiet", "sent", "locked", "ended"}
  BY <1>8
<1> QED BY <1>4, <1>5, <1>8, <1>10, <1>11, <1>12, <1>13, EndingStep

\* maintainSession of a request without a session, and with one that has lapsed.
LEMMA MaintainStep ==
  ASSUME BrowsingInvariant, NEW r \in Requests, Browsing!Maintain(r)
  PROVE  BrowsingInvariant'
<1>1. /\ requests[r].step = "sent" /\ UNCHANGED <<link, resets, Browsing!browser>>
      /\ r \in Browsing!OnTheWay /\ requests[r] \in Browsed
  BY SentRequests DEF Browsing!Maintain, BrowsingInvariant
<1>2. CASE /\ requests[r].cookie = Browsing!NoCookie
           /\ Browsing!Step(r, "served") /\ UNCHANGED <<sessions, tokens>>
  <2> DEFINE x == [requests[r] EXCEPT !.step = "served"]
  <2>1. requests' = [requests EXCEPT ![r] = x] /\ UNCHANGED <<Browsing!browser, Browsing!tables>>
    BY <1>1, <1>2 DEF Browsing!Step, Browsing!tables
  <2>2. /\ x \in Browsed /\ x.kind = requests[r].kind /\ x.answer = requests[r].answer
        /\ x.step = "served"
    BY <1>1 DEF Browsed
  <2> HIDE DEF x
  <2> QED BY <1>1, <2>1, <2>2, QuietStep
<1>3. CASE \E s \in Browsing!Held(requests[r].cookie) : s.unused # "lapsed" /\ Browsing!UseSession(r, s)
  BY <1>1, <1>3, UseSessionStep
<1>4. CASE /\ requests[r].cookie # Browsing!NoCookie
           /\ \A s \in Browsing!Held(requests[r].cookie) : s.unused = "lapsed"
           /\ sessions' = sessions \ Browsing!Held(requests[r].cookie)
           /\ requests' = [requests EXCEPT ![r].step = "served", ![r].answer = <<Browsing!NoCookie>>]
           /\ UNCHANGED tokens
  <2>1. PICK x : x = [requests[r] EXCEPT !.step = "served", !.answer = <<Browsing!NoCookie>>]
    OBVIOUS
  <2>2. x \in Browsed /\ x.answer = <<Browsing!NoCookie>> /\ x.step = "served"
    BY <1>1, <2>1, NoCookieIsAnAnswer DEF Browsed
  <2>6. requests' = [requests EXCEPT ![r] = x]
    BY <1>4, <2>1
  <2>3. /\ sessions' \subseteq Browsing!Session /\ tokens' \in 0..MaxTokens
        /\ UNCHANGED <<jar, careful>> /\ UNCHANGED <<link, resets>>
    BY <1>1, <1>4 DEF Browsing!browser, BrowsingInvariant, SessionsTyped
  <2>4. signedIn' \in BOOLEAN /\ signedIn' = signedIn
    BY <1>1 DEF Browsing!browser, BrowsingInvariant, SessionsTyped
  <2>5. Waiting(r) => ~signedIn
    <3> SUFFICES ASSUME Waiting(r), signedIn PROVE FALSE
      OBVIOUS
    <3>1. requests[r].cookie = jar /\ Live(jar)
      BY <1>1 DEF Waiting, NextJar
    <3> QED BY <1>4, <3>1 DEF Live, Browsing!Held
  <2> HIDE DEF Browsing!NoCookie
  <2> QED BY <1>1, <2>2, <2>3, <2>4, <2>5, <2>6, EndingStep
<1> QED BY <1>2, <1>3, <1>4 DEF Browsing!Maintain

\* A login adds a session.
LEMMA CreateSessionStep ==
  ASSUME BrowsingInvariant, NEW r \in Requests, Browsing!CreateSession(r)
  PROVE  BrowsingInvariant'
<1>1. PICK token : token = tokens + 1
  OBVIOUS
<1>20. PICK x : x = [requests[r] EXCEPT !.step = "answered", !.answer = <<token>>]
  OBVIOUS
<1> DEFINE new == Browsing!NewSession(token)
<1>2. /\ requests[r].step = "compared" /\ requests[r].kind = "login" /\ tokens < MaxTokens
      /\ sessions' = sessions \cup {new} /\ tokens' = token
      /\ requests' = [requests EXCEPT ![r] = x]
      /\ UNCHANGED <<link, resets, jar, careful, signedIn>>
  BY <1>1, <1>20 DEF Browsing!CreateSession, Browsing!SetCookie, Browsing!At, Browsing!browser
<1>3. requests[r] \in Browsed /\ tokens \in 0..MaxTokens /\ MaxTokens \in Nat
  BY <1>2, SentRequests, LinksAreTokens DEF BrowsingInvariant, SessionsTyped, Browsing!LinksAreTokens
<1>4. token \in 1..MaxTokens
  BY <1>1, <1>2, <1>3
<1>5. /\ x \in Browsed /\ x.step = "answered" /\ x.kind = "login" /\ x.answer = <<token>>
      /\ x.answer # <<>> /\ x.answer[1] = token
  <2>1. token \in 0..MaxTokens
    BY <1>3, <1>4
  <2>2. /\ <<token>> \in Answers /\ <<token>> # <<>> /\ <<token>>[1] = token
    BY <2>1, AnswersSetCookies
  <2>3. x \in Browsed /\ x.step = "answered" /\ x.kind = "login" /\ x.answer = <<token>>
    BY <1>2, <1>3, <1>20, <2>2 DEF Browsed
  <2> QED BY <2>2, <2>3
<1>6. new \in Browsing!Session /\ new.token = token /\ new.unused = "day"
  BY <1>4 DEF Browsing!Session, Browsing!NewSession
<1> HIDE DEF new
<1>7. Live(token)'
  BY <1>2, <1>6 DEF Live
<1>8. sessions' \subseteq Browsing!Session /\ tokens' \in 0..MaxTokens
  BY <1>2, <1>4, <1>6 DEF BrowsingInvariant, SessionsTyped
<1>9. signedIn' = signedIn /\ signedIn' \in BOOLEAN
  BY <1>2 DEF BrowsingInvariant, SessionsTyped
<1>10. Live(IF x.answer = <<>> THEN jar ELSE x.answer[1])' /\ Live(x.answer[1])'
  BY <1>5, <1>7 DEF Live
<1>11. /\ requests[r].step # "quiet" /\ x.step \notin {"quiet", "sent", "locked", "ended"}
       /\ x.kind # "logout" /\ x \in Browsed /\ (signedIn' => signedIn)
       /\ requests' = [requests EXCEPT ![r] = x]
       /\ UNCHANGED <<jar, careful>> /\ UNCHANGED <<link, resets>>
  BY <1>2, <1>5
<1>12. careful /\ Waiting(r) =>
         /\ signedIn' => /\ x.kind # "logout"
                         /\ Live(IF x.answer = <<>> THEN jar ELSE x.answer[1])'
         /\ x.kind = "login" /\ x.answer \notin {<<>>, <<Browsing!NoCookie>>} => Live(x.answer[1])'
  BY <1>10, <1>11
<1> QED BY <1>8, <1>9, <1>11, <1>12, EndingStep

\* A logout ends one.
LEMMA LogoutStep ==
  ASSUME BrowsingInvariant, NEW r \in Requests, Browsing!Logout(r)
  PROVE  BrowsingInvariant'
<1>1. /\ requests[r].step = "served" /\ requests[r].kind = "logout"
      /\ UNCHANGED <<link, tokens, resets, jar, careful>>
  BY DEF Browsing!Logout, Browsing!At, Browsing!browser
<1>2. requests[r] \in Browsed
  BY <1>1, SentRequests DEF BrowsingInvariant
<1>3. signedIn' = signedIn /\ signedIn' \in BOOLEAN
  BY DEF Browsing!Logout, Browsing!browser, BrowsingInvariant, SessionsTyped
<1>4. CASE requests[r].known
  <2>6. PICK x : x = [requests[r] EXCEPT !.step = "answered", !.answer = <<Browsing!NoCookie>>]
    OBVIOUS
  <2>1. requests' = [requests EXCEPT ![r] = x] /\ sessions' = sessions \ Browsing!Held(requests[r].cookie)
    BY <1>4, <2>6 DEF Browsing!Logout, Browsing!SetCookie
  <2>2. x \in Browsed /\ x.answer = <<Browsing!NoCookie>> /\ x.step = "answered" /\ x.kind = "logout"
    BY <1>1, <1>2, <2>6, NoCookieIsAnAnswer DEF Browsed
  <2>3. Waiting(r) => ~signedIn
    BY <1>1 DEF Waiting
  <2>4. sessions' \subseteq Browsing!Session /\ tokens' \in 0..MaxTokens
    BY <1>1, <2>1 DEF BrowsingInvariant, SessionsTyped
  <2>5. requests[r].step # "quiet" /\ x.step \notin {"quiet", "sent", "locked", "ended"}
    BY <1>1, <2>2
  <2> QED BY <1>1, <1>3, <2>1, <2>2, <2>3, <2>4, <2>5, EndingStep
<1>5. CASE ~requests[r].known
  <2> DEFINE x == [requests[r] EXCEPT !.step = "answered"]
  <2>1. requests' = [requests EXCEPT ![r] = x] /\ UNCHANGED <<Browsing!browser, Browsing!tables>>
    BY <1>5 DEF Browsing!Logout, Browsing!Step, Browsing!tables
  <2>2. /\ x \in Browsed /\ x.kind = requests[r].kind /\ x.answer = requests[r].answer
        /\ x.step = "answered"
    BY <1>2 DEF Browsed
  <2> HIDE DEF x
  <2> QED BY <1>1, <2>1, <2>2, QuietStep
<1> QED BY <1>4, <1>5

\* A step that only moves a request on, to x.
Moves(r, x) ==
  /\ x \in Browsed /\ x.kind = requests[r].kind /\ x.answer = requests[r].answer
  /\ x.link = requests[r].link /\ requests' = [requests EXCEPT ![r] = x]
  /\ x.step \notin {"quiet", "sent"}
  /\ x.step = "locked" => ~Browsing!Locked /\ Browsing!Current(requests[r].link)
  /\ x.step = "ended" => requests[r].step = "locked"

\* Steps that only move a request on.
LEMMA MoveOnStep ==
  ASSUME BrowsingInvariant, NEW r \in Requests,
         Browsing!ServePage(r) \/ Browsing!Login(r) \/ Browsing!ValidateLink(r) \/ Browsing!LockLink(r) \/ Browsing!EndSessions(r) \/ Browsing!Rollback(r)
  PROVE  BrowsingInvariant'
<1>1. requests[r].step \in {"served", "valid", "locked", "ended"} /\ UNCHANGED <<Browsing!browser, Browsing!tables>>
  BY DEF Browsing!ServePage, Browsing!Login, Browsing!ValidateLink, Browsing!LockLink, Browsing!EndSessions, Browsing!Rollback, Browsing!At
<1>2. requests[r] \in Browsed /\ requests[r].step # "quiet"
  BY <1>1, SentRequests DEF BrowsingInvariant
<1>3. PICK x : Moves(r, x)
  <2>1. ASSUME NEW new \in {"answered", "compared", "valid", "locked"}, Browsing!Step(r, new),
               new = "locked" => ~Browsing!Locked /\ Browsing!Current(requests[r].link)
        PROVE  \E x : Moves(r, x)
    <3>1. PICK x : x = [requests[r] EXCEPT !.step = new]
      OBVIOUS
    <3>2. requests' = [requests EXCEPT ![r] = x]
      BY <2>1, <3>1 DEF Browsing!Step
    <3>3. /\ x \in Browsed /\ x.kind = requests[r].kind /\ x.answer = requests[r].answer
          /\ x.link = requests[r].link /\ x.step = new
      BY <1>2, <3>1 DEF Browsed
    <3>4. Moves(r, x)
      BY <2>1, <3>2, <3>3 DEF Moves
    <3> QED BY <3>4
  <2>2. ASSUME NEW step \in {"answered", "ended"}, NEW gone \in SUBSET Browsing!Session,
               requests' = [requests EXCEPT ![r].step = step, ![r].doomed = gone],
               step = "ended" => requests[r].step = "locked"
        PROVE  \E x : Moves(r, x)
    <3>3. PICK x : x = [requests[r] EXCEPT !.step = step, !.doomed = gone]
      OBVIOUS
    <3>1. /\ x \in Browsed /\ x.kind = requests[r].kind /\ x.answer = requests[r].answer
          /\ x.link = requests[r].link /\ x.step = step
      BY <1>2, <3>3 DEF Browsed
    <3>2. requests' = [requests EXCEPT ![r] = x]
      BY <2>2, <3>3
    <3>4. Moves(r, x)
      BY <2>2, <3>1, <3>2 DEF Moves
    <3> QED BY <3>4
  <2>3. sessions \subseteq Browsing!Session
    BY DEF BrowsingInvariant, SessionsTyped
  <2>4. CASE Browsing!EndSessions(r)
    <3>1. requests' = [requests EXCEPT ![r].step = "ended", ![r].doomed = sessions]
      BY <2>4 DEF Browsing!EndSessions
    <3>2. requests[r].step = "locked"
      BY <2>4 DEF Browsing!EndSessions, Browsing!At
    <3> QED BY <2>2, <2>3, <3>1, <3>2
  <2>5. CASE Browsing!Rollback(r)
    <3>1. requests' = [requests EXCEPT ![r].step = "answered", ![r].doomed = {}]
      BY <2>5 DEF Browsing!Rollback
    <3>2. {} \in SUBSET Browsing!Session
      OBVIOUS
    <3> QED BY <2>2, <3>1, <3>2
  <2>6. CASE Browsing!ServePage(r) \/ Browsing!Login(r)
    <3>1. Browsing!Step(r, "answered") \/ Browsing!Step(r, "compared")
      BY <2>6 DEF Browsing!ServePage, Browsing!Login
    <3> QED BY <2>1, <3>1
  <2>7. CASE Browsing!ValidateLink(r)
    <3>1. Browsing!Step(r, IF Browsing!Current(requests[r].link) THEN "valid" ELSE "answered")
      BY <2>7 DEF Browsing!ValidateLink
    <3>2. Browsing!Step(r, "answered") \/ Browsing!Step(r, "valid")
      BY <3>1
    <3> QED BY <2>1, <3>2
  <2>8. CASE Browsing!LockLink(r)
    <3>1. ~Browsing!Locked /\ Browsing!Step(r, IF Browsing!Current(requests[r].link) THEN "locked" ELSE "answered")
      BY <2>8 DEF Browsing!LockLink, Browsing!StillCurrent
    <3>2. Browsing!Step(r, "answered") \/ (Browsing!Current(requests[r].link) /\ Browsing!Step(r, "locked"))
      BY <3>1
    <3> QED BY <2>1, <3>1, <3>2
  <2> QED BY <2>4, <2>5, <2>6, <2>7, <2>8
<1>4. /\ x \in Browsed /\ x.kind = requests[r].kind /\ x.answer = requests[r].answer
      /\ x.link = requests[r].link /\ requests' = [requests EXCEPT ![r] = x]
      /\ x.step \notin {"quiet", "sent"}
  BY <1>3 DEF Moves
<1>5. x.step \in {"locked", "ended"} =>
        Browsing!Current(x.link) /\ \A q \in Requests : Holding(q) => q = r
  <2>1. x.step = "locked" => Browsing!Current(x.link) /\ \A q \in Requests : ~Holding(q)
    BY <1>3 DEF Browsing!Locked, Holding, Moves
  <2>2. x.step = "ended" => Holding(r)
    BY <1>3 DEF Holding, Moves
  <2> QED BY <1>4, <2>1, <2>2 DEF BrowsingInvariant, LinksWait
<1> QED BY <1>1, <1>2, <1>4, <1>5, QuietStep

\* ResetPassword: the sessions and the link go together.
LEMMA CommitResetStep ==
  ASSUME BrowsingInvariant, NEW r \in Requests, Browsing!CommitReset(r)
  PROVE  BrowsingInvariant'
<1>1. PICK x : x = [requests[r] EXCEPT !.step = "answered", !.doomed = {}]
  OBVIOUS
<1>2. /\ requests[r].step = "ended" /\ requests[r].kind = "reset"
      /\ sessions' = sessions \ requests[r].doomed /\ link' = Browsing!NoRow
      /\ resets' = [resets EXCEPT ![requests[r].link] = @ + 1]
      /\ signedIn' = FALSE /\ UNCHANGED <<jar, tokens, careful>>
  BY DEF Browsing!CommitReset, Browsing!At
<1>3. requests' = [requests EXCEPT ![r] = x]
  BY <1>1 DEF Browsing!CommitReset
<1>4. requests[r] \in Browsed
  BY <1>2, SentRequests DEF BrowsingInvariant
<1>5. x \in Browsed /\ x.step = "answered" /\ x.kind = "reset"
  BY <1>1, <1>2, <1>4 DEF Browsed
<1>6. signedIn' \in BOOLEAN /\ ~signedIn'
  BY <1>2
<1>7. sessions' \subseteq Browsing!Session /\ tokens' \in 0..MaxTokens /\ UNCHANGED <<jar, careful>>
  BY <1>2 DEF BrowsingInvariant, SessionsTyped
<1>8. CookiesLive' /\ requests' \in [Requests -> Browsed] /\ requests'[r] = x
  BY <1>2, <1>3, <1>5, <1>6, <1>7, EndingStep
<1>9. resets' \in [Links -> Nat] /\ \A l \in Links : resets'[l] <= 1
  <2>1. resets \in [Links -> Nat] /\ \A l \in Links : resets[l] <= 1
    BY DEF BrowsingInvariant, SessionsTyped, LinksWait
  <2>2. requests[r].link \in Links => resets[requests[r].link] = 0
    BY <1>2 DEF BrowsingInvariant, LinksWait, SessionsTyped, Holding
  <2>3. CASE requests[r].link \in Links
    BY <1>2, <2>1, <2>2, <2>3
  <2>4. CASE requests[r].link \notin Links
    <3>1. resets' = resets
      BY <1>2, <2>1, <2>4
    <3> QED BY <2>1, <3>1
  <2> QED BY <2>3, <2>4
<1>10. SessionsTyped'
  <2>1. link' \in {Browsing!NoRow} /\ jar' \in 0..MaxTokens /\ careful' \in BOOLEAN
    BY <1>2 DEF BrowsingInvariant, SessionsTyped
  <2> QED BY <1>6, <1>7, <1>8, <1>9, <2>1 DEF SessionsTyped
<1>11. LinksWait'
  <2>1. \A q \in Requests : ~Holding(q)'
    <3>1. \A q \in Requests \ {r} : ~Holding(q) /\ requests'[q] = requests[q]
      BY <1>2, <1>3 DEF BrowsingInvariant, LinksWait, SessionsTyped, Holding
    <3> QED BY <1>5, <1>8, <3>1 DEF Holding
  <2>2. \A l : ~Browsing!Current(l)'
    BY <1>2 DEF Browsing!Current, Browsing!NoRow
  <2> QED BY <1>9, <2>1, <2>2 DEF LinksWait
<1> QED BY <1>8, <1>10, <1>11 DEF BrowsingInvariant

\* Time passes for a session.
LEMMA AgeStep ==
  ASSUME BrowsingInvariant, NEW s \in sessions, Browsing!Age(s)
  PROVE  BrowsingInvariant'
<1>1. PICK later \in {[s EXCEPT !.unused = "days"], [s EXCEPT !.unused = "days", !.due = TRUE],
                      [s EXCEPT !.unused = "lapsed", !.due = TRUE]} :
        /\ sessions' = (sessions \ {s}) \cup {later}
        /\ signedIn' = (signedIn /\ ~(s.token = jar /\ later.unused = "lapsed"))
  BY DEF Browsing!Age
<1>2. Browsing!OnTheWay = {} /\ UNCHANGED <<jar, requests, link, tokens, resets, careful>>
  BY DEF Browsing!Age
<1>3. s \in Browsing!Session
  BY DEF BrowsingInvariant, SessionsTyped
<1>4. later \in Browsing!Session /\ later.token = s.token
  BY <1>1, <1>3 DEF Browsing!Session
<1>5. SessionsTyped'
  <2>1. sessions' \subseteq Browsing!Session /\ signedIn' \in BOOLEAN
    BY <1>1, <1>4 DEF BrowsingInvariant, SessionsTyped
  <2> QED BY <1>2, <2>1 DEF BrowsingInvariant, SessionsTyped
<1>6. CookiesLive'
  <2>1. Browsing!OnTheWay' = {}
    BY <1>2 DEF Browsing!OnTheWay
  <2>2. ASSUME careful, signedIn' PROVE Live(jar)'
    <3>1. signedIn /\ ~(s.token = jar /\ later.unused = "lapsed")
      BY <1>1, <2>2
    <3>2. PICK live \in sessions : live.token = jar /\ live.unused # "lapsed"
      BY <1>2, <2>2, <3>1 DEF BrowsingInvariant, CookiesLive, Live
    <3>3. CASE live = s
      BY <1>1, <1>2, <1>4, <3>1, <3>2, <3>3 DEF Live
    <3>4. CASE live # s
      BY <1>1, <1>2, <3>2, <3>4 DEF Live
    <3> QED BY <3>3, <3>4
  <2>3. careful' = careful
    BY <1>2
  <2> QED BY <2>1, <2>2, <2>3 DEF CookiesLive, OneByOne
<1>7. LinksWait'
  BY <1>2 DEF BrowsingInvariant, LinksWait, Holding, Browsing!Current
<1> QED BY <1>5, <1>6, <1>7 DEF BrowsingInvariant

\* A link is made, and ages, while no request holds its row.
LEMMA LinkStep ==
  ASSUME BrowsingInvariant, NEW l \in Links, Browsing!RequestPasswordReset(l) \/ Browsing!AgeLink
  PROVE  BrowsingInvariant'
<1>1. UNCHANGED <<sessions, requests, tokens, resets, jar, careful, signedIn>>
  BY DEF Browsing!RequestPasswordReset, Browsing!AgeLink, Browsing!browser
<1>2. \A r \in Requests : ~Holding(r)
  <2>1. CASE Browsing!RequestPasswordReset(l)
    BY <2>1 DEF Browsing!RequestPasswordReset, Browsing!Locked, Holding
  <2>2. CASE Browsing!AgeLink
    BY <2>2 DEF Browsing!AgeLink, Browsing!OnTheWay, Holding, Browsing!Quiet
  <2> QED BY <2>1, <2>2
<1>3. /\ link' \in [id : Links, age : {"new", "cooled", "expired"}] \cup {Browsing!NoRow}
      /\ \A k \in Links : Browsing!Current(k)' => resets[k] = 0
  <2>1. \A k \in Links : Browsing!Current(k) => resets[k] = 0
    BY DEF BrowsingInvariant, LinksWait, SessionsTyped
  <2>2. CASE Browsing!RequestPasswordReset(l)
    BY <2>2 DEF Browsing!RequestPasswordReset, Browsing!Current
  <2>3. CASE Browsing!AgeLink
    <3>1. link \in [id : Links, age : {"new", "cooled", "expired"}]
      BY <2>3 DEF Browsing!AgeLink, BrowsingInvariant, SessionsTyped, Browsing!NoRow
    <3> QED BY <2>1, <2>3, <3>1 DEF Browsing!AgeLink, Browsing!Current
  <2> QED BY <2>2, <2>3
<1>4. SessionsTyped'
  BY <1>1, <1>3 DEF BrowsingInvariant, SessionsTyped
<1>5. CookiesLive'
  BY <1>1 DEF BrowsingInvariant, CookiesLive, OneByOne, Browsing!OnTheWay, Waiting, NextJar, Logs, Live
<1>6. LinksWait'
  <2>1. \A r \in Requests : ~Holding(r)'
    BY <1>1, <1>2 DEF Holding
  <2>2. \A k \in Links : resets'[k] \in Nat /\ resets'[k] <= 1 /\ (Browsing!Current(k)' => resets'[k] = 0)
    BY <1>1, <1>3 DEF BrowsingInvariant, LinksWait, SessionsTyped
  <2> QED BY <2>1, <2>2 DEF LinksWait
<1> QED BY <1>4, <1>5, <1>6 DEF BrowsingInvariant

\* Hence every step keeps the invariant of the sessions.
LEMMA SessionsStep == BrowsingInvariant /\ [Browsing!Next]_Browsing!vars => BrowsingInvariant'
<1> SUFFICES ASSUME BrowsingInvariant, [Browsing!Next]_Browsing!vars PROVE BrowsingInvariant'
  OBVIOUS
<1>1. CASE UNCHANGED Browsing!vars
  BY <1>1 DEF Browsing!vars, Browsing!tables, BrowsingInvariant, SessionsTyped, CookiesLive, LinksWait, OneByOne,
     Browsing!OnTheWay, Waiting, NextJar, Logs, Live, Holding, Browsing!Current
<1>2. ASSUME NEW r \in Requests, NEW kind \in Browsing!Kinds \ {"reset"}, Browsing!Send(r, kind, None)
      PROVE  BrowsingInvariant'
  BY <1>2, SendStep
<1>3. ASSUME NEW r \in Requests, NEW l \in Links, Browsing!Send(r, "reset", l)
      PROVE  BrowsingInvariant'
  <2>1. "reset" \in Browsing!Kinds
    BY DEF Browsing!Kinds
  <2> QED BY <1>3, <2>1, SendStep
<1>4. ASSUME NEW r \in Requests,
             \/ Browsing!Maintain(r) \/ Browsing!ServePage(r) \/ Browsing!Login(r) \/ Browsing!CreateSession(r) \/ Browsing!Logout(r)
             \/ Browsing!Deliver(r) \/ Browsing!Lose(r)
             \/ Browsing!ValidateLink(r) \/ Browsing!LockLink(r) \/ Browsing!EndSessions(r) \/ Browsing!CommitReset(r) \/ Browsing!Rollback(r)
      PROVE  BrowsingInvariant'
  BY <1>4, MaintainStep, MoveOnStep, CreateSessionStep, LogoutStep, ArriveStep, CommitResetStep
<1>5. ASSUME Browsing!AgeLink PROVE BrowsingInvariant'
  <2>1. link.age \in {"new", "cooled"}
    BY <1>5 DEF Browsing!AgeLink
  <2>2. link.id \in Links
    BY <2>1 DEF BrowsingInvariant, SessionsTyped, Browsing!NoRow
  <2> QED BY <1>5, <2>2, LinkStep
<1> QED BY <1>1, <1>2, <1>3, <1>4, <1>5, AgeStep, LinkStep DEF Browsing!Next

(***************************************************************************)
(* The sessions, the browser's cookie and the reset links are what the     *)
(* code allows.                                                            *)
(***************************************************************************)
THEOREM SessionsTypeCorrect == Browsing!Spec => []Browsing!TypeOK
<1>1. BrowsingInvariant => Browsing!TypeOK
  BY DEF BrowsingInvariant, SessionsTyped, Browsing!TypeOK, Browsed, Answers
<1>2. Browsing!Init => BrowsingInvariant
  BY SessionsInit DEF BrowsingInvariant
<1> QED BY <1>1, <1>2, SessionsStep, PTL DEF Browsing!Spec

(***************************************************************************)
(* A browser that gets its answers in order is not logged out by the       *)
(* rotation of tokens (useAndRotateSession), whatever is served in between *)
(* and however many sessions the account has.                              *)
(***************************************************************************)
THEOREM RotationIsKept == Browsing!Spec => []RotationKeepsTheSession
<1>1. BrowsingInvariant => RotationKeepsTheSession
  BY DEF BrowsingInvariant, CookiesLive, Live, RotationKeepsTheSession, Browsing!RotationKeepsTheSession
<1>2. Browsing!Init => BrowsingInvariant
  BY SessionsInit DEF BrowsingInvariant
<1> QED BY <1>1, <1>2, SessionsStep, PTL DEF Browsing!Spec

(***************************************************************************)
(* A reset link sets the password once (ResetPassword), however many       *)
(* requests come with it and wherever they fail.                           *)
(***************************************************************************)
THEOREM LinksUsedOnce == Browsing!Spec => []LinksAreUsedOnce
<1>1. BrowsingInvariant => LinksAreUsedOnce
  BY DEF BrowsingInvariant, LinksWait, SessionsTyped, LinksAreUsedOnce, Browsing!LinksAreUsedOnce
<1>2. Browsing!Init => BrowsingInvariant
  BY SessionsInit DEF BrowsingInvariant
<1> QED BY <1>1, <1>2, SessionsStep, PTL DEF Browsing!Spec
--------------------------------------------------------------------------------
(***************************************************************************)
(* The rate limits. The rows keep less than the history of the verdicts.   *)
(* Every submission of an address has a window, by its start, and a number *)
(* within it; the row has those of the last one. So numbers below the      *)
(* limit bound the admissions, and a number at the limit explains each     *)
(* rejection.                                                              *)
(***************************************************************************)

\* Limiting has the definition of Cardinality that is extended here.
LEMMA SameCardinality == ASSUME NEW S PROVE Limiting!Cardinality(S) = Cardinality(S)
BY DEF Limiting!Cardinality, Cardinality

Verdict == [at : 1..MaxTime, blocked : BOOLEAN]

Submission ==
  [step : {"idle", "recorded", "cleaning"}, key : Keys \cup {None},
   row : Limiting!RateRow \cup {None}, wanted : SUBSET Keys, deleted : SUBSET Keys]

LimitsTyped ==
  /\ clock \in 1..MaxTime
  /\ limits \in [Keys -> Limiting!RateRow \cup {None}]
  /\ submissions \in [Requests -> Submission]
  /\ verdicts \in [Keys -> Seq(Verdict)]
  /\ before \in [Keys -> Limiting!RateRow \cup {None}]
  /\ failures \subseteq [at : 1..MaxTime, old : SUBSET Keys]

\* The rows nobody had used for the retention when the clock last ticked.
Old == {k \in Keys : before[k] # None /\ before[k].updated + Retention < clock}

\* What a submission has recorded, wants to delete and has deleted.
Serving(r) ==
  LET x == submissions[r] IN
  /\ x.step = "idle" => x = Limiting!Idle
  /\ x.step # "idle" => x.key \in Keys /\ x.row = Limiting!Recorded(limits[x.key], clock)
  /\ x.wanted \subseteq Old
  /\ \A k \in x.deleted : Limiting!Dormant(limits[k], clock)

\* A row is locked by one submission, and written in this tick or before it.
LocksHold ==
  /\ \A r, o \in Requests : r # o => Limiting!Locked(r) \cap Limiting!Locked(o) = {}
  /\ \A k \in Keys : limits[k] # None /\ limits[k] # before[k] => limits[k].updated = clock

(***************************************************************************)
(* The verdicts v of a key whose row is `row`, at the time now: st and ct  *)
(* are the start of the window in which each submission fell and its       *)
(* number there.                                                           *)
(***************************************************************************)
\* Windows do not overlap, and count what falls in them.
Counted(v, st, ct) ==
  /\ \A i \in 1..Len(v) :
       /\ st[i] <= v[i].at /\ v[i].at < st[i] + Window
       /\ ct[i] \in 1..i
       /\ ct[i] = 1 => v[i].at = st[i]
       /\ \A h \in (i - ct[i]) + 1..i : st[h] = st[i]
  /\ \A i, j \in 1..Len(v) : i < j =>
       /\ v[i].at <= v[j].at
       /\ st[i] + Window <= st[j] \/ (st[i] = st[j] /\ ct[i] < ct[j])

\* A submission with a number below the limit is admitted unless the block lasts
\* that one with the limit's number, or a later one, has begun.
Judged(v, ct) ==
  \A i \in 1..Len(v) :
    /\ ~v[i].blocked => ct[i] < Limit
    /\ v[i].blocked => \E j \in 1..i : ct[j] >= Limit /\ v[j].at + Block > v[i].at

\* The row stands for the last submission, or has been dormant and deleted.
Represented(v, row, st, ct, now) ==
  /\ Len(v) > 0 => v[Len(v)].at <= now
  /\ row = None /\ Len(v) > 0 => v[Len(v)].at + Retention < now
  /\ row # None =>
       /\ Len(v) > 0 /\ row.updated = v[Len(v)].at
       /\ row.start = st[Len(v)] /\ row.count = ct[Len(v)]
       /\ row.until > 0 => \E j \in 1..Len(v) : ct[j] >= Limit /\ v[j].at + Block = row.until

Windows(v, row, st, ct, now) == Counted(v, st, ct) /\ Judged(v, ct) /\ Represented(v, row, st, ct, now)

WindowsCount ==
  \A k \in Keys : \E st, ct \in [Nat -> Nat] : Windows(verdicts[k], limits[k], st, ct, clock)

\* The row that a submission leaves.
LEMMA RecordedRow ==
  ASSUME NEW row \in Limiting!RateRow \cup {None}, NEW now \in Nat
  PROVE  /\ Limiting!Recorded(row, now) \in Limiting!RateRow
         /\ Limiting!Recorded(row, now).updated = now
         /\ (row = None \/ row.start + Window <= now) =>
              Limiting!Recorded(row, now).start = now /\ Limiting!Recorded(row, now).count = 1
         /\ ~(row = None \/ row.start + Window <= now) =>
              Limiting!Recorded(row, now).start = row.start /\ Limiting!Recorded(row, now).count = row.count + 1
         /\ Limiting!Recorded(row, now).until =
              (IF row # None /\ row.until > now THEN row.until
               ELSE IF row # None /\ Limiting!Recorded(row, now).count >= Limit THEN now + Block
               ELSE 0)
<1>1. row # None => row \in Limiting!RateRow
  OBVIOUS
<1>2. Block \in Nat /\ Window \in Nat
  BY LimitsAreOrdered DEF Limiting!LimitsAreOrdered
<1> QED BY <1>1, <1>2 DEF Limiting!Recorded, Limiting!RateRow, Limiting!NotBlocked

\* The verdicts w are v and one more, at the time now, that leaves the row `new`.
OneMore(v, row, st, ct, w, new, now) ==
  /\ v \in Seq(Verdict) /\ row \in Limiting!RateRow \cup {None} /\ now \in 1..MaxTime
  /\ st \in [Nat -> Nat] /\ ct \in [Nat -> Nat] /\ Windows(v, row, st, ct, now)
  /\ Len(w) = Len(v) + 1 /\ \A i \in 1..Len(v) : w[i] = v[i]
  /\ new = Limiting!Recorded(row, now) /\ w[Len(w)].at = now
  /\ w[Len(w)].blocked <=> new.until > now

\* One more submission falls in the window of its row or in a new one.
LEMMA OneMoreSubmission ==
  ASSUME NEW v, NEW row, NEW st, NEW ct, NEW w, NEW new, NEW now,
         OneMore(v, row, st, ct, w, new, now)
  PROVE  \E s, c \in [Nat -> Nat] : Windows(w, new, s, c, now)
<1>1. PICK n \in Nat : n = Len(v) /\ Len(w) = n + 1
  BY DEF OneMore
<1>2. /\ MaxTime \in Nat /\ Limit \in Nat /\ Limit >= 2 /\ Window \in Nat /\ Window >= 1
      /\ Block \in Nat /\ Block >= 1
      /\ Retention \in Nat /\ Retention >= Window /\ Block >= Window /\ now \in Nat
  BY LimitsAreOrdered DEF Limiting!LimitsAreOrdered, OneMore
<1>3. \A i \in 1..n : v[i].at \in Nat /\ st[i] \in Nat /\ ct[i] \in Nat
  <2>1. \A i \in 1..n : v[i] \in Verdict
    BY <1>1 DEF OneMore
  <2>2. \A x \in Verdict : x.at \in Nat
    BY <1>2 DEF Verdict
  <2>3. \A i \in Nat : st[i] \in Nat /\ ct[i] \in Nat
    BY DEF OneMore
  <2> QED BY <2>1, <2>2, <2>3
<1> DEFINE fresh == row = None \/ row.start + Window <= now
           s == [st EXCEPT ![n + 1] = new.start]
           c == [ct EXCEPT ![n + 1] = new.count]
<1>4. /\ new.start \in Nat /\ new.count \in Nat /\ new.updated = now /\ new.until \in Nat
      /\ fresh => new.start = now /\ new.count = 1
      /\ ~fresh => new.start = row.start /\ new.count = row.count + 1
      /\ new.until = (IF row # None /\ row.until > now THEN row.until
                      ELSE IF row # None /\ new.count >= Limit THEN now + Block
                      ELSE 0)
  <2>1. row \in Limiting!RateRow \cup {None} /\ new = Limiting!Recorded(row, now)
    BY DEF OneMore
  <2> QED BY <1>2, <2>1, RecordedRow DEF Limiting!RateRow
<1>5. row # None => /\ row.start \in Nat /\ row.count \in Nat /\ row.updated \in Nat /\ row.until \in Nat
                     /\ n > 0 /\ row.updated = v[n].at /\ row.start = st[n] /\ row.count = ct[n]
  <2>1. row # None => row \in Limiting!RateRow
    BY DEF OneMore
  <2>2. \A x \in Limiting!RateRow : /\ x.start \in Nat /\ x.count \in Nat /\ x.updated \in Nat /\ x.until \in Nat
    BY DEF Limiting!RateRow
  <2>3. Represented(v, row, st, ct, now) /\ n = Len(v)
    BY <1>1 DEF OneMore, Windows
  <2> QED BY <2>1, <2>2, <2>3 DEF Represented
<1>21. ASSUME row # None, row.until > now
       PROVE  \E j \in 1..n : ct[j] >= Limit /\ v[j].at + Block = row.until
  <2>1. Represented(v, row, st, ct, now) /\ n = Len(v)
    BY <1>1 DEF OneMore, Windows
  <2>2. row.until > 0
    BY <1>2, <1>5, <1>21
  <2> QED BY <1>21, <2>1, <2>2 DEF Represented
<1>6. n > 0 => v[n].at <= now /\ (row = None => v[n].at + Retention < now)
  BY <1>1 DEF Windows, Represented, OneMore
<1>7. s \in [Nat -> Nat] /\ c \in [Nat -> Nat] /\ s[n + 1] = new.start /\ c[n + 1] = new.count
  <2>1. st \in [Nat -> Nat] /\ ct \in [Nat -> Nat]
    BY DEF OneMore
  <2>3. n + 1 \in Nat
    OBVIOUS
  <2>2. new.start \in Nat /\ new.count \in Nat
    BY <1>4
  <2> QED BY <2>1, <2>2, <2>3
<1>8. \A i \in 1..n : s[i] = st[i] /\ c[i] = ct[i] /\ w[i] = v[i]
  <2>1. st \in [Nat -> Nat] /\ ct \in [Nat -> Nat]
    BY DEF OneMore
  <2>4. \A i \in 1..n : i \in Nat /\ i # n + 1
    OBVIOUS
  <2>2. \A i \in 1..n : s[i] = st[i] /\ c[i] = ct[i]
    BY <2>1, <2>4
  <2>3. \A i \in 1..n : w[i] = v[i]
    BY <1>1 DEF OneMore
  <2> QED BY <2>2, <2>3
<1>20. w[n + 1].at = now /\ (w[n + 1].blocked <=> new.until > now)
  BY <1>1 DEF OneMore
<1> HIDE DEF s, c
<1>9. \A i \in 1..n :
        /\ st[i] <= v[i].at /\ v[i].at < st[i] + Window /\ ct[i] \in 1..i
        /\ ct[i] = 1 => v[i].at = st[i]
        /\ \A h \in (i - ct[i]) + 1..i : st[h] = st[i]
  BY <1>1 DEF Windows, Counted, OneMore
<1>10. \A i, j \in 1..n : i < j =>
         /\ v[i].at <= v[j].at
         /\ st[i] + Window <= st[j] \/ (st[i] = st[j] /\ ct[i] < ct[j])
  BY <1>1 DEF Windows, Counted, OneMore
<1>11. \A i \in 1..n : v[i].at <= now
  <2> TAKE i \in 1..n
  <2>1. n \in 1..n
    OBVIOUS
  <2>2. v[i].at <= v[n].at
    BY <1>3, <1>10, <2>1
  <2> QED BY <1>2, <1>3, <1>6, <2>1, <2>2
<1>12. /\ new.start <= now /\ now < new.start + Window /\ new.count \in 1..n + 1
       /\ new.count = 1 => now = new.start
  <2>1. CASE fresh
    BY <1>2, <1>4, <2>1
  <2>2. CASE ~fresh
    <3>1. n \in 1..n /\ row # None /\ now < row.start + Window
      BY <1>2, <1>5, <2>2
    <3>2. st[n] <= now /\ ct[n] \in 1..n
      BY <1>2, <1>3, <1>6, <1>9, <3>1
    <3> QED BY <1>2, <1>4, <1>5, <2>2, <3>1, <3>2
  <2> QED BY <2>1, <2>2
<1>13. \A h \in ((n + 1) - new.count) + 1..n + 1 : s[h] = new.start
  <2>1. CASE fresh
    BY <1>4, <1>7, <2>1
  <2>2. CASE ~fresh
    <3>1. n \in 1..n /\ new.count = ct[n] + 1 /\ new.start = st[n] /\ ct[n] \in 1..n
      BY <1>4, <1>5, <1>9, <2>2
    <3>2. \A h \in (n - ct[n]) + 1..n : st[h] = st[n] /\ h \in 1..n
      BY <1>9, <3>1
    <3>3. ASSUME NEW h \in ((n + 1) - new.count) + 1..n + 1 PROVE s[h] = new.start
      <4>1. h = n + 1 \/ h \in (n - ct[n]) + 1..n
        BY <3>1, <1>4
      <4> QED BY <1>7, <1>8, <3>1, <3>2, <4>1
    <3> QED BY <3>3
  <2> QED BY <2>1, <2>2
<1>14. \A i \in 1..n : \/ st[i] + Window <= new.start
                       \/ st[i] = new.start /\ ct[i] < new.count
  <2> TAKE i \in 1..n
  <2>1. n \in 1..n /\ st[n] \in Nat /\ st[i] \in Nat /\ ct[i] \in Nat /\ ct[n] \in Nat
    BY <1>3
  <2>2. st[i] + Window <= st[n] \/ (st[i] = st[n] /\ ct[i] <= ct[n])
    BY <1>10, <2>1
  <2>3. CASE row = None
    <3>1. st[n] + Window <= now
      BY <1>2, <1>3, <1>6, <1>9, <2>1, <2>3
    <3> QED BY <1>2, <1>4, <2>1, <2>2, <2>3, <3>1
  <2>4. CASE row # None /\ fresh
    BY <1>2, <1>4, <1>5, <2>1, <2>2, <2>4
  <2>5. CASE ~fresh
    BY <1>2, <1>4, <1>5, <2>1, <2>2, <2>5
  <2> QED BY <2>3, <2>4, <2>5
<1>15. Counted(w, s, c)
  <2>1. ASSUME NEW i \in 1..n + 1
        PROVE  /\ s[i] <= w[i].at /\ w[i].at < s[i] + Window
               /\ c[i] \in 1..i
               /\ c[i] = 1 => w[i].at = s[i]
               /\ \A h \in (i - c[i]) + 1..i : s[h] = s[i]
    <3>1. CASE i = n + 1
      BY <1>7, <1>12, <1>13, <1>20, <3>1
    <3>2. CASE i \in 1..n
      <4>1. \A h \in (i - ct[i]) + 1..i : h \in 1..n
        BY <1>9, <3>2
      <4>2. \A h \in (i - ct[i]) + 1..i : s[h] = st[h]
        BY <1>8, <4>1
      <4> QED BY <1>8, <1>9, <3>2, <4>2
    <3> QED BY <3>1, <3>2
  <2>2. ASSUME NEW i \in 1..n + 1, NEW j \in 1..n + 1, i < j
        PROVE  /\ w[i].at <= w[j].at
               /\ s[i] + Window <= s[j] \/ (s[i] = s[j] /\ c[i] < c[j])
    <3>1. i \in 1..n
      BY <2>2
    <3>2. CASE j = n + 1
      BY <1>7, <1>8, <1>11, <1>14, <1>20, <3>1, <3>2
    <3>3. CASE j \in 1..n
      BY <1>8, <1>10, <2>2, <3>1, <3>3
    <3> QED BY <3>2, <3>3
  <2> QED BY <1>1, <2>1, <2>2 DEF Counted
<1>16. Judged(w, c)
  <2>1. ASSUME NEW i \in 1..n
        PROVE  /\ ~w[i].blocked => c[i] < Limit
               /\ w[i].blocked => \E j \in 1..i : c[j] >= Limit /\ w[j].at + Block > w[i].at
    <3>1. /\ ~v[i].blocked => ct[i] < Limit
          /\ v[i].blocked => \E j \in 1..i : ct[j] >= Limit /\ v[j].at + Block > v[i].at
      BY <1>1 DEF Windows, Judged, OneMore
    <3>2. \A j \in 1..i : c[j] = ct[j] /\ w[j] = v[j]
      BY <1>8
    <3> QED BY <1>8, <3>1, <3>2
  <2>2. ~w[n + 1].blocked => c[n + 1] < Limit
    BY <1>2, <1>4, <1>7, <1>20
  <2>3. w[n + 1].blocked => \E j \in 1..n + 1 : c[j] >= Limit /\ w[j].at + Block > w[n + 1].at
    <3> SUFFICES ASSUME new.until > now
                 PROVE  \E j \in 1..n + 1 : c[j] >= Limit /\ w[j].at + Block > now
      BY <1>20
    <3>1. CASE row # None /\ row.until > now
      <4>1. PICK j \in 1..n : ct[j] >= Limit /\ v[j].at + Block = row.until
        BY <1>21, <3>1
      <4> QED BY <1>8, <3>1, <4>1
    <3>2. CASE ~(row # None /\ row.until > now)
      <4>1. new.count >= Limit
        BY <1>2, <1>4, <3>2
      <4> QED BY <1>2, <1>7, <1>20, <4>1
    <3> QED BY <3>1, <3>2
  <2> QED BY <1>1, <2>1, <2>2, <2>3 DEF Judged
<1>17. Represented(w, new, s, c, now)
  <2>1. new # None
    <3>1. new \in Limiting!RateRow
      BY <1>2, RecordedRow DEF OneMore
    <3> QED BY <3>1, LimitsAreOrdered DEF Limiting!LimitsAreOrdered
  <2>2. new.until > 0 => \E j \in 1..n + 1 : c[j] >= Limit /\ w[j].at + Block = new.until
    <3> SUFFICES ASSUME new.until > 0
                 PROVE  \E j \in 1..n + 1 : c[j] >= Limit /\ w[j].at + Block = new.until
      OBVIOUS
    <3>1. CASE row # None /\ row.until > now
      <4>1. PICK j \in 1..n : ct[j] >= Limit /\ v[j].at + Block = row.until
        BY <1>21, <3>1
      <4> QED BY <1>4, <1>8, <3>1, <4>1
    <3>2. CASE ~(row # None /\ row.until > now)
      <4>1. new.count >= Limit /\ new.until = now + Block
        BY <1>2, <1>4, <3>2
      <4> QED BY <1>2, <1>7, <1>20, <4>1
    <3> QED BY <3>1, <3>2
  <2> QED BY <1>1, <1>2, <1>4, <1>7, <1>20, <2>1, <2>2 DEF Represented
<1> QED BY <1>7, <1>15, <1>16, <1>17 DEF Windows

\* What the submissions of a key tell of its row.
Explained(v, row, st, ct, now) ==
  /\ v \in Seq(Verdict) /\ st \in [Nat -> Nat] /\ ct \in [Nat -> Nat]
  /\ Windows(v, row, st, ct, now)

\* What the numbers and starts of the windows are.
LEMMA ExplainedTypes ==
  ASSUME NEW v, NEW row, NEW st, NEW ct, NEW now, Explained(v, row, st, ct, now)
  PROVE  \E n \in Nat : /\ n = Len(v) /\ DOMAIN v = 1..n
                         /\ \A i \in 1..n : v[i].at \in Nat /\ st[i] \in Nat /\ ct[i] \in Nat
<1>1. PICK n \in Nat : n = Len(v) /\ DOMAIN v = 1..n
  BY DEF Explained
<1>2. \A i \in 1..n : v[i] \in Verdict
  BY <1>1 DEF Explained
<1>3. \A x \in Verdict : x.at \in Nat
  BY LimitsAreOrdered DEF Verdict, Limiting!LimitsAreOrdered
<1>4. \A i \in Nat : st[i] \in Nat /\ ct[i] \in Nat
  BY DEF Explained
<1> QED BY <1>1, <1>2, <1>3, <1>4

\* A set whose elements have different numbers below a bound has no more of them.
LEMMA NumberedSet ==
  ASSUME NEW S, NEW m \in Nat, NEW f \in [S -> 1..m],
         \A i, j \in S : f[i] = f[j] => i = j
  PROVE  IsFiniteSet(S) /\ Cardinality(S) <= m
<1>1. f \in Injection(S, 1..m)
  BY DEF Injection, IsInjective
<1>2. IsFiniteSet(1..m) /\ Cardinality(1..m) = m
  BY FS_Interval
<1> QED BY <1>1, <1>2, FS_Injection

\* The submissions of a stretch of a window's length that were admitted.
Admitted(v, last) ==
  {i \in DOMAIN v : v[i].at <= last /\ v[i].at + Window > last /\ ~v[i].blocked}

\* A stretch of a window's length meets at most two windows; the second of them
\* holds its first submissions, and the one that reaches the limit is refused.
LEMMA FewAreAdmitted ==
  ASSUME NEW v, NEW row, NEW st, NEW ct, NEW now, NEW last \in Nat,
         Explained(v, row, st, ct, now)
  PROVE  Cardinality(Admitted(v, last)) <= (Limit - 2) + (Limit - 1)
<1> DEFINE S == Admitted(v, last)
<1>1. /\ MaxTime \in Nat /\ Limit \in Nat /\ Limit >= 2 /\ Window \in Nat /\ Window >= 1
  BY LimitsAreOrdered DEF Limiting!LimitsAreOrdered
<1>2. PICK n \in Nat : /\ n = Len(v) /\ DOMAIN v = 1..n
                        /\ \A i \in 1..n : v[i].at \in Nat /\ st[i] \in Nat /\ ct[i] \in Nat
  BY ExplainedTypes
<1>3. \A i \in 1..n : v[i].at \in Nat /\ st[i] \in Nat /\ ct[i] \in Nat
  BY <1>2
<1>4. \A i \in S : /\ i \in 1..n /\ v[i].at <= last /\ v[i].at + Window > last
                   /\ st[i] <= v[i].at /\ v[i].at < st[i] + Window
                   /\ ct[i] \in 1..(Limit - 1) /\ (ct[i] = 1 => v[i].at = st[i])
  <2> SUFFICES ASSUME NEW i \in S
               PROVE  /\ i \in 1..n /\ v[i].at <= last /\ v[i].at + Window > last
                      /\ st[i] <= v[i].at /\ v[i].at < st[i] + Window
                      /\ ct[i] \in 1..(Limit - 1) /\ (ct[i] = 1 => v[i].at = st[i])
    OBVIOUS
  <2>1. i \in 1..n /\ v[i].at <= last /\ v[i].at + Window > last /\ ~v[i].blocked
    BY <1>2 DEF Admitted
  <2>2. /\ st[i] <= v[i].at /\ v[i].at < st[i] + Window
        /\ ct[i] \in 1..i /\ (ct[i] = 1 => v[i].at = st[i])
    BY <1>2, <2>1 DEF Windows, Counted, Explained
  <2>3. ct[i] < Limit
    BY <1>2, <2>1 DEF Windows, Judged, Explained
  <2> QED BY <1>1, <1>3, <2>1, <2>2, <2>3
<1>5. \A i, j \in S : st[i] = st[j] /\ ct[i] = ct[j] => i = j
  <2>1. \A i, j \in 1..n : i < j => st[i] + Window <= st[j] \/ (st[i] = st[j] /\ ct[i] < ct[j])
    BY <1>2 DEF Windows, Counted, Explained
  <2> SUFFICES ASSUME NEW i \in S, NEW j \in S, st[i] = st[j], ct[i] = ct[j], i # j PROVE FALSE
    OBVIOUS
  <2>2. i \in 1..n /\ j \in 1..n /\ (i < j \/ j < i)
    BY <1>4
  <2> HIDE DEF S
  <2> QED BY <1>1, <1>3, <2>1, <2>2
<1>6. \A i, j \in S : st[i] < st[j] => st[i] + Window <= st[j]
  <2>1. \A i, j \in 1..n : i < j => st[i] + Window <= st[j] \/ (st[i] = st[j] /\ ct[i] < ct[j])
    BY <1>2 DEF Windows, Counted, Explained
  <2> SUFFICES ASSUME NEW i \in S, NEW j \in S, st[i] < st[j] PROVE st[i] + Window <= st[j]
    OBVIOUS
  <2>2. i \in 1..n /\ j \in 1..n /\ (i < j \/ j < i \/ i = j)
    BY <1>4
  <2> HIDE DEF S
  <2> QED BY <1>1, <1>3, <2>1, <2>2
<1>7. \A i \in S : i \in 1..n
  BY <1>4
<1> HIDE DEF S
<1>8. CASE \A i, j \in S : st[i] = st[j]
  <2> DEFINE f == [i \in S |-> ct[i]]
  <2>1. f \in [S -> 1..(Limit - 1)]
    BY <1>4
  <2>2. \A i, j \in S : f[i] = f[j] => i = j
    BY <1>5, <1>8
  <2>3. Limit - 1 \in Nat
    BY <1>1
  <2> HIDE DEF f
  <2>4. IsFiniteSet(S) /\ Cardinality(S) <= Limit - 1
    BY <2>1, <2>2, <2>3, NumberedSet
  <2>5. Cardinality(S) \in Nat
    BY <2>4, FS_CardinalityType
  <2>6. Cardinality(S) <= (Limit - 2) + (Limit - 1)
    BY <1>1, <2>4, <2>5
  <2> QED BY <2>6 DEF S
<1>9. CASE \E i, j \in S : st[i] # st[j]
  <2>1. PICK a \in S, b \in S : st[a] < st[b]
    BY <1>3, <1>7, <1>9
  <2>2. /\ a \in 1..n /\ b \in 1..n /\ st[a] \in Nat /\ st[b] \in Nat /\ st[a] + Window <= st[b]
        /\ v[a].at \in Nat /\ v[b].at \in Nat
    BY <1>3, <1>6, <1>7, <2>1
  <2>3. ASSUME NEW i \in S PROVE st[i] = st[a] \/ st[i] = st[b]
    <3>1. /\ st[i] \in Nat /\ v[i].at \in Nat
          /\ st[i] < st[a] => st[i] + Window <= st[a]
          /\ st[a] < st[i] => st[a] + Window <= st[i]
          /\ st[i] < st[b] => st[i] + Window <= st[b]
          /\ st[b] < st[i] => st[b] + Window <= st[i]
      BY <1>3, <1>6, <1>7
    <3>2. /\ v[i].at <= last /\ v[i].at + Window > last /\ st[i] <= v[i].at /\ v[i].at < st[i] + Window
          /\ v[a].at + Window > last /\ v[a].at < st[a] + Window
          /\ v[b].at <= last /\ st[b] <= v[b].at
      BY <1>4
    <3> QED BY <1>1, <2>2, <3>1, <3>2
  <2>4. ASSUME NEW i \in S, st[i] = st[a] PROVE ct[i] \in 2..(Limit - 1)
    <3>1. /\ st[i] \in Nat /\ v[i].at \in Nat /\ ct[i] \in Nat
      BY <1>3, <1>7
    <3>2. /\ v[i].at + Window > last /\ v[b].at <= last /\ st[b] <= v[b].at
          /\ ct[i] \in 1..(Limit - 1) /\ (ct[i] = 1 => v[i].at = st[i])
      BY <1>4
    <3> QED BY <1>1, <2>2, <2>4, <3>1, <3>2
  <2> DEFINE f(i) == IF st[i] = st[b] THEN ct[i] ELSE (Limit - 2) + ct[i]
             m == (Limit - 2) + (Limit - 1)
  <2>5. m \in Nat
    BY <1>1
  <2>6. \A i \in S : f(i) \in 1..m
    <3> SUFFICES ASSUME NEW i \in S PROVE f(i) \in 1..m
      OBVIOUS
    <3>1. ct[i] \in 1..(Limit - 1)
      BY <1>4
    <3>2. st[i] # st[b] => ct[i] \in 2..(Limit - 1)
      BY <2>3, <2>4
    <3> QED BY <1>1, <3>1, <3>2
  <2>7. \A i, j \in S : f(i) = f(j) => i = j
    <3> SUFFICES ASSUME NEW i \in S, NEW j \in S, f(i) = f(j) PROVE i = j
      OBVIOUS
    <3>1. ct[i] \in 1..(Limit - 1) /\ ct[j] \in 1..(Limit - 1)
      BY <1>4
    <3>2. st[i] # st[b] => ct[i] >= 2 /\ st[i] = st[a]
      BY <2>3, <2>4
    <3>3. st[j] # st[b] => ct[j] >= 2 /\ st[j] = st[a]
      BY <2>3, <2>4
    <3>4. st[i] = st[j] /\ ct[i] = ct[j]
      BY <1>1, <3>1, <3>2, <3>3
    <3> QED BY <1>5, <3>4
  <2> DEFINE g == [i \in S |-> f(i)]
  <2>8. g \in [S -> 1..m] /\ \A i, j \in S : g[i] = g[j] => i = j
    BY <2>6, <2>7
  <2> HIDE DEF g, m
  <2>9. Cardinality(S) <= m
    BY <2>5, <2>8, NumberedSet
  <2> QED BY <2>9 DEF S, m
<1> QED BY <1>8, <1>9

\* The submissions of the window's length that ends with j.
UpTo(v, j) == {h \in DOMAIN v : v[h].at <= v[j].at /\ v[h].at + Window > v[j].at /\ h <= j}

\* A rejection lies in the block of a submission that was the limit's or later.
LEMMA RejectedForALimit ==
  ASSUME NEW v, NEW row, NEW st, NEW ct, NEW now, NEW i \in 1..Len(v),
         Explained(v, row, st, ct, now), v[i].blocked
  PROVE  \E j \in 1..i :
           v[j].at + Block > v[i].at /\ Cardinality(UpTo(v, j)) >= Limit
<1>1. /\ MaxTime \in Nat /\ Limit \in Nat /\ Limit >= 2 /\ Window \in Nat /\ Window >= 1
  BY LimitsAreOrdered DEF Limiting!LimitsAreOrdered
<1>2. PICK n \in Nat : /\ n = Len(v) /\ DOMAIN v = 1..n
                        /\ \A h \in 1..n : v[h].at \in Nat /\ st[h] \in Nat /\ ct[h] \in Nat
  BY ExplainedTypes
<1>3. \A h \in 1..n : v[h].at \in Nat /\ st[h] \in Nat /\ ct[h] \in Nat
  BY <1>2
<1>4. PICK j \in 1..i : ct[j] >= Limit /\ v[j].at + Block > v[i].at
  BY <1>2 DEF Windows, Judged, Explained
<1>5. j \in 1..n
  BY <1>2
<1> DEFINE low == (j - ct[j]) + 1
           T == UpTo(v, j)
<1>6. ct[j] \in 1..j /\ v[j].at < st[j] + Window /\ \A h \in low..j : st[h] = st[j]
  BY <1>2, <1>5 DEF Windows, Counted, Explained
<1>7. low..j \subseteq T
  <2> SUFFICES ASSUME NEW h \in low..j PROVE h \in T
    OBVIOUS
  <2>1. h \in 1..n /\ h <= j
    BY <1>5, <1>6
  <2>2. st[h] <= v[h].at /\ st[h] = st[j]
    BY <1>2, <1>6, <2>1 DEF Windows, Counted, Explained
  <2>3. h < j => v[h].at <= v[j].at
    BY <1>2, <1>5, <2>1 DEF Windows, Counted, Explained
  <2>4. v[h].at <= v[j].at
    BY <1>3, <1>5, <2>1, <2>3
  <2> QED BY <1>1, <1>2, <1>3, <1>5, <1>6, <2>1, <2>2, <2>4 DEF UpTo
<1>8. IsFiniteSet(1..n) /\ T \subseteq 1..n
  BY <1>2, FS_Interval DEF UpTo
<1>9. IsFiniteSet(T)
  BY <1>8, FS_Subset
<1>10. Cardinality(low..j) = ct[j]
  <2>1. low \in Int /\ j \in Int /\ low <= j /\ (j - low) + 1 = ct[j]
    BY <1>3, <1>5, <1>6
  <2> HIDE DEF low
  <2> QED BY <2>1, FS_Interval
<1>11. Cardinality(low..j) <= Cardinality(T)
  BY <1>7, <1>9, FS_Subset
<1>12. Cardinality(T) >= Limit
  <2>1. Cardinality(T) \in Nat
    BY <1>9, FS_CardinalityType
  <2> QED BY <1>1, <1>3, <1>4, <1>5, <1>10, <1>11, <2>1
<1> QED BY <1>4, <1>12

LimitsInvariant == LimitsTyped /\ (\A r \in Requests : Serving(r)) /\ LocksHold /\ WindowsCount

\* The invariant of the rate limits, initially.
LEMMA LimitsInit == Limiting!Init => LimitsInvariant
<1> SUFFICES ASSUME Limiting!Init PROVE LimitsInvariant
  OBVIOUS
<1>1. Limiting!Idle \in Submission /\ Limiting!Idle.step = "idle" /\ Limiting!Idle.wanted = {} /\ Limiting!Idle.deleted = {} /\ Limiting!Idle.key = None
  BY DEF Limiting!Idle, Submission
<1>2. LimitsTyped
  BY <1>1, LimitsAreOrdered DEF Limiting!Init, LimitsTyped, Limiting!LimitsAreOrdered
<1>3. \A r \in Requests : submissions[r] = Limiting!Idle
  BY DEF Limiting!Init
<1>4. \A r \in Requests : Serving(r) /\ Limiting!Locked(r) = {}
  BY <1>1, <1>3 DEF Serving, Limiting!Locked
<1>5. LocksHold
  BY <1>4 DEF Limiting!Init, LocksHold
<1>6. \A k \in Keys : Len(verdicts[k]) = 0 /\ limits[k] = None
  BY DEF Limiting!Init
<1>7. WindowsCount
  <2> DEFINE zero == [n \in Nat |-> 0]
  <2>1. zero \in [Nat -> Nat]
    OBVIOUS
  <2> HIDE DEF zero
  <2>2. \A k \in Keys : Windows(verdicts[k], limits[k], zero, zero, clock)
    BY <1>6 DEF Windows, Counted, Judged, Represented
  <2> QED BY <2>1, <2>2 DEF WindowsCount
<1> QED BY <1>2, <1>4, <1>5, <1>7 DEF LimitsInvariant

\* What a submission that is being served has.
LEMMA Submitted ==
  ASSUME LimitsInvariant, NEW r \in Requests, submissions[r].step # "idle"
  PROVE  /\ submissions[r] \in Submission /\ submissions[r].key \in Keys
         /\ submissions[r].row = Limiting!Recorded(limits[submissions[r].key], clock)
         /\ Limiting!Locked(r) = submissions[r].deleted \cup {submissions[r].key}
<1>1. submissions[r] \in Submission /\ Serving(r)
  BY DEF LimitsInvariant, LimitsTyped
<1>2. None \notin Keys
  BY LimitsAreOrdered DEF Limiting!LimitsAreOrdered
<1> QED BY <1>1, <1>2 DEF Serving, Limiting!Locked

\* A step of the request r that writes no row.
LEMMA UnwrittenStep ==
  ASSUME LimitsInvariant, NEW r \in Requests, NEW x \in Submission,
         submissions' = [submissions EXCEPT ![r] = x], UNCHANGED <<clock, limits, verdicts, before>>,
         failures' \subseteq [at : 1..MaxTime, old : SUBSET Keys],
         /\ x.step = "idle" => x = Limiting!Idle
         /\ x.step # "idle" => x.key \in Keys /\ x.row = Limiting!Recorded(limits[x.key], clock)
         /\ x.wanted \subseteq Old
         /\ \A k \in x.deleted : Limiting!Dormant(limits[k], clock),
         \A k \in x.deleted \cup ({x.key} \ {None}) : k \in Limiting!Locked(r) \/ Limiting!Free(k, r)
  PROVE  LimitsInvariant'
<1>1. submissions'[r] = x /\ \A o \in Requests \ {r} : submissions'[o] = submissions[o]
  BY DEF LimitsInvariant, LimitsTyped
<1>2. submissions' \in [Requests -> Submission]
  BY DEF LimitsInvariant, LimitsTyped
<1>3. LimitsTyped'
  BY <1>2 DEF LimitsInvariant, LimitsTyped
<1>4. Old' = Old
  BY DEF Old
<1>5. \A o \in Requests : Serving(o)'
  <2>1. Serving(r)'
    BY <1>1, <1>4 DEF Serving
  <2>2. ASSUME NEW o \in Requests \ {r} PROVE Serving(o)'
    <3>1. Serving(o)
      BY DEF LimitsInvariant
    <3> QED BY <1>1, <1>4, <3>1 DEF Serving
  <2> QED BY <2>1, <2>2
<1>6. Limiting!Locked(r)' = x.deleted \cup ({x.key} \ {None}) /\ \A o \in Requests \ {r} : Limiting!Locked(o)' = Limiting!Locked(o)
  BY <1>1 DEF Limiting!Locked
<1>7. \A o \in Requests \ {r} : Limiting!Locked(r)' \cap Limiting!Locked(o)' = {}
  <2> SUFFICES ASSUME NEW o \in Requests \ {r}, NEW k \in Limiting!Locked(r)', k \in Limiting!Locked(o) PROVE FALSE
    BY <1>6
  <2>1. k \in Limiting!Locked(r) \/ Limiting!Free(k, r)
    BY <1>6
  <2> QED BY <2>1 DEF Limiting!Free, LimitsInvariant, LocksHold
<1>8. LocksHold'
  <2>1. \A q, o \in Requests : q # o => Limiting!Locked(q)' \cap Limiting!Locked(o)' = {}
    BY <1>6, <1>7 DEF LimitsInvariant, LocksHold
  <2>2. \A k \in Keys : limits'[k] # None /\ limits'[k] # before'[k] => limits'[k].updated = clock'
    BY DEF LimitsInvariant, LocksHold
  <2> QED BY <2>1, <2>2 DEF LocksHold
<1>9. WindowsCount'
  BY DEF LimitsInvariant, WindowsCount
<1> QED BY <1>3, <1>5, <1>8, <1>9 DEF LimitsInvariant

\* A submission waits for its row or writes it.
LEMMA RecordStep ==
  ASSUME LimitsInvariant, NEW r \in Requests, NEW k \in Keys, Limiting!Record(r, k)
  PROVE  LimitsInvariant'
<1>1. PICK x : x = [submissions[r] EXCEPT !.step = "recorded", !.key = k, !.row = Limiting!Recorded(limits[k], clock)]
  OBVIOUS
<1>2. /\ submissions[r] = Limiting!Idle /\ Limiting!Free(k, r) /\ submissions' = [submissions EXCEPT ![r] = x]
      /\ UNCHANGED <<clock, limits, verdicts, before, failures>>
  BY <1>1 DEF Limiting!Record
<1>3. Limiting!Recorded(limits[k], clock) \in Limiting!RateRow
  <2>1. limits[k] \in Limiting!RateRow \cup {None} /\ clock \in Nat
    BY DEF LimitsInvariant, LimitsTyped
  <2> QED BY <2>1, RecordedRow
<1>4. /\ x \in Submission /\ x.step = "recorded" /\ x.key = k /\ x.row = Limiting!Recorded(limits[k], clock)
      /\ x.wanted = {} /\ x.deleted = {}
  <2>1. Limiting!Idle \in Submission /\ Limiting!Idle.wanted = {} /\ Limiting!Idle.deleted = {}
    BY DEF Limiting!Idle, Submission
  <2>2. x = [Limiting!Idle EXCEPT !.step = "recorded", !.key = k, !.row = Limiting!Recorded(limits[k], clock)]
    BY <1>1, <1>2
  <2> QED BY <1>3, <2>1, <2>2 DEF Submission
<1>5. failures' \subseteq [at : 1..MaxTime, old : SUBSET Keys]
  BY <1>2 DEF LimitsInvariant, LimitsTyped
<1> QED BY <1>2, <1>4, <1>5, UnwrittenStep

\* A cleanup takes its snapshot.
LEMMA CleanupStep ==
  ASSUME LimitsInvariant, NEW r \in Requests, Limiting!StartCleanup(r)
  PROVE  LimitsInvariant'
<1> DEFINE wanted == {k \in Keys \ {submissions[r].key} : Limiting!Dormant(limits[k], clock)}
<1>1. PICK x : x = [submissions[r] EXCEPT !.step = "cleaning", !.wanted = wanted]
  OBVIOUS
<1>2. /\ submissions[r].step = "recorded" /\ submissions' = [submissions EXCEPT ![r] = x]
      /\ UNCHANGED <<clock, limits, verdicts, before, failures>>
  BY <1>1 DEF Limiting!StartCleanup
<1>3. wanted \subseteq Old /\ wanted \subseteq Keys
  <2> SUFFICES ASSUME NEW k \in wanted PROVE k \in Old
    OBVIOUS
  <2>1. k \in Keys /\ limits[k] # None /\ limits[k].updated + Retention < clock
    BY DEF Limiting!Dormant
  <2>2. limits[k] = before[k]
    <3>1. clock \in Nat /\ Retention \in Nat
      BY LimitsAreOrdered DEF Limiting!LimitsAreOrdered, LimitsInvariant, LimitsTyped
    <3>2. limits[k] # before[k] => limits[k].updated = clock
      BY <2>1 DEF LimitsInvariant, LocksHold
    <3> QED BY <2>1, <3>1, <3>2
  <2> QED BY <2>1, <2>2 DEF Old
<1>4. /\ submissions[r] \in Submission /\ submissions[r].key \in Keys
      /\ submissions[r].row = Limiting!Recorded(limits[submissions[r].key], clock)
      /\ Limiting!Locked(r) = submissions[r].deleted \cup {submissions[r].key}
  BY <1>2, Submitted
<1> HIDE DEF wanted
<1>5. /\ x \in Submission /\ x.step = "cleaning" /\ x.key = submissions[r].key /\ x.row = submissions[r].row
      /\ x.wanted = wanted /\ x.deleted = submissions[r].deleted
  BY <1>1, <1>3, <1>4 DEF Submission
<1>6. \A k \in x.deleted : Limiting!Dormant(limits[k], clock)
  BY <1>5 DEF LimitsInvariant, Serving
<1>7. failures' \subseteq [at : 1..MaxTime, old : SUBSET Keys]
  BY <1>2 DEF LimitsInvariant, LimitsTyped
<1> QED BY <1>2, <1>3, <1>4, <1>5, <1>6, <1>7, UnwrittenStep

\* It deletes a row of it that is dormant still.
LEMMA DeleteStep ==
  ASSUME LimitsInvariant, NEW r \in Requests, NEW k \in Keys, Limiting!DeleteRow(r, k)
  PROVE  LimitsInvariant'
<1> DEFINE deleted == IF Limiting!Dormant(limits[k], clock) THEN submissions[r].deleted \cup {k} ELSE submissions[r].deleted
<1>1. PICK x : x = [submissions[r] EXCEPT !.wanted = @ \ {k}, !.deleted = deleted]
  OBVIOUS
<1>2. /\ submissions[r].step = "cleaning" /\ k \in submissions[r].wanted /\ Limiting!Free(k, r)
      /\ submissions' = [submissions EXCEPT ![r] = x]
      /\ UNCHANGED <<clock, limits, verdicts, before, failures>>
  BY <1>1 DEF Limiting!DeleteRow
<1>3. /\ submissions[r] \in Submission /\ submissions[r].key \in Keys
      /\ submissions[r].row = Limiting!Recorded(limits[submissions[r].key], clock)
      /\ Limiting!Locked(r) = submissions[r].deleted \cup {submissions[r].key}
  BY <1>2, Submitted
<1>4. deleted \subseteq Keys /\ \A l \in deleted : l \in Limiting!Locked(r) \/ Limiting!Free(l, r)
  BY <1>2, <1>3 DEF Submission
<1>5. Serving(r)
  BY DEF LimitsInvariant
<1>6. \A l \in deleted : Limiting!Dormant(limits[l], clock)
  BY <1>5 DEF Serving
<1> HIDE DEF deleted
<1>7. /\ x \in Submission /\ x.step = "cleaning" /\ x.key = submissions[r].key /\ x.row = submissions[r].row
      /\ x.wanted \subseteq submissions[r].wanted /\ x.deleted = deleted
  BY <1>1, <1>2, <1>3, <1>4 DEF Submission
<1>8. x.wanted \subseteq Old
  BY <1>5, <1>7 DEF Serving
<1>9. failures' \subseteq [at : 1..MaxTime, old : SUBSET Keys]
  BY <1>2 DEF LimitsInvariant, LimitsTyped
<1> QED BY <1>2, <1>3, <1>4, <1>6, <1>7, <1>8, <1>9, UnwrittenStep

\* Two submissions wait for each other: each of the rows they wait for is old.
LEMMA AbortStep ==
  ASSUME LimitsInvariant, NEW r \in Requests, Limiting!DeadlockAborted(r)
  PROVE  LimitsInvariant' /\ failures' = failures \cup {[at |-> clock, old |-> Old]}
         /\ \E k, l \in Old : k # l
<1>1. /\ submissions' = [submissions EXCEPT ![r] = Limiting!Idle] /\ failures' = failures \cup {[at |-> clock, old |-> Old]}
      /\ UNCHANGED <<clock, limits, verdicts, before>> /\ Limiting!InDeadlock(r)
  BY DEF Limiting!DeadlockAborted, Old
<1>2. Limiting!Idle \in Submission /\ Limiting!Idle.step = "idle" /\ Limiting!Idle.wanted = {} /\ Limiting!Idle.deleted = {} /\ Limiting!Idle.key = None
  BY DEF Limiting!Idle, Submission
<1>3. failures' \subseteq [at : 1..MaxTime, old : SUBSET Keys]
  <2>1. [at |-> clock, old |-> Old] \in [at : 1..MaxTime, old : SUBSET Keys]
    BY DEF LimitsInvariant, LimitsTyped, Old
  <2> QED BY <1>1, <2>1 DEF LimitsInvariant, LimitsTyped
<1>4. LimitsInvariant'
  BY <1>1, <1>2, <1>3, UnwrittenStep
<1>5. \E k, l \in Old : k # l
  <2>1. PICK circle \in SUBSET Requests :
          r \in circle /\ \A a \in circle : /\ \E b \in circle : Limiting!WaitsFor(a, b)
                                          /\ \E b \in circle : Limiting!WaitsFor(b, a)
    BY <1>1 DEF Limiting!InDeadlock
  <2>2. PICK a \in Requests, b \in Requests : Limiting!WaitsFor(r, a) /\ Limiting!WaitsFor(b, r)
    BY <2>1
  <2>3. PICK k \in submissions[r].wanted, l \in submissions[b].wanted : k \in Limiting!Locked(a) /\ l \in Limiting!Locked(r) /\ a # r
    BY <2>2 DEF Limiting!WaitsFor
  <2>4. k \in Old /\ l \in Old
    BY <2>3 DEF LimitsInvariant, Serving
  <2>5. k # l
    BY <2>3 DEF LimitsInvariant, LocksHold
  <2> QED BY <2>4, <2>5
<1> QED BY <1>1, <1>4, <1>5

\* A submission is answered: its verdict is the next one of its address.
LEMMA LimitsCommitStep ==
  ASSUME LimitsInvariant, NEW r \in Requests, Limiting!Commit(r)
  PROVE  LimitsInvariant'
<1> DEFINE key == submissions[r].key
           new == submissions[r].row
           verdict == [at |-> clock, blocked |-> new.until > clock]
<1>1. /\ submissions[r].step = "cleaning" /\ submissions' = [submissions EXCEPT ![r] = Limiting!Idle]
      /\ limits' = [k \in Keys |-> IF k = key THEN new
                                 ELSE IF k \in submissions[r].deleted THEN None ELSE limits[k]]
      /\ verdicts' = [verdicts EXCEPT ![key] = Append(@, verdict)]
      /\ UNCHANGED <<clock, before, failures>>
  BY DEF Limiting!Commit
<1>2. /\ submissions[r] \in Submission /\ key \in Keys /\ new = Limiting!Recorded(limits[key], clock)
      /\ Limiting!Locked(r) = submissions[r].deleted \cup {key}
  BY <1>1, Submitted
<1>3. /\ clock \in 1..MaxTime /\ clock \in Nat /\ limits \in [Keys -> Limiting!RateRow \cup {None}]
      /\ verdicts \in [Keys -> Seq(Verdict)]
      /\ \A k \in Keys : limits[k] \in Limiting!RateRow \cup {None} /\ verdicts[k] \in Seq(Verdict)
  BY LimitsAreOrdered DEF Limiting!LimitsAreOrdered, LimitsInvariant, LimitsTyped
<1>4. new \in Limiting!RateRow /\ new.updated = clock
  <2>1. limits[key] \in Limiting!RateRow \cup {None} /\ clock \in Nat /\ new = Limiting!Recorded(limits[key], clock)
    BY <1>2, <1>3
  <2> HIDE DEF new, key
  <2> QED BY <2>1, RecordedRow
<1>5. verdict \in Verdict /\ verdict.at = clock /\ (verdict.blocked <=> new.until > clock)
  <2>1. PICK b \in BOOLEAN : b <=> new.until > clock
    OBVIOUS
  <2>2. verdict = [at |-> clock, blocked |-> b]
    BY <2>1
  <2> HIDE DEF verdict
  <2>3. verdict \in Verdict /\ verdict.at = clock
    BY <1>3, <2>2 DEF Verdict
  <2>4. verdict.blocked = b
    BY <2>2
  <2> QED BY <2>1, <2>3, <2>4
<1> HIDE DEF verdict
<1>6. /\ limits'[key] = new
      /\ \A k \in Keys \ {key} : limits'[k] = IF k \in submissions[r].deleted THEN None ELSE limits[k]
      /\ limits' \in [Keys -> Limiting!RateRow \cup {None}]
  BY <1>1, <1>2, <1>3, <1>4
<1>7. /\ verdicts' \in [Keys -> Seq(Verdict)] /\ verdicts'[key] = Append(verdicts[key], verdict)
      /\ \A k \in Keys \ {key} : verdicts'[k] = verdicts[k]
  BY <1>1, <1>2, <1>3, <1>5
<1>8. Limiting!Idle \in Submission /\ Limiting!Idle.step = "idle" /\ Limiting!Idle.wanted = {} /\ Limiting!Idle.deleted = {} /\ Limiting!Idle.key = None
  BY DEF Limiting!Idle, Submission
<1>9. /\ submissions' \in [Requests -> Submission] /\ submissions'[r] = Limiting!Idle
      /\ \A o \in Requests \ {r} : submissions'[o] = submissions[o]
  BY <1>1, <1>8 DEF LimitsInvariant, LimitsTyped
<1>10. LimitsTyped'
  BY <1>1, <1>3, <1>6, <1>7, <1>9 DEF LimitsInvariant, LimitsTyped
<1>11. Old' = Old
  BY <1>1 DEF Old
<1>12. \A o \in Requests \ {r} : Limiting!Locked(o)' = Limiting!Locked(o) /\ Limiting!Locked(r) \cap Limiting!Locked(o) = {}
  BY <1>9 DEF Limiting!Locked, LimitsInvariant, LocksHold
<1>13. \A o \in Requests \ {r} : \A k \in Limiting!Locked(o) \cap Keys : limits'[k] = limits[k]
  BY <1>2, <1>6, <1>12
<1>14. \A o \in Requests : Serving(o)'
  <2>1. Serving(r)'
    BY <1>8, <1>9 DEF Serving
  <2>2. ASSUME NEW o \in Requests \ {r} PROVE Serving(o)'
    <3>1. submissions'[o] = submissions[o] /\ Serving(o) /\ submissions[o] \in Submission
      BY <1>9 DEF LimitsInvariant, LimitsTyped
    <3>2. \A k \in submissions[o].deleted : k \in Limiting!Locked(o) \cap Keys
      BY <3>1 DEF Limiting!Locked, Submission
    <3>3. submissions[o].step # "idle" => submissions[o].key \in Limiting!Locked(o) \cap Keys
      BY Submitted
    <3>4. /\ \A k \in submissions[o].deleted : limits'[k] = limits[k]
          /\ submissions[o].step # "idle" => limits'[submissions[o].key] = limits[submissions[o].key]
      BY <1>13, <3>2, <3>3
    <3> QED BY <1>1, <1>11, <3>1, <3>4 DEF Serving
  <2> QED BY <2>1, <2>2
<1>15. LocksHold'
  <2>1. Limiting!Locked(r)' = {}
    BY <1>8, <1>9 DEF Limiting!Locked
  <2>2. \A q, o \in Requests : q # o => Limiting!Locked(q)' \cap Limiting!Locked(o)' = {}
    BY <1>12, <2>1 DEF LimitsInvariant, LocksHold
  <2>3. \A k \in Keys : limits'[k] # None /\ limits'[k] # before[k] => limits'[k].updated = clock
    BY <1>4, <1>6 DEF LimitsInvariant, LocksHold
  <2> QED BY <1>1, <2>2, <2>3 DEF LocksHold
<1>16. WindowsCount'
  <2> SUFFICES ASSUME NEW k \in Keys
               PROVE  \E st, ct \in [Nat -> Nat] : Windows(verdicts'[k], limits'[k], st, ct, clock)
    <3>1. clock' = clock
      BY <1>1
    <3> QED BY <3>1 DEF WindowsCount
  <2>1. PICK st \in [Nat -> Nat], ct \in [Nat -> Nat] : Windows(verdicts[k], limits[k], st, ct, clock)
    BY DEF LimitsInvariant, WindowsCount
  <2>2. CASE k = key
    <3> DEFINE v == verdicts[k]
               w == verdicts'[k]
    <3>1. v \in Seq(Verdict) /\ w = Append(v, verdict)
      BY <1>3, <1>7, <2>2
    <3> HIDE DEF v, w
    <3>2. /\ Len(w) = Len(v) + 1 /\ \A i \in 1..Len(v) : w[i] = v[i]
          /\ w[Len(w)] = verdict
      BY <1>5, <3>1
    <3>3. /\ w[Len(w)].at = clock /\ (w[Len(w)].blocked <=> new.until > clock)
      BY <1>5, <3>2
    <3>4. Windows(v, limits[k], st, ct, clock)
      BY <2>1 DEF v
    <3>5. OneMore(v, limits[k], st, ct, w, new, clock)
      BY <1>2, <1>3, <2>1, <2>2, <3>1, <3>2, <3>3, <3>4 DEF OneMore
    <3>6. limits'[k] = new
      BY <1>6, <2>2
    <3> QED BY <3>5, <3>6, OneMoreSubmission DEF w
  <2>3. CASE k # key /\ k \notin submissions[r].deleted
    BY <1>6, <1>7, <2>1, <2>3
  <2>4. CASE k # key /\ k \in submissions[r].deleted
    <3>1. Limiting!Dormant(limits[k], clock)
      BY <2>4 DEF LimitsInvariant, Serving
    <3>2. /\ Counted(verdicts[k], st, ct) /\ Judged(verdicts[k], ct)
          /\ Represented(verdicts[k], limits[k], st, ct, clock)
      BY <2>1 DEF Windows
    <3>3. Represented(verdicts[k], None, st, ct, clock)
      BY <3>1, <3>2 DEF Represented, Limiting!Dormant
    <3>4. verdicts'[k] = verdicts[k] /\ limits'[k] = None
      BY <1>6, <1>7, <2>4
    <3> QED BY <2>1, <3>2, <3>3, <3>4 DEF Windows
  <2> QED BY <2>2, <2>3, <2>4
<1> QED BY <1>10, <1>14, <1>15, <1>16 DEF LimitsInvariant

\* Time passes.
LEMMA LimitsTickStep ==
  ASSUME LimitsInvariant, Limiting!Tick
  PROVE  LimitsInvariant'
<1>1. /\ clock < MaxTime /\ clock' = clock + 1 /\ before' = limits
      /\ \A r \in Requests : submissions[r] = Limiting!Idle
      /\ UNCHANGED <<limits, submissions, verdicts, failures>>
  BY DEF Limiting!Tick
<1>2. clock \in 1..MaxTime /\ MaxTime \in Nat /\ clock \in Nat /\ clock' \in 1..MaxTime
  BY <1>1, LimitsAreOrdered DEF Limiting!LimitsAreOrdered, LimitsInvariant, LimitsTyped
<1>3. LimitsTyped'
  BY <1>1, <1>2 DEF LimitsInvariant, LimitsTyped
<1>4. \A r \in Requests : Serving(r)'
  <2>1. Limiting!Idle.step = "idle" /\ Limiting!Idle.wanted = {} /\ Limiting!Idle.deleted = {}
    BY DEF Limiting!Idle
  <2>2. \A r \in Requests : submissions'[r] = Limiting!Idle
    BY <1>1
  <2> QED BY <2>1, <2>2 DEF Serving
<1>5. LocksHold'
  <2>1. \A r \in Requests : Limiting!Locked(r)' = Limiting!Locked(r)
    BY <1>1 DEF Limiting!Locked
  <2> QED BY <1>1, <2>1 DEF LimitsInvariant, LocksHold
<1>6. WindowsCount'
  <2> SUFFICES ASSUME NEW k \in Keys
               PROVE  \E st, ct \in [Nat -> Nat] : Windows(verdicts[k], limits[k], st, ct, clock')
    BY <1>1 DEF WindowsCount
  <2>1. PICK st \in [Nat -> Nat], ct \in [Nat -> Nat] : Windows(verdicts[k], limits[k], st, ct, clock)
    BY DEF LimitsInvariant, WindowsCount
  <2>2. Explained(verdicts[k], limits[k], st, ct, clock)
    BY <2>1 DEF Explained, LimitsInvariant, LimitsTyped
  <2>3. Len(verdicts[k]) > 0 => verdicts[k][Len(verdicts[k])].at \in Nat
    <3>1. PICK n \in Nat : n = Len(verdicts[k]) /\ \A i \in 1..n : verdicts[k][i].at \in Nat
      BY <2>2, ExplainedTypes
    <3>2. n > 0 => n \in 1..n
      OBVIOUS
    <3> QED BY <3>1, <3>2
  <2>5. Represented(verdicts[k], limits[k], st, ct, clock) /\ clock' = clock + 1 /\ Retention \in Nat
    BY <1>1, <2>1, LimitsAreOrdered DEF Windows, Limiting!LimitsAreOrdered
  <2>4. Represented(verdicts[k], limits[k], st, ct, clock')
    <3>1. PICK next : next = clock' /\ next = clock + 1
      BY <2>5
    <3>2. PICK v, row : v = verdicts[k] /\ row = limits[k]
      OBVIOUS
    <3>3. /\ Len(v) > 0 => v[Len(v)].at \in Nat /\ v[Len(v)].at <= clock
          /\ row = None /\ Len(v) > 0 => v[Len(v)].at + Retention < clock
      BY <2>3, <2>5, <3>2 DEF Represented
    <3>4. /\ Len(v) > 0 => v[Len(v)].at <= next
          /\ row = None /\ Len(v) > 0 => v[Len(v)].at + Retention < next
      <4>1. clock \in Nat /\ Retention \in Nat /\ next = clock + 1
        BY <1>2, <2>5, <3>1
      <4>2. PICK last : last = v[Len(v)].at
        OBVIOUS
      <4>3. CASE Len(v) > 0
        <5>1. last \in Nat /\ last <= clock /\ (row = None => last + Retention < clock)
          BY <3>3, <4>2, <4>3
        <5>2. last <= next /\ (row = None => last + Retention < next)
          BY <4>1, <5>1
        <5> QED BY <4>2, <5>2
      <4> QED BY <4>3
    <3>5. Represented(v, row, st, ct, next)
      BY <2>5, <3>2, <3>4 DEF Represented
    <3> QED BY <3>1, <3>2, <3>5
  <2> QED BY <2>1, <2>4 DEF Windows
<1> QED BY <1>3, <1>4, <1>5, <1>6 DEF LimitsInvariant

\* Hence every step keeps the invariant of the rate limits.
LEMMA LimitsStep == LimitsInvariant /\ [Limiting!Next]_Limiting!vars => LimitsInvariant'
<1> SUFFICES ASSUME LimitsInvariant, [Limiting!Next]_Limiting!vars PROVE LimitsInvariant'
  OBVIOUS
<1>1. CASE UNCHANGED Limiting!vars
  BY <1>1 DEF Limiting!vars, LimitsInvariant, LimitsTyped, Serving, LocksHold, Limiting!Locked, Old, WindowsCount
<1> QED BY <1>1, RecordStep, CleanupStep, DeleteStep, LimitsCommitStep, AbortStep, LimitsTickStep DEF Limiting!Next

(***************************************************************************)
(* The rows of the limits and the requests are what the code allows.       *)
(***************************************************************************)
THEOREM LimitsTypeCorrect == Limiting!Spec => []Limiting!TypeOK
<1>1. LimitsInvariant => Limiting!TypeOK
  BY DEF LimitsInvariant, LimitsTyped, Limiting!TypeOK, Submission, Verdict
<1> QED BY <1>1, LimitsInit, LimitsStep, PTL DEF Limiting!Spec

(***************************************************************************)
(* No stretch of a window's length admits more than Limit - 2 submissions  *)
(* of one window and Limit - 1 of the next (RecordAuthenticationAttempt),  *)
(* with any number of addresses and requests, cleanups at any time and     *)
(* deletions of dormant rows.                                              *)
(***************************************************************************)
THEOREM AdmissionsStayBounded == Limiting!Spec => []AdmissionsAreBounded
<1>1. LimitsInvariant => AdmissionsAreBounded
  <2> SUFFICES ASSUME LimitsInvariant, NEW k \in Keys, NEW last \in 1..MaxTime
               PROVE  Cardinality({i \in Limiting!Within(k, last, Window) : ~verdicts[k][i].blocked})
                        <= (Limit - 2) + (Limit - 1)
    BY SameCardinality DEF AdmissionsAreBounded, Limiting!AdmissionsAreBounded
  <2>1. PICK st \in [Nat -> Nat], ct \in [Nat -> Nat] : Windows(verdicts[k], limits[k], st, ct, clock)
    BY DEF LimitsInvariant, WindowsCount
  <2>2. Explained(verdicts[k], limits[k], st, ct, clock)
    BY <2>1 DEF Explained, LimitsInvariant, LimitsTyped
  <2>3. {i \in Limiting!Within(k, last, Window) : ~verdicts[k][i].blocked} = Admitted(verdicts[k], last)
    BY DEF Limiting!Within, Admitted
  <2>4. last \in Nat
    BY LimitsAreOrdered DEF Limiting!LimitsAreOrdered
  <2> QED BY <2>2, <2>3, <2>4, FewAreAdmitted
<1> QED BY <1>1, LimitsInit, LimitsStep, PTL DEF Limiting!Spec

(***************************************************************************)
(* Whoever is turned away has submitted Limit times within a window, less  *)
(* than a block before.                                                    *)
(***************************************************************************)
THEOREM RejectionsStayEarned == Limiting!Spec => []RejectionsAreEarned
<1>1. LimitsInvariant => RejectionsAreEarned
  <2> SUFFICES ASSUME LimitsInvariant, NEW k \in Keys, NEW i \in DOMAIN verdicts[k],
                      verdicts[k][i].blocked
               PROVE  \E j \in 1..i :
                        /\ verdicts[k][j].at + Block > verdicts[k][i].at
                        /\ Cardinality({h \in Limiting!Within(k, verdicts[k][j].at, Window) : h <= j}) >= Limit
    BY SameCardinality DEF RejectionsAreEarned, Limiting!RejectionsAreEarned
  <2>1. PICK st \in [Nat -> Nat], ct \in [Nat -> Nat] : Windows(verdicts[k], limits[k], st, ct, clock)
    BY DEF LimitsInvariant, WindowsCount
  <2>5. verdicts[k] \in Seq(Verdict)
    BY DEF LimitsInvariant, LimitsTyped
  <2>2. Explained(verdicts[k], limits[k], st, ct, clock)
    BY <2>1, <2>5 DEF Explained
  <2>6. PICK v : v = verdicts[k]
    OBVIOUS
  <2>7. v \in Seq(Verdict) /\ i \in DOMAIN v /\ v[i].blocked /\ Explained(v, limits[k], st, ct, clock)
    BY <2>2, <2>5, <2>6
  <2>8. i \in 1..Len(v)
    <3>1. \A w \in Seq(Verdict) : DOMAIN w = 1..Len(w)
      OBVIOUS
    <3> QED BY <2>7, <3>1
  <2>3. PICK j \in 1..i :
        v[j].at + Block > v[i].at /\ Cardinality(UpTo(v, j)) >= Limit
    BY <2>7, <2>8, RejectedForALimit
  <2>4. {h \in Limiting!Within(k, v[j].at, Window) : h <= j} = UpTo(v, j)
    BY <2>6 DEF Limiting!Within, UpTo
  <2> QED BY <2>3, <2>4, <2>6
<1> QED BY <1>1, LimitsInit, LimitsStep, PTL DEF Limiting!Spec

(***************************************************************************)
(* A submission fails for a deadlock with a cleanup only when the cleanup  *)
(* has found two addresses dormant for longer than the retention.          *)
(***************************************************************************)
THEOREM FailuresStayDormant == Limiting!Spec => []FailuresNeedDormancy
<1> DEFINE I == LimitsInvariant /\ FailuresNeedDormancy
<1>1. Limiting!Init => I
  BY LimitsInit DEF Limiting!Init, FailuresNeedDormancy, Limiting!FailuresNeedDormancy
<1>2. I /\ [Limiting!Next]_Limiting!vars => I'
  <2> SUFFICES ASSUME LimitsInvariant, FailuresNeedDormancy, [Limiting!Next]_Limiting!vars PROVE FailuresNeedDormancy'
    BY LimitsStep
  <2>1. ASSUME NEW r \in Requests, Limiting!DeadlockAborted(r) PROVE FailuresNeedDormancy'
    <3>1. failures' = failures \cup {[at |-> clock, old |-> Old]} /\ \E k, l \in Old : k # l
      BY <2>1, AbortStep
    <3> QED BY <3>1 DEF FailuresNeedDormancy, Limiting!FailuresNeedDormancy
  <2>2. CASE UNCHANGED failures
    BY <2>2 DEF FailuresNeedDormancy, Limiting!FailuresNeedDormancy
  <2>3. (\E r \in Requests : Limiting!DeadlockAborted(r)) \/ UNCHANGED failures
    BY DEF Limiting!Next, Limiting!vars, Limiting!Record, Limiting!DeleteRow, Limiting!StartCleanup, Limiting!Commit, Limiting!Tick
  <2> QED BY <2>1, <2>2, <2>3
<1> QED BY <1>1, <1>2, PTL DEF Limiting!Spec
--------------------------------------------------------------------------------
(***************************************************************************)
(* The connections of remote clients. A code or token is deleted by one    *)
(* request, while it is there, and a request inserts a refresh token only  *)
(* after it has deleted the credential that it came with: so there is one  *)
(* at a time. Alone, requests delete what has expired, connections with    *)
(* nothing but expired tokens, and what they were asked to.                *)
(***************************************************************************)

\* The statements of a request of this kind.
Statements(kind) ==
  CASE kind = "exchange"  -> {"consume", "expired", "orphans", "connect", "access", "refresh", "insert"}
    [] kind = "renew"     -> {"expired", "orphans", "rotate", "insert"}
    [] kind = "authorize" -> {"expired", "orphans", "issue"}
    [] kind = "list"      -> {"expired", "orphans"}
    [] OTHER              -> {kind}

AllStatements == Connecting!Deleting \cup {"connect", "insert", "issue"}

\* What is left of them: tokens are inserted last.
Left(kind, left) ==
  /\ left \in Seq(Statements(kind))
  /\ \A i \in 1..Len(left) : left[i] = "insert" => i = Len(left)
  /\ kind \in Connecting!Transactional /\ left # <<>> => left[Len(left)] = "insert"

Spent(left) == \A i \in 1..Len(left) : left[i] \notin {"consume", "rotate"}

Exchange ==
  [kind : Connecting!RequestKinds \cup {"none"}, left : Seq(AllStatements), row : Connecting!RowsOfTables \cup {None},
   connection : Connecting!In("connections", Connecting!RowsOfTables) \cup {None}, picked : BOOLEAN,
   wanted : SUBSET Connecting!RowsOfTables, added : SUBSET Connecting!RowsOfTables, deleted : SUBSET Connecting!RowsOfTables]

Credential(r) == r.table \in {"codes", "refresh"}

\* What the request names.
Names(kind, row) ==
  /\ kind \in Connecting!Transactional => row \in Connecting!RowsOfTables /\ Credential(row)
  /\ kind = "renew"         => row.table = "refresh"
  /\ kind = "authorize"     => row \in Connecting!In("codes", Connecting!RowsOfTables)
  /\ kind = "list"          => row = None
  /\ kind = "revoke"        => row \in Connecting!RowsOfTables /\ row.table \in {"access", "refresh"}
  /\ kind = "disconnect"    => row \in Connecting!In("connections", Connecting!RowsOfTables)

\* A request has consumed its code or token before it has a new one.
Serves(x) ==
  /\ Left(x.kind, x.left) /\ Names(x.kind, x.row)
  /\ x.kind \in Connecting!Transactional /\ Spent(x.left) => x.row \in x.deleted
  /\ \A r \in x.added : r.table # "codes"
  /\ \A r \in Connecting!In("refresh", x.added) : x.left = <<>> /\ x.kind \in Connecting!Transactional /\ r.grant = x.row.grant
  /\ \A r, q \in Connecting!In("refresh", x.added) : r = q
  /\ x.kind = "exchange" \/ x.added = {} \/ (x.kind = "renew" /\ x.left = <<>>)
  /\ x.picked => x.left # <<>> /\ Head(x.left) \in Connecting!Deleting
  /\ ~x.picked => x.wanted = {} /\ (x.kind \in Connecting!Transactional \/ x.deleted = {})

\* A row is deleted by one request, while it is there.
DeletionsExclude ==
  \A t \in Transactions :
    /\ exchanges[t].deleted \subseteq rows
    /\ \A o \in Transactions \ {t} : exchanges[t].deleted \cap exchanges[o].deleted = {}

\* A grant has one code or refresh token, and none as long as it is unused.
OneCredential ==
  /\ \A r, q \in rows : Credential(r) /\ Credential(q) /\ r.grant = q.grant => r = q
  /\ \A r \in rows : Credential(r) => history[r.grant] # "unused"

ConnectionsTyped ==
  /\ rows \subseteq Connecting!RowsOfTables /\ expired \subseteq rows /\ Connecting!In("connections", expired) = {}
  /\ issued \in 0..MaxIssued /\ alone \in BOOLEAN
  /\ history \in [Grants -> {"unused", "issued", "granted", "ended", "replaced"}]
  /\ exchanges \in [Transactions -> Exchange]
  /\ \A r \in rows : r.id <= issued
  /\ \A t \in Transactions : \A r \in exchanges[t].added : r.id <= issued

\* What a sweep of a request that names `row` may find, and a rotation.
Loose(row, rs, ex) ==
  ex \cup {row} \cup {c \in Connecting!In("connections", rs) : Connecting!TokensOf(c, rs) \subseteq ex \cup {row}}

\* Alone, a request deletes what is loose, unless it is to end the grant, and
\* the exchanged or renewed grant has its token and its connection.
Calm(x, rs, ex) ==
  /\ x.kind = "revoke" => x.wanted \subseteq {x.row} /\ x.deleted \subseteq {x.row}
  /\ x.kind \notin {"exchange", "disconnect", "revoke"} =>
       x.wanted \subseteq Loose(x.row, rs, ex) /\ x.deleted \subseteq Loose(x.row, rs, ex)
  /\ x.kind = "disconnect" =>
       /\ x.wanted \subseteq {x.row} \cup Connecting!TokensOf(x.row, rs)
       /\ x.deleted \subseteq {x.row} \cup Connecting!TokensOf(x.row, rs)
       /\ x.row \in x.deleted => Connecting!TokensOf(x.row, rs) \subseteq x.wanted \cup x.deleted
  /\ x.kind \in Connecting!Transactional /\ x.left = <<>> =>
       \E r \in Connecting!In("refresh", x.added) :
         /\ r.grant = x.row.grant /\ r \notin rs
         /\ Connecting!Connection(r.connection) \in (rs \ x.deleted) \cup x.added

Endures(g) ==
  \E r \in Connecting!In("refresh", rows \ expired) : r.grant = g /\ Connecting!Connection(r.connection) \in rows

GrantsLast ==
  alone =>
    /\ \A t, o \in Transactions : exchanges[t] # Connecting!Idle /\ exchanges[o] # Connecting!Idle => t = o
    /\ \A g \in Grants : history[g] = "granted" => Endures(g)
    /\ \A t \in Transactions : Calm(exchanges[t], rows, expired)

ConnectionsInvariant ==
  /\ ConnectionsTyped
  /\ \A t \in Transactions : Serves(exchanges[t])
  /\ DeletionsExclude /\ OneCredential /\ GrantsLast

--------------------------------------------------------------------------------
\* Connecting has the definition of Cardinality that is extended here.
LEMMA ConnectionsCardinality == ASSUME NEW S PROVE Connecting!Cardinality(S) = Cardinality(S)
BY DEF Connecting!Cardinality, Cardinality

\* The rows of the tables.
LEMMA RowsAre ==
  /\ \A r \in Connecting!RowsOfTables :
       /\ r.table \in {"codes", "connections", "access", "refresh"} /\ r.grant \in Grants /\ r.id \in Nat
       /\ r.table = "codes" => r = Connecting!Code(r.grant) /\ r.connection = None
       /\ r.table = "connections" => r = Connecting!Connection(r.grant) /\ r.connection = r.grant
       /\ r.table \in {"access", "refresh"} => r.connection \in Grants
  /\ \A g \in Grants : Connecting!Code(g) \in Connecting!RowsOfTables /\ Connecting!Connection(g) \in Connecting!RowsOfTables
  /\ \A g, c \in Grants : \A n \in 1..MaxIssued : Connecting!Pair(g, n, c) \subseteq Connecting!RowsOfTables
<1>1. ASSUME NEW r \in Connecting!RowsOfTables
      PROVE  /\ r.table \in {"codes", "connections", "access", "refresh"} /\ r.grant \in Grants /\ r.id \in Nat
             /\ r.table = "codes" => r = Connecting!Code(r.grant) /\ r.connection = None
             /\ r.table = "connections" => r = Connecting!Connection(r.grant) /\ r.connection = r.grant
             /\ r.table \in {"access", "refresh"} => r.connection \in Grants
  <2>1. CASE \E g \in Grants : r = Connecting!Code(g) \/ r = Connecting!Connection(g)
    BY <2>1 DEF Connecting!Code, Connecting!Connection
  <2>2. CASE \E g, c \in Grants : \E n \in 1..MaxIssued : r \in Connecting!Pair(g, n, c)
    BY <2>2, KindsAreRequests DEF Connecting!Pair, Connecting!KindsAreRequests
  <2> QED BY <2>1, <2>2 DEF Connecting!RowsOfTables
<1>2. \A g \in Grants : Connecting!Code(g) \in Connecting!RowsOfTables /\ Connecting!Connection(g) \in Connecting!RowsOfTables
  BY DEF Connecting!RowsOfTables
<1>3. \A g, c \in Grants : \A n \in 1..MaxIssued : Connecting!Pair(g, n, c) \subseteq Connecting!RowsOfTables
  BY DEF Connecting!RowsOfTables
<1> QED BY <1>1, <1>2, <1>3

\* The fields of codes and connections.
LEMMA CodesAndConnections ==
  ASSUME NEW g
  PROVE  /\ Connecting!Code(g).table = "codes" /\ Connecting!Code(g).grant = g /\ Connecting!Code(g).id = 0
         /\ Connecting!Connection(g).table = "connections" /\ Connecting!Connection(g).grant = g /\ Connecting!Connection(g).id = 0
         /\ Connecting!Connection(g).connection = g
BY DEF Connecting!Code, Connecting!Connection

\* The statements of the programs, in their order.
LEMMA Programs ==
  ASSUME NEW kind \in Connecting!RequestKinds
  PROVE  /\ Left(kind, Connecting!Program(kind)) /\ Connecting!Program(kind) \in Seq(AllStatements)
         /\ kind \in Connecting!Transactional => ~Spent(Connecting!Program(kind))
<1>1. CASE kind = "exchange"
  <2>1. Connecting!Program(kind) = <<"consume">> \o <<"expired", "orphans">> \o <<"connect", "access", "refresh", "insert">>
    BY <1>1 DEF Connecting!Program, Connecting!Sweep
  <2>2. PICK p : p = <<"consume">> \o <<"expired", "orphans">> \o <<"connect", "access", "refresh", "insert">>
    OBVIOUS
  <2>3. Len(p) = 7 /\ p[1] = "consume" /\ p[2] = "expired" /\ p[3] = "orphans" /\ p[4] = "connect" /\ p[5] = "access" /\ p[6] = "refresh" /\ p[7] = "insert"
    BY <2>2
  <2>4. p \in Seq({"consume", "expired", "orphans", "connect", "access", "refresh", "insert"})
    BY <2>2
  <2>8. p \in Seq(AllStatements)
    BY <2>4 DEF AllStatements, Connecting!Deleting
  <2>5. Statements(kind) = {"consume", "expired", "orphans", "connect", "access", "refresh", "insert"} /\ kind \in Connecting!Transactional
    BY <1>1 DEF Statements, Connecting!Transactional
  <2>6. Left(kind, p)
    BY <2>3, <2>4, <2>5 DEF Left
  <2>7. ~Spent(p)
    BY <2>3 DEF Spent
  <2> QED BY <2>1, <2>2, <2>4, <2>5, <2>6, <2>8, <2>7
<1>2. CASE kind = "renew"
  <2>1. Connecting!Program(kind) = <<"expired", "orphans">> \o <<"rotate", "insert">>
    BY <1>2 DEF Connecting!Program, Connecting!Sweep
  <2>2. PICK p : p = <<"expired", "orphans">> \o <<"rotate", "insert">>
    OBVIOUS
  <2>3. Len(p) = 4 /\ p[1] = "expired" /\ p[2] = "orphans" /\ p[3] = "rotate" /\ p[4] = "insert"
    BY <2>2
  <2>4. p \in Seq({"expired", "orphans", "rotate", "insert"})
    BY <2>2
  <2>8. p \in Seq(AllStatements)
    BY <2>4 DEF AllStatements, Connecting!Deleting
  <2>5. Statements(kind) = {"expired", "orphans", "rotate", "insert"} /\ kind \in Connecting!Transactional
    BY <1>2 DEF Statements, Connecting!Transactional
  <2>6. Left(kind, p)
    BY <2>3, <2>4, <2>5 DEF Left
  <2>7. ~Spent(p)
    BY <2>3 DEF Spent
  <2> QED BY <2>1, <2>2, <2>4, <2>5, <2>6, <2>8, <2>7
<1>3. CASE kind = "authorize"
  <2>1. Connecting!Program(kind) = <<"expired", "orphans">> \o <<"issue">>
    BY <1>3 DEF Connecting!Program, Connecting!Sweep
  <2>2. PICK p : p = <<"expired", "orphans">> \o <<"issue">>
    OBVIOUS
  <2>3. Len(p) = 3 /\ p[1] = "expired" /\ p[2] = "orphans" /\ p[3] = "issue"
    BY <2>2
  <2>4. p \in Seq({"expired", "orphans", "issue"})
    BY <2>2
  <2>8. p \in Seq(AllStatements)
    BY <2>4 DEF AllStatements, Connecting!Deleting
  <2>5. Statements(kind) = {"expired", "orphans", "issue"} /\ kind \notin Connecting!Transactional
    BY <1>3 DEF Statements, Connecting!Transactional
  <2>6. Left(kind, p)
    BY <2>3, <2>4, <2>5 DEF Left
  <2> QED BY <2>1, <2>2, <2>4, <2>5, <2>6, <2>8
<1>4. CASE kind = "list"
  <2>1. Connecting!Program(kind) = <<"expired", "orphans">>
    BY <1>4 DEF Connecting!Program, Connecting!Sweep
  <2>2. PICK p : p = <<"expired", "orphans">>
    OBVIOUS
  <2>3. Len(p) = 2 /\ p[1] = "expired" /\ p[2] = "orphans"
    BY <2>2
  <2>4. p \in Seq({"expired", "orphans"})
    BY <2>2
  <2>8. p \in Seq(AllStatements)
    BY <2>4 DEF AllStatements, Connecting!Deleting
  <2>5. Statements(kind) = {"expired", "orphans"} /\ kind \notin Connecting!Transactional
    BY <1>4 DEF Statements, Connecting!Transactional
  <2>6. Left(kind, p)
    BY <2>3, <2>4, <2>5 DEF Left
  <2> QED BY <2>1, <2>2, <2>4, <2>5, <2>6, <2>8
<1>5. CASE kind \in {"revoke", "disconnect"}
  <2>1. Connecting!Program(kind) = <<kind>> /\ Statements(kind) = {kind} /\ kind \notin Connecting!Transactional
    BY <1>5 DEF Connecting!Program, Statements, Connecting!Transactional
  <2>2. PICK p : p = <<kind>>
    OBVIOUS
  <2>3. Len(p) = 1 /\ p[1] = kind /\ p \in Seq({kind}) /\ kind \in AllStatements
    BY <1>5, <2>2 DEF AllStatements, Connecting!Deleting
  <2>4. p \in Seq(AllStatements)
    BY <2>3
  <2>5. Left(kind, p)
    BY <2>1, <2>3 DEF Left
  <2> QED BY <2>1, <2>2, <2>4, <2>5
<1> QED BY <1>1, <1>2, <1>3, <1>4, <1>5 DEF Connecting!RequestKinds

\* Going on to the next statement.
LEMMA NextStatement ==
  ASSUME NEW kind \in Connecting!RequestKinds \cup {"none"}, NEW left \in Seq(AllStatements), Left(kind, left), left # <<>>
  PROVE  /\ Left(kind, Tail(left)) /\ Tail(left) \in Seq(AllStatements)
         /\ Head(left) \notin {"consume", "rotate"} /\ Spent(Tail(left)) => Spent(left)
         /\ kind \in Connecting!Transactional /\ Head(left) # "insert" => Tail(left) # <<>>
         /\ Head(left) = "insert" => Tail(left) = <<>> /\ Spent(left)
         /\ Head(left) \in Statements(kind)
<1>1. left \in Seq(Statements(kind)) /\ Len(left) \in Nat /\ Len(left) > 0
  BY DEF Left
<1>2. PICK n, rest : n = Len(left) /\ rest = Tail(left)
  OBVIOUS
<1>3. /\ rest \in Seq(Statements(kind)) /\ rest \in Seq(AllStatements)
      /\ n \in Nat /\ n > 0 /\ Len(rest) = n - 1
      /\ Head(left) = left[1] /\ Head(left) \in Statements(kind)
      /\ \A i \in 1..n - 1 : rest[i] = left[i + 1]
  BY <1>1, <1>2
<1>4. /\ \A i \in 1..n : left[i] = "insert" => i = n
      /\ kind \in Connecting!Transactional => left[n] = "insert"
  BY <1>2 DEF Left
<1>5. rest = <<>> <=> n = 1
  <2>1. rest = <<>> => Len(rest) = 0
    OBVIOUS
  <2>2. Len(rest) = 0 => rest = <<>>
    BY <1>3
  <2> QED BY <1>3, <2>1, <2>2
<1>6. Left(kind, rest)
  <2>1. ASSUME NEW i \in 1..n - 1, rest[i] = "insert" PROVE i = n - 1
    <3>1. i + 1 \in 1..n /\ left[i + 1] = "insert"
      BY <1>3, <2>1
    <3>2. i + 1 = n
      BY <1>4, <3>1
    <3> QED BY <1>3, <3>2
  <2>2. kind \in Connecting!Transactional /\ n # 1 => rest[n - 1] = "insert"
    BY <1>3, <1>4
  <2> QED BY <1>3, <1>5, <2>1, <2>2 DEF Left
<1>7. Head(left) \notin {"consume", "rotate"} /\ Spent(rest) => Spent(left)
  <2>1. \A i \in 1..n : i = 1 \/ (i - 1 \in 1..n - 1 /\ left[i] = rest[i - 1])
    BY <1>3
  <2> QED BY <1>2, <1>3, <2>1 DEF Spent
<1>8. Head(left) = "insert" => n = 1 /\ Spent(left)
  <2>1. Head(left) = "insert" => n = 1
    BY <1>3, <1>4
  <2> QED BY <1>2, <1>3, <2>1 DEF Spent
<1>9. kind \in Connecting!Transactional /\ Head(left) # "insert" => n # 1
  BY <1>3, <1>4
<1> QED BY <1>2, <1>3, <1>5, <1>6, <1>7, <1>8, <1>9

\* A request that has ended is idle.
LEMMA IdleServes ==
  /\ Connecting!Idle \in Exchange /\ Serves(Connecting!Idle) /\ \A rs, ex : Calm(Connecting!Idle, rs, ex)
  /\ Connecting!Idle.added = {} /\ Connecting!Idle.deleted = {} /\ Connecting!Idle.left = <<>>
<1>1. /\ Connecting!Idle.kind = "none" /\ Connecting!Idle.left = <<>> /\ Connecting!Idle.row = None /\ Connecting!Idle.connection = None
      /\ Connecting!Idle.picked = FALSE /\ Connecting!Idle.wanted = {} /\ Connecting!Idle.added = {} /\ Connecting!Idle.deleted = {}
      /\ Connecting!Idle \in Exchange
  BY DEF Connecting!Idle, Exchange
<1>2. "none" \notin Connecting!Transactional /\ "none" \notin Connecting!RequestKinds
  BY DEF Connecting!Transactional, Connecting!RequestKinds
<1>3. Left("none", <<>>)
  BY DEF Left
<1>4. Names("none", None)
  BY <1>2 DEF Names
<1>5. Serves(Connecting!Idle)
  BY <1>1, <1>2, <1>3, <1>4 DEF Serves, Connecting!In
<1>6. \A rs, ex : Calm(Connecting!Idle, rs, ex)
  BY <1>1, <1>2 DEF Calm
<1> QED BY <1>1, <1>5, <1>6

\* The invariant of the connections, initially.
LEMMA ConnectionsInit == Connecting!Init => ConnectionsInvariant
<1> SUFFICES ASSUME Connecting!Init PROVE ConnectionsInvariant
  OBVIOUS
<1>1. MaxIssued \in Nat
  BY KindsAreRequests DEF Connecting!KindsAreRequests
<1>2. \A t \in Transactions : exchanges[t] = Connecting!Idle
  BY DEF Connecting!Init
<1>3. ConnectionsTyped
  BY <1>1, <1>2, IdleServes DEF Connecting!Init, ConnectionsTyped, Connecting!In
<1>4. \A t \in Transactions : Serves(exchanges[t])
  BY <1>2, IdleServes
<1>5. DeletionsExclude /\ OneCredential
  BY <1>2, IdleServes DEF Connecting!Init, DeletionsExclude, OneCredential
<1>6. GrantsLast
  <2>1. \A g \in Grants : history[g] # "granted"
    BY DEF Connecting!Init
  <2> QED BY <1>2, <2>1, IdleServes DEF GrantsLast
<1> QED BY <1>3, <1>4, <1>5, <1>6 DEF ConnectionsInvariant

\* A step of the request t that commits nothing.
LEMMA OpenStep ==
  ASSUME ConnectionsInvariant, NEW t \in Transactions, NEW y \in Exchange,
         exchanges' = [exchanges EXCEPT ![t] = y], UNCHANGED <<rows, expired, history>>,
         issued' \in issued..MaxIssued, Serves(y), \A r \in y.added : r.id <= issued',
         y.deleted \subseteq rows,
         \A o \in Transactions \ {t} : y.deleted \cap exchanges[o].deleted = {},
         alone' \in BOOLEAN,
         alone' => alone /\ (y = Connecting!Idle \/ \A o \in Transactions \ {t} : exchanges[o] = Connecting!Idle) /\ Calm(y, rows, expired)
  PROVE  ConnectionsInvariant'
<1> USE DEF ConnectionsInvariant
<1>1. exchanges'[t] = y /\ \A o \in Transactions \ {t} : exchanges'[o] = exchanges[o]
  BY DEF ConnectionsTyped
<1>2. ConnectionsTyped'
  <2>1. issued \in Nat /\ issued' \in 0..MaxIssued /\ issued <= issued'
    BY KindsAreRequests DEF ConnectionsTyped, Connecting!KindsAreRequests
  <2>2. exchanges' \in [Transactions -> Exchange]
    BY DEF ConnectionsTyped
  <2>3. \A r \in Connecting!RowsOfTables : r.id \in Nat
    BY RowsAre
  <2>4. \A r \in rows : r.id <= issued'
    BY <2>1, <2>3 DEF ConnectionsTyped
  <2>5. \A o \in Transactions \ {t} : \A r \in exchanges[o].added : r.id <= issued'
    <3>1. \A o \in Transactions \ {t} : \A r \in exchanges[o].added : r.id \in Nat /\ r.id <= issued
      BY <2>3 DEF ConnectionsTyped, Exchange
    <3> QED BY <2>1, <3>1
  <2> QED BY <1>1, <2>1, <2>2, <2>4, <2>5 DEF ConnectionsTyped
<1>3. \A o \in Transactions : Serves(exchanges'[o])
  BY <1>1
<1>4. DeletionsExclude'
  BY <1>1 DEF DeletionsExclude
<1>5. OneCredential'
  BY DEF OneCredential
<1>6. GrantsLast'
  <2> SUFFICES ASSUME alone' PROVE GrantsLast'
    BY DEF GrantsLast
  <2>1. \A g \in Grants : history'[g] = "granted" => Endures(g)'
    BY DEF GrantsLast, Endures
  <2>2. \A o \in Transactions : Calm(exchanges'[o], rows', expired')
    BY <1>1 DEF GrantsLast
  <2>3. \A o, p \in Transactions : exchanges'[o] # Connecting!Idle /\ exchanges'[p] # Connecting!Idle => o = p
    BY <1>1 DEF GrantsLast
  <2> QED BY <2>1, <2>2, <2>3 DEF GrantsLast
<1> QED BY <1>2, <1>3, <1>4, <1>5, <1>6

\* A step of the request t that commits what it has deleted, and the rows `new`.
LEMMA CommittedStep ==
  ASSUME ConnectionsInvariant, NEW t \in Transactions, exchanges[t] # Connecting!Idle, NEW y \in Exchange,
         NEW new \in SUBSET Connecting!RowsOfTables,
         exchanges' = [exchanges EXCEPT ![t] = y], rows' = (rows \ exchanges[t].deleted) \cup new,
         expired' = expired \cap rows', UNCHANGED <<issued, alone>>,
         history' \in [Grants -> {"unused", "issued", "granted", "ended", "replaced"}],
         \A r \in new : r.id <= issued,
         Serves(y), y.deleted = {}, y.wanted = {}, y.added = {},
         y.kind \in Connecting!Transactional => y.left # <<>>,
         OneCredential',
         alone => \A g \in Grants : history'[g] = "granted" => Endures(g)'
  PROVE  ConnectionsInvariant'
<1> USE DEF ConnectionsInvariant
<1>1. exchanges'[t] = y /\ \A o \in Transactions \ {t} : exchanges'[o] = exchanges[o]
  BY DEF ConnectionsTyped
<1>2. ConnectionsTyped'
  <2>1. rows' \subseteq Connecting!RowsOfTables /\ expired' \subseteq rows' /\ Connecting!In("connections", expired') = {}
    BY DEF ConnectionsTyped, Connecting!In
  <2>2. exchanges' \in [Transactions -> Exchange]
    BY DEF ConnectionsTyped
  <2>3. \A r \in rows' : r.id <= issued
    BY DEF ConnectionsTyped
  <2>4. \A o \in Transactions : \A r \in exchanges'[o].added : r.id <= issued
    BY <1>1 DEF ConnectionsTyped
  <2> QED BY <2>1, <2>2, <2>3, <2>4 DEF ConnectionsTyped
<1>3. \A o \in Transactions : Serves(exchanges'[o])
  BY <1>1
<1>4. DeletionsExclude'
  <2>1. \A o \in Transactions \ {t} : exchanges[o].deleted \subseteq rows'
    BY DEF DeletionsExclude
  <2> QED BY <1>1, <2>1 DEF DeletionsExclude
<1>6. GrantsLast'
  <2> SUFFICES ASSUME alone PROVE GrantsLast'
    BY DEF GrantsLast
  <2>1. \A o \in Transactions \ {t} : exchanges[o] = Connecting!Idle
    BY DEF GrantsLast
  <2>2. Calm(y, rows', expired')
    BY DEF Calm
  <2>3. \A o \in Transactions : Calm(exchanges'[o], rows', expired')
    BY <1>1, <2>1, <2>2, IdleServes
  <2>4. \A o, p \in Transactions : exchanges'[o] # Connecting!Idle /\ exchanges'[p] # Connecting!Idle => o = p
    BY <1>1, <2>1
  <2> QED BY <2>3, <2>4 DEF GrantsLast
<1> QED BY <1>2, <1>3, <1>4, <1>6

\* What the fields of a request are.
LEMMA RequestFields ==
  ASSUME ConnectionsInvariant, NEW t \in Transactions
  PROVE  /\ exchanges[t] \in Exchange /\ Serves(exchanges[t]) /\ rows \subseteq Connecting!RowsOfTables
         /\ exchanges[t].kind \in Connecting!RequestKinds \cup {"none"} /\ exchanges[t].left \in Seq(AllStatements)
         /\ exchanges[t].deleted \subseteq rows
         /\ exchanges[t].added \subseteq Connecting!RowsOfTables /\ exchanges[t].wanted \subseteq Connecting!RowsOfTables
         /\ Connecting!View(t) \subseteq Connecting!RowsOfTables
         /\ \A o \in Transactions \ {t} : exchanges[t].deleted \cap exchanges[o].deleted = {}
         /\ issued \in Nat /\ issued \in issued..MaxIssued /\ alone \in BOOLEAN
         /\ \A r \in exchanges[t].added : r.id <= issued
         /\ alone => Calm(exchanges[t], rows, expired)
         /\ alone /\ exchanges[t] # Connecting!Idle => \A o \in Transactions \ {t} : exchanges[o] = Connecting!Idle
<1>1. exchanges[t] \in Exchange /\ Serves(exchanges[t]) /\ rows \subseteq Connecting!RowsOfTables
  BY DEF ConnectionsInvariant, ConnectionsTyped
<1>2. /\ exchanges[t].kind \in Connecting!RequestKinds \cup {"none"} /\ exchanges[t].left \in Seq(AllStatements)
      /\ exchanges[t].added \subseteq Connecting!RowsOfTables /\ exchanges[t].wanted \subseteq Connecting!RowsOfTables
  BY <1>1 DEF Exchange
<1>3. issued \in Nat /\ issued \in issued..MaxIssued /\ alone \in BOOLEAN
  BY KindsAreRequests DEF ConnectionsInvariant, ConnectionsTyped, Connecting!KindsAreRequests
<1>4. /\ exchanges[t].deleted \subseteq rows
      /\ \A o \in Transactions \ {t} : exchanges[t].deleted \cap exchanges[o].deleted = {}
  BY DEF ConnectionsInvariant, DeletionsExclude
<1>5. \A r \in exchanges[t].added : r.id <= issued
  BY DEF ConnectionsInvariant, ConnectionsTyped
<1>6. /\ alone => Calm(exchanges[t], rows, expired)
      /\ alone /\ exchanges[t] # Connecting!Idle => \A o \in Transactions \ {t} : exchanges[o] = Connecting!Idle
  BY DEF ConnectionsInvariant, GrantsLast
<1> QED BY <1>1, <1>2, <1>3, <1>4, <1>5, <1>6 DEF Connecting!View

\* A request arrives.
LEMMA BeginStep ==
  ASSUME ConnectionsInvariant, NEW t \in Transactions, NEW kind \in Asked, Connecting!Begin(t, kind)
  PROVE  ConnectionsInvariant'
<1>1. PICK r \in Connecting!Named(kind) :
        exchanges' = [exchanges EXCEPT ![t].kind = kind, ![t].left = Connecting!Program(kind), ![t].row = r]
  BY DEF Connecting!Begin
<1>2. PICK y : y = [Connecting!Idle EXCEPT !.kind = kind, !.left = Connecting!Program(kind), !.row = r]
  OBVIOUS
<1>3. kind \in Connecting!RequestKinds
  BY KindsAreRequests DEF Connecting!KindsAreRequests
<1>4. exchanges[t] = Connecting!Idle /\ exchanges' = [exchanges EXCEPT ![t] = y]
  BY <1>1, <1>2 DEF Connecting!Begin
<1>5. /\ y.kind = kind /\ y.left = Connecting!Program(kind) /\ y.row = r /\ y.connection = None
      /\ y.picked = FALSE /\ y.wanted = {} /\ y.added = {} /\ y.deleted = {}
  BY <1>2 DEF Connecting!Idle
<1>6. Names(kind, r) /\ r \in Connecting!RowsOfTables \cup {None}
  <2>1. kind = "exchange" => r \in Connecting!In("codes", Connecting!RowsOfTables)
    BY <1>1, RowsAre, CodesAndConnections DEF Connecting!Named, Connecting!In
  <2>2. kind = "authorize" => r \in Connecting!In("codes", Connecting!RowsOfTables)
    BY <1>1, RowsAre, CodesAndConnections DEF Connecting!Named, Connecting!In
  <2>3. kind = "renew" => r \in Connecting!In("refresh", Connecting!RowsOfTables)
    BY <1>1, RequestFields DEF Connecting!Named, Connecting!In
  <2>4. kind = "revoke" => r \in Connecting!RowsOfTables /\ r.table \in {"access", "refresh"}
    BY <1>1, RequestFields DEF Connecting!Named, Connecting!In
  <2>5. kind = "disconnect" => r \in Connecting!In("connections", Connecting!RowsOfTables)
    BY <1>1, RequestFields DEF Connecting!Named, Connecting!In
  <2>6. kind = "list" => r = None
    BY <1>1 DEF Connecting!Named
  <2> QED BY <1>3, <2>1, <2>2, <2>3, <2>4, <2>5, <2>6
          DEF Names, Connecting!In, Credential, Connecting!Transactional, Connecting!RequestKinds
<1>7. Left(kind, Connecting!Program(kind)) /\ Connecting!Program(kind) \in Seq(AllStatements)
      /\ (kind \in Connecting!Transactional => ~Spent(Connecting!Program(kind)) /\ Connecting!Program(kind) # <<>>)
  <2>1. Spent(<<>>)
    BY DEF Spent
  <2> QED BY <1>3, <2>1, Programs
<1>8. y \in Exchange
  <2>1. y.connection \in Connecting!In("connections", Connecting!RowsOfTables) \cup {None}
    BY <1>5
  <2>2. y = [kind |-> kind, left |-> Connecting!Program(kind), row |-> r, connection |-> None,
             picked |-> FALSE, wanted |-> {}, added |-> {}, deleted |-> {}]
    BY <1>2 DEF Connecting!Idle
  <2> QED BY <1>3, <1>6, <1>7, <2>2 DEF Exchange
<1>9. Serves(y)
  BY <1>5, <1>6, <1>7 DEF Serves, Connecting!In
<1>10. Calm(y, rows, expired)
  BY <1>5, <1>7 DEF Calm
<1>11. /\ UNCHANGED <<rows, expired, history, issued>>
       /\ alone' = (alone /\ Connecting!Others(t) = {})
  BY DEF Connecting!Begin
<1>12. alone' \in BOOLEAN /\ (alone' => alone /\ \A o \in Transactions \ {t} : exchanges[o] = Connecting!Idle)
  BY <1>11, RequestFields DEF Connecting!Others
<1> QED BY <1>4, <1>5, <1>8, <1>9, <1>10, <1>11, <1>12, RequestFields, OpenStep

\* The request is cut off.
LEMMA RollbackStep ==
  ASSUME ConnectionsInvariant, NEW t \in Transactions,
         exchanges' = [exchanges EXCEPT ![t] = Connecting!Idle], UNCHANGED <<rows, expired, issued, history, alone>>
  PROVE  ConnectionsInvariant'
BY IdleServes, RequestFields, OpenStep

\* What a sweep finds is loose, of a request that adds and exchanges nothing.
LEMMA TargetsAreLoose ==
  ASSUME ConnectionsInvariant, alone, NEW t \in Transactions,
         exchanges[t].kind \in {"renew", "authorize", "list"}, exchanges[t].left # <<>>, ~exchanges[t].picked,
         Connecting!Statement(t) \in Connecting!Deleting
  PROVE  Connecting!Targets(t) \subseteq Loose(exchanges[t].row, rows, expired)
<1>1. PICK x : x = exchanges[t]
  OBVIOUS
<1>2. x.deleted \subseteq Loose(x.row, rows, expired) /\ x.added = {}
  BY <1>1, RequestFields DEF Calm, Serves
<1>3. Connecting!View(t) = rows \ x.deleted
  BY <1>1, <1>2 DEF Connecting!View
<1>4. Connecting!Orphans(Connecting!View(t)) \subseteq Loose(x.row, rows, expired)
  <2> SUFFICES ASSUME NEW c \in Connecting!Orphans(Connecting!View(t)) PROVE c \in Loose(x.row, rows, expired)
    OBVIOUS
  <2>1. c \in Connecting!In("connections", rows) /\ Connecting!TokensOf(c, rows \ x.deleted) = {}
    BY <1>3 DEF Connecting!Orphans, Connecting!In
  <2>2. \A r \in Connecting!TokensOf(c, rows) : r \in x.deleted /\ r.table # "connections"
    <3>1. ASSUME NEW r \in Connecting!TokensOf(c, rows) PROVE r \in x.deleted
      BY <2>1, <3>1 DEF Connecting!TokensOf
    <3>2. ASSUME NEW r \in Connecting!TokensOf(c, rows), r.table = "connections" PROVE FALSE
      <4>1. r \in Connecting!RowsOfTables /\ c \in Connecting!RowsOfTables /\ c.table = "connections" /\ r # c
            /\ r.connection = c.connection
        BY <2>1, <3>2, RequestFields DEF Connecting!TokensOf, Connecting!In
      <4> QED BY <3>2, <4>1, RowsAre
    <3> QED BY <3>1, <3>2
  <2>3. Connecting!TokensOf(c, rows) \subseteq expired \cup {x.row}
    BY <1>2, <2>2 DEF Loose, Connecting!In
  <2> QED BY <2>1, <2>3 DEF Loose
<1>5. Connecting!Statement(t) \in {"expired", "orphans", "rotate", "issue", "insert"}
  <2>1. Connecting!Statement(t) \in Statements(x.kind)
    BY <1>1, RequestFields, NextStatement DEF Connecting!Statement, Serves
  <2> QED BY <1>1, <2>1 DEF Statements
<1>6. CASE Connecting!Statement(t) = "rotate"
  BY <1>1, <1>6 DEF Connecting!Targets, Loose
<1>7. CASE Connecting!Statement(t) = "expired"
  BY <1>1, <1>7 DEF Connecting!Targets, Loose
<1>8. CASE Connecting!Statement(t) = "orphans"
  BY <1>1, <1>4, <1>8 DEF Connecting!Targets
<1> QED BY <1>5, <1>6, <1>7, <1>8 DEF Connecting!Deleting

\* A deleting statement takes its snapshot.
LEMMA PickStep ==
  ASSUME ConnectionsInvariant, NEW t \in Transactions, Connecting!Pick(t)
  PROVE  ConnectionsInvariant'
<1>1. PICK x, y : x = exchanges[t] /\ y = [x EXCEPT !.picked = TRUE, !.wanted = Connecting!Targets(t)]
  OBVIOUS
<1>2. /\ exchanges' = [exchanges EXCEPT ![t] = y] /\ Connecting!Statement(t) \in Connecting!Deleting /\ ~x.picked
      /\ UNCHANGED <<rows, expired, issued, history, alone>>
  BY <1>1 DEF Connecting!Pick
<1>3. x \in Exchange /\ Serves(x)
  BY <1>1, RequestFields
<1>4. x.left # <<>> /\ Head(x.left) = Connecting!Statement(t)
  BY <1>1, <1>2 DEF Connecting!Statement, Connecting!Deleting
<1>5. Connecting!Statement(t) \in Statements(x.kind) /\ x.kind \in Connecting!RequestKinds \cup {"none"}
  BY <1>1, <1>3, <1>4, RequestFields, NextStatement DEF Serves
<1>6. Connecting!Targets(t) \subseteq Connecting!RowsOfTables
  <2>1. Connecting!View(t) \subseteq Connecting!RowsOfTables
    BY RequestFields
  <2> QED BY <1>2, <2>1 DEF Connecting!Targets, Connecting!Deleting, Connecting!Orphans, Connecting!In, Connecting!TokensOf
<1>7. /\ y \in Exchange /\ y.kind = x.kind /\ y.left = x.left /\ y.row = x.row /\ y.picked = TRUE
      /\ y.wanted = Connecting!Targets(t) /\ y.added = x.added /\ y.deleted = x.deleted
  BY <1>1, <1>3, <1>6 DEF Exchange
<1>8. Serves(y)
  BY <1>2, <1>3, <1>4, <1>7 DEF Serves
<1>9. ASSUME alone PROVE Calm(y, rows, expired)
  <2>1. Calm(x, rows, expired)
    BY <1>1, <1>9, RequestFields
  <2>6. CASE x.kind = "revoke"
    <3>1. Connecting!Targets(t) \subseteq {x.row}
      BY <1>1, <1>5, <2>6 DEF Statements, Connecting!Targets
    <3> QED BY <1>4, <1>7, <2>1, <2>6, <3>1 DEF Calm
  <2>2. CASE x.kind \in {"renew", "authorize", "list"}
    <3>1. Connecting!Targets(t) \subseteq Loose(x.row, rows, expired)
      BY <1>1, <1>2, <1>4, <1>9, <2>2, TargetsAreLoose
    <3> QED BY <1>4, <1>7, <2>1, <2>2, <3>1 DEF Calm
  <2>3. CASE x.kind = "disconnect"
    <3>1. x.deleted = {}
      BY <1>2, <1>3, <2>3 DEF Serves, Connecting!Transactional
    <3>2. Connecting!Targets(t) \subseteq {x.row}
      BY <1>1, <1>5, <2>3 DEF Statements, Connecting!Targets
    <3> QED BY <1>4, <1>7, <2>3, <3>1, <3>2 DEF Calm
  <2>4. CASE x.kind = "exchange"
    BY <1>4, <1>7, <2>4 DEF Calm
  <2>5. x.kind # "none"
    BY <1>2, <1>5 DEF Statements, Connecting!Deleting
  <2> QED BY <1>5, <2>2, <2>3, <2>4, <2>5, <2>6 DEF Connecting!RequestKinds
<1>11. exchanges[t] # Connecting!Idle
  BY <1>1, <1>4, IdleServes
<1>12. /\ \A r \in y.added : r.id <= issued'
       /\ y.deleted \subseteq rows /\ issued' \in issued..MaxIssued /\ alone' \in BOOLEAN
       /\ \A o \in Transactions \ {t} : y.deleted \cap exchanges[o].deleted = {}
       /\ alone' => \A o \in Transactions \ {t} : exchanges[o] = Connecting!Idle
  BY <1>1, <1>2, <1>7, <1>11, RequestFields
<1> QED BY <1>2, <1>7, <1>8, <1>9, <1>12, OpenStep

\* It deletes a row, and the tokens of a connection after it.
LEMMA DeleteRowStep ==
  ASSUME ConnectionsInvariant, NEW t \in Transactions, NEW r, Connecting!DeleteRow(t, r)
  PROVE  ConnectionsInvariant'
<1> DEFINE more == IF r \in Connecting!In("connections", rows) THEN Connecting!TokensOf(r, rows) \ exchanges[t].deleted ELSE {}
<1>1. PICK x, y : x = exchanges[t] /\ y = [x EXCEPT !.wanted = (@ \ {r}) \cup more,
                                              !.deleted = @ \cup ({r} \cap rows)]
  OBVIOUS
<1>2. /\ exchanges' = [exchanges EXCEPT ![t] = y] /\ r \in x.wanted /\ Connecting!CanDelete(t, r)
      /\ UNCHANGED <<rows, expired, issued, history, alone>>
  BY <1>1 DEF Connecting!DeleteRow
<1>3. x \in Exchange /\ Serves(x) /\ rows \subseteq Connecting!RowsOfTables
  BY <1>1, RequestFields
<1>4. more \subseteq rows
  BY DEF Connecting!TokensOf
<1>5. /\ y \in Exchange /\ y.kind = x.kind /\ y.left = x.left /\ y.row = x.row /\ y.picked = x.picked
      /\ y.wanted = (x.wanted \ {r}) \cup more /\ y.added = x.added
      /\ y.deleted = x.deleted \cup ({r} \cap rows)
  <2> HIDE DEF more
  <2> QED BY <1>1, <1>3, <1>4 DEF Exchange
<1>6. x.picked /\ x.left # <<>>
  BY <1>2, <1>3 DEF Serves
<1>7. Serves(y)
  BY <1>3, <1>5, <1>6 DEF Serves
<1>8. exchanges[t] # Connecting!Idle
  BY <1>1, <1>6, IdleServes
<1>9. ASSUME NEW o \in Transactions \ {t} PROVE y.deleted \cap exchanges[o].deleted = {}
  <2>1. x.deleted \cap exchanges[o].deleted = {}
    BY <1>1, RequestFields
  <2>2. r \notin exchanges[o].deleted
    BY <1>2, IdleServes DEF Connecting!CanDelete, Connecting!Others
  <2> QED BY <1>5, <2>1, <2>2
<1>10. ASSUME alone PROVE Calm(y, rows, expired)
  <2>1. Calm(x, rows, expired)
    BY <1>1, <1>10, RequestFields
  <2>5. CASE x.kind = "revoke"
    <3>1. r = x.row /\ x.row.table \in {"access", "refresh"}
      BY <1>2, <1>3, <2>1, <2>5 DEF Calm, Serves, Names
    <3>2. more = {}
      BY <3>1 DEF Connecting!In
    <3> HIDE DEF more
    <3> QED BY <1>5, <1>6, <2>1, <2>5, <3>1, <3>2 DEF Calm
  <2>2. CASE x.kind \notin {"exchange", "disconnect", "revoke"}
    <3>1. r \in Loose(x.row, rows, expired)
      BY <1>2, <2>1, <2>2 DEF Calm
    <3>2. more \subseteq Loose(x.row, rows, expired)
      <4>1. CASE r \in Connecting!In("connections", rows)
        <5>1. r \notin expired
          BY <4>1 DEF ConnectionsInvariant, ConnectionsTyped, Connecting!In
        <5>2. x.kind \in Connecting!RequestKinds
          <6>1. Connecting!Statement(t) \in Statements(x.kind) /\ Connecting!Statement(t) \in Connecting!Deleting
            BY <1>1, <1>3, <1>6, RequestFields, NextStatement DEF Serves, Connecting!Statement
          <6> QED BY <1>1, <6>1, RequestFields DEF Statements, Connecting!Deleting
        <5>3. r # x.row
          BY <1>3, <2>2, <4>1, <5>2, KindsAreRequests
             DEF Serves, Names, Connecting!RequestKinds, Connecting!Transactional, Credential, Connecting!In, Connecting!KindsAreRequests
        <5>4. Connecting!TokensOf(r, rows) \subseteq expired \cup {x.row}
          BY <3>1, <5>1, <5>3 DEF Loose
        <5> QED BY <5>4 DEF Loose
      <4>2. CASE r \notin Connecting!In("connections", rows)
        BY <4>2
      <4> QED BY <4>1, <4>2
    <3> QED BY <1>5, <1>6, <2>1, <2>2, <3>1, <3>2 DEF Calm
  <2>3. CASE x.kind = "disconnect"
    <3>1. x.row \in Connecting!RowsOfTables /\ x.row.table = "connections"
      BY <1>3, <2>3 DEF Serves, Names, Connecting!In
    <3>2. /\ x.wanted \subseteq {x.row} \cup Connecting!TokensOf(x.row, rows)
          /\ x.deleted \subseteq {x.row} \cup Connecting!TokensOf(x.row, rows)
          /\ x.row \in x.deleted => Connecting!TokensOf(x.row, rows) \subseteq x.wanted \cup x.deleted
      BY <2>1, <2>3 DEF Calm
    <3>3. r = x.row \/ r \in Connecting!TokensOf(x.row, rows)
      BY <1>2, <3>2
    <3>4. CASE r = x.row
      <4>1. r \notin Connecting!TokensOf(r, rows)
        BY DEF Connecting!TokensOf
      <4>2. r \in rows => r \in Connecting!In("connections", rows)
        BY <3>1, <3>4 DEF Connecting!In
      <4>3. more \subseteq Connecting!TokensOf(r, rows) /\ (r \in rows => Connecting!TokensOf(r, rows) \subseteq more \cup x.deleted)
        BY <1>1, <4>2
      <4> HIDE DEF more
      <4>4. /\ y.wanted \subseteq {x.row} \cup Connecting!TokensOf(x.row, rows)
            /\ y.deleted \subseteq {x.row} \cup Connecting!TokensOf(x.row, rows)
        BY <1>5, <3>2, <3>4, <4>3
      <4>5. x.row \in y.deleted => Connecting!TokensOf(x.row, rows) \subseteq y.wanted \cup y.deleted
        BY <1>5, <3>2, <3>4, <4>1, <4>3
      <4> QED BY <1>5, <1>6, <2>3, <4>4, <4>5 DEF Calm, Connecting!Transactional
    <3>5. CASE r # x.row
      <4>1. r \in rows /\ r.connection = x.row.connection
        BY <3>3, <3>5 DEF Connecting!TokensOf
      <4>2. r.table # "connections"
        BY <1>3, <3>1, <3>5, <4>1, RowsAre
      <4>3. more = {}
        BY <4>2 DEF Connecting!In
      <4> HIDE DEF more
      <4>4. /\ y.wanted \subseteq {x.row} \cup Connecting!TokensOf(x.row, rows)
            /\ y.deleted \subseteq {x.row} \cup Connecting!TokensOf(x.row, rows)
            /\ x.row \in y.deleted => Connecting!TokensOf(x.row, rows) \subseteq y.wanted \cup y.deleted
        BY <1>5, <3>2, <3>3, <3>5, <4>1, <4>3
      <4> QED BY <1>5, <1>6, <2>3, <4>4 DEF Calm, Connecting!Transactional
    <3> QED BY <3>4, <3>5
  <2>4. CASE x.kind = "exchange"
    BY <1>5, <1>6, <2>4 DEF Calm
  <2> QED BY <2>2, <2>3, <2>4, <2>5
<1>11. /\ \A q \in y.added : q.id <= issued'
       /\ y.deleted \subseteq rows /\ issued' \in issued..MaxIssued /\ alone' \in BOOLEAN
       /\ alone' => \A o \in Transactions \ {t} : exchanges[o] = Connecting!Idle
  BY <1>1, <1>2, <1>5, <1>8, RequestFields
<1> HIDE DEF more
<1> QED BY <1>2, <1>5, <1>7, <1>9, <1>10, <1>11, OpenStep

\* Where the statement of a request ends.
LEMMA EndDeletionStep ==
  ASSUME ConnectionsInvariant, NEW t \in Transactions, Connecting!EndDeletion(t)
  PROVE  ConnectionsInvariant'
<1>1. PICK x, next : x = exchanges[t] /\ next = [x EXCEPT !.left = Tail(@), !.picked = FALSE]
  OBVIOUS
<1>2. /\ x.picked /\ x.wanted = {} /\ UNCHANGED <<issued, alone>>
      /\ IF Connecting!Failed(t)
         THEN exchanges' = [exchanges EXCEPT ![t] = Connecting!Idle] /\ UNCHANGED <<rows, expired, history>>
         ELSE IF x.kind \in Connecting!Transactional
         THEN /\ exchanges' = [exchanges EXCEPT ![t] = IF Connecting!Statement(t) = "rotate"
                           THEN [next EXCEPT !.connection = Connecting!Connection(x.row.connection)]
                           ELSE next]
              /\ UNCHANGED <<rows, expired, history>>
         ELSE /\ rows' = rows \ x.deleted
              /\ expired' = expired \cap rows'
              /\ history' = [g \in Grants |-> IF g \in Connecting!Removed(t) THEN "ended" ELSE history[g]]
              /\ exchanges' = [exchanges EXCEPT ![t] = [next EXCEPT !.deleted = {}]]
  BY <1>1 DEF Connecting!EndDeletion
<1>3. x \in Exchange /\ Serves(x) /\ rows \subseteq Connecting!RowsOfTables
  BY <1>1, RequestFields
<1>4. x.left # <<>> /\ Head(x.left) = Connecting!Statement(t) /\ Connecting!Statement(t) \in Connecting!Deleting
  BY <1>1, <1>2, <1>3 DEF Serves, Connecting!Statement
<1>5. x.kind \in Connecting!RequestKinds \cup {"none"} /\ x.left \in Seq(AllStatements)
  BY <1>1, RequestFields
<1>6. /\ Left(x.kind, Tail(x.left)) /\ Tail(x.left) \in Seq(AllStatements)
      /\ Connecting!Statement(t) \notin {"consume", "rotate"} /\ Spent(Tail(x.left)) => Spent(x.left)
      /\ x.kind \in Connecting!Transactional => Tail(x.left) # <<>>
      /\ Connecting!Statement(t) \in Statements(x.kind)
  <2>1. Left(x.kind, x.left) /\ Connecting!Statement(t) # "insert"
    BY <1>3, <1>4 DEF Serves, Connecting!Deleting
  <2> QED BY <1>4, <1>5, <2>1, NextStatement
<1>7. /\ next \in Exchange /\ next.kind = x.kind /\ next.left = Tail(x.left) /\ next.row = x.row
      /\ next.connection = x.connection /\ next.picked = FALSE
      /\ next.wanted = {} /\ next.added = x.added /\ next.deleted = x.deleted
  BY <1>1, <1>2, <1>3, <1>6 DEF Exchange
<1>8. exchanges[t] # Connecting!Idle
  BY <1>1, <1>4, IdleServes
<1>9. Connecting!In("refresh", x.added) = {} /\ x.added \subseteq Connecting!RowsOfTables /\ \A r \in x.added : r.table # "codes"
  BY <1>1, <1>3, <1>4, RequestFields DEF Serves
<1>10. CASE Connecting!Failed(t)
  BY <1>2, <1>10, RollbackStep
<1>11. CASE ~Connecting!Failed(t) /\ x.kind \in Connecting!Transactional
  <2>1. PICK y : y = IF Connecting!Statement(t) = "rotate"
                     THEN [next EXCEPT !.connection = Connecting!Connection(x.row.connection)]
                     ELSE next
    OBVIOUS
  <2>2. Connecting!Statement(t) = "rotate" => Connecting!Connection(x.row.connection) \in Connecting!In("connections", Connecting!RowsOfTables)
    <3>1. ASSUME Connecting!Statement(t) = "rotate" PROVE x.row.connection \in Grants
      <4>1. x.row \in x.deleted /\ x.kind = "renew"
        BY <1>1, <1>6, <1>11, <3>1 DEF Connecting!Failed, Statements, Connecting!Transactional
      <4>2. x.row \in Connecting!RowsOfTables /\ x.row.table = "refresh"
        BY <1>3, <1>11, <4>1 DEF Serves, Names
      <4> QED BY <4>1, <4>2, RowsAre
    <3> QED BY <3>1, RowsAre, CodesAndConnections DEF Connecting!In
  <2>3. /\ y \in Exchange /\ y.kind = x.kind /\ y.left = Tail(x.left) /\ y.row = x.row
        /\ y.picked = FALSE /\ y.wanted = {} /\ y.added = x.added /\ y.deleted = x.deleted
    BY <1>7, <2>1, <2>2 DEF Exchange
  <2>4. Spent(y.left) => x.row \in x.deleted
    <3>1. CASE Connecting!Statement(t) \in {"consume", "rotate"}
      BY <1>1, <1>11, <3>1 DEF Connecting!Failed
    <3>2. CASE Connecting!Statement(t) \notin {"consume", "rotate"}
      BY <1>3, <1>6, <1>11, <2>3, <3>2 DEF Serves
    <3> QED BY <3>1, <3>2
  <2>5. x.kind = "exchange" \/ x.added = {}
    BY <1>3, <1>4, <1>11 DEF Serves
  <2>6. Serves(y)
    BY <1>3, <1>6, <1>9, <1>11, <2>3, <2>4, <2>5 DEF Serves
  <2>7. alone => Calm(y, rows, expired)
    <3>1. alone => Calm(x, rows, expired)
      BY <1>1, RequestFields
    <3> QED BY <1>6, <1>11, <2>3, <3>1 DEF Calm, Connecting!Transactional
  <2>8. exchanges' = [exchanges EXCEPT ![t] = y] /\ UNCHANGED <<rows, expired, history, issued, alone>>
    BY <1>2, <1>11, <2>1
  <2>9. /\ \A q \in y.added : q.id <= issued'
        /\ y.deleted \subseteq rows /\ issued' \in issued..MaxIssued /\ alone' \in BOOLEAN
        /\ \A o \in Transactions \ {t} : y.deleted \cap exchanges[o].deleted = {}
        /\ alone' => \A o \in Transactions \ {t} : exchanges[o] = Connecting!Idle
    BY <1>1, <1>8, <2>3, <2>8, RequestFields
  <2> QED BY <2>3, <2>6, <2>7, <2>8, <2>9, OpenStep
<1>12. CASE ~Connecting!Failed(t) /\ x.kind \notin Connecting!Transactional
  <2>1. PICK y : y = [next EXCEPT !.deleted = {}]
    OBVIOUS
  <2>2. /\ exchanges' = [exchanges EXCEPT ![t] = y] /\ rows' = rows \ x.deleted /\ expired' = expired \cap rows'
        /\ history' = [g \in Grants |-> IF g \in Connecting!Removed(t) THEN "ended" ELSE history[g]]
    BY <1>2, <1>12, <2>1
  <2>3. x.added = {}
    BY <1>3, <1>4, <1>12 DEF Serves, Connecting!Transactional
  <2>4. /\ y \in Exchange /\ y.kind = x.kind /\ y.left = Tail(x.left) /\ y.row = x.row
        /\ y.picked = FALSE /\ y.wanted = {} /\ y.added = {} /\ y.deleted = {}
    BY <1>7, <2>1, <2>3 DEF Exchange
  <2>5. Serves(y)
    BY <1>3, <1>6, <1>12, <2>4 DEF Serves, Connecting!In
  <2>6. history \in [Grants -> {"unused", "issued", "granted", "ended", "replaced"}]
    BY DEF ConnectionsInvariant, ConnectionsTyped
  <2>7. /\ history' \in [Grants -> {"unused", "issued", "granted", "ended", "replaced"}]
        /\ \A g \in Grants : history'[g] = (IF g \in Connecting!Removed(t) THEN "ended" ELSE history[g])
    BY <2>2, <2>6
  <2>8. OneCredential'
    <3>1. \A r \in rows' : r \in rows /\ r.grant \in Grants
      BY <1>3, <2>2, RowsAre
    <3>2. \A r \in rows' : Credential(r) => history'[r.grant] # "unused"
      BY <2>7, <3>1 DEF ConnectionsInvariant, OneCredential
    <3> QED BY <3>1, <3>2 DEF ConnectionsInvariant, OneCredential
  <2>9. ASSUME alone, NEW g \in Grants, history'[g] = "granted" PROVE Endures(g)'
    <3>1. history[g] = "granted" /\ g \notin Connecting!Removed(t)
      BY <2>7, <2>9
    <3>2. PICK r \in Connecting!In("refresh", rows \ expired) :
            r.grant = g /\ Connecting!Connection(r.connection) \in rows
      BY <2>9, <3>1 DEF ConnectionsInvariant, GrantsLast, Endures
    <3>3. /\ r \in rows /\ r \notin expired /\ r.table = "refresh"
          /\ r \in Connecting!RowsOfTables
      BY <1>3, <3>2 DEF Connecting!In
    <3>4. PICK c : c = Connecting!Connection(r.connection)
      OBVIOUS
    <3>5. /\ c \in rows /\ c.table = "connections" /\ c.connection = r.connection
          /\ r \in Connecting!TokensOf(c, rows) /\ c \notin expired /\ c \in Connecting!RowsOfTables
      <4>1. c \in rows /\ c.table = "connections" /\ c.connection = r.connection
        BY <3>2, <3>4, CodesAndConnections
      <4>2. c \notin expired
        BY <4>1 DEF ConnectionsInvariant, ConnectionsTyped, Connecting!In
      <4> QED BY <1>3, <3>3, <4>1, <4>2 DEF Connecting!TokensOf
    <3>6. Calm(x, rows, expired)
      BY <1>1, <2>9, RequestFields
    <3>7. r \notin x.deleted /\ c \notin x.deleted
      <4>1. CASE x.kind = "disconnect"
        <5>1. /\ x.deleted \subseteq {x.row} \cup Connecting!TokensOf(x.row, rows)
              /\ x.row \in x.deleted => Connecting!TokensOf(x.row, rows) \subseteq x.deleted
          BY <1>2, <3>6, <4>1 DEF Calm
        <5>2. r \notin x.deleted
          BY <1>1, <3>1, <3>2, <3>3, <4>1 DEF Connecting!Removed, Connecting!In
        <5>3. x.row \in Connecting!RowsOfTables /\ x.row.table = "connections"
          BY <1>3, <4>1 DEF Serves, Names, Connecting!In
        <5>4. c \in x.deleted => c = x.row
          BY <3>5, <5>1, <5>3, RowsAre DEF Connecting!TokensOf
        <5> QED BY <3>5, <5>1, <5>2, <5>4
      <4>2. CASE x.kind = "revoke"
        <5>1. x.deleted \subseteq {x.row} /\ x.row.table \in {"access", "refresh"}
          BY <1>3, <3>6, <4>2 DEF Calm, Serves, Names
        <5>2. r \notin x.deleted
          BY <1>1, <3>1, <3>2, <3>3, <4>2 DEF Connecting!Removed, Connecting!In
        <5> QED BY <3>5, <5>1, <5>2
      <4>3. CASE x.kind \in {"authorize", "list"}
        <5>1. x.deleted \subseteq Loose(x.row, rows, expired)
          BY <3>6, <4>3 DEF Calm
        <5>2. r # x.row /\ c # x.row
          BY <1>3, <3>3, <3>5, <4>3, KindsAreRequests DEF Serves, Names, Connecting!In, Connecting!KindsAreRequests
        <5> QED BY <3>3, <3>5, <5>1, <5>2 DEF Loose, Connecting!In
      <4>4. x.kind \in {"revoke", "disconnect", "authorize", "list"}
        BY <1>4, <1>5, <1>6, <1>12 DEF Connecting!RequestKinds, Connecting!Transactional, Statements, Connecting!Deleting
      <4> QED BY <4>1, <4>2, <4>3, <4>4
    <3>8. r \in Connecting!In("refresh", rows' \ expired') /\ Connecting!Connection(r.connection) \in rows'
      BY <2>2, <3>3, <3>4, <3>5, <3>7 DEF Connecting!In
    <3> QED BY <3>2, <3>8 DEF Endures
  <2> QED BY <1>1, <1>2, <1>8, <1>12, <2>2, <2>4, <2>5, <2>7, <2>8, <2>9, CommittedStep
<1> QED BY <1>10, <1>11, <1>12

\* A code is issued.
LEMMA IssueStep ==
  ASSUME ConnectionsInvariant, NEW t \in Transactions, Connecting!Issue(t)
  PROVE  ConnectionsInvariant'
<1>1. PICK x, y : x = exchanges[t] /\ y = [x EXCEPT !.left = <<>>]
  OBVIOUS
<1>2. /\ exchanges' = [exchanges EXCEPT ![t] = y] /\ Connecting!Statement(t) = "issue" /\ history[x.row.grant] = "unused"
      /\ rows' = rows \cup {x.row} /\ history' = [history EXCEPT ![x.row.grant] = "issued"]
      /\ UNCHANGED <<expired, issued, alone>>
  BY <1>1 DEF Connecting!Issue
<1>3. x \in Exchange /\ Serves(x) /\ rows \subseteq Connecting!RowsOfTables
  BY <1>1, RequestFields
<1>4. x.left # <<>> /\ Head(x.left) = "issue"
  BY <1>1, <1>2 DEF Connecting!Statement
<1>5. "issue" \in Statements(x.kind) /\ x.kind \in Connecting!RequestKinds \cup {"none"}
  BY <1>1, <1>3, <1>4, RequestFields, NextStatement DEF Serves
<1>6. x.kind = "authorize"
  BY <1>5 DEF Statements, Connecting!RequestKinds
<1>7. x.picked = FALSE /\ x.wanted = {} /\ x.deleted = {} /\ x.added = {}
  BY <1>3, <1>4, <1>6 DEF Serves, Connecting!Deleting, Connecting!Transactional, Exchange
<1>8. /\ y \in Exchange /\ y.kind = "authorize" /\ y.left = <<>> /\ y.row = x.row
      /\ y.picked = FALSE /\ y.wanted = {} /\ y.added = {} /\ y.deleted = {}
  <2>1. <<>> \in Seq(AllStatements)
    OBVIOUS
  <2> QED BY <1>1, <1>3, <1>6, <1>7, <2>1 DEF Exchange
<1>9. Serves(y)
  <2>1. Left("authorize", <<>>)
    BY DEF Left
  <2> QED BY <1>3, <1>6, <1>8, <2>1 DEF Serves, Connecting!In, Connecting!Transactional
<1>10. x.row \in Connecting!RowsOfTables /\ x.row.table = "codes" /\ x.row.grant \in Grants /\ x.row.id = 0
  <2>1. x.row \in Connecting!RowsOfTables /\ x.row.table = "codes"
    BY <1>3, <1>6 DEF Serves, Names, Connecting!In
  <2> QED BY <2>1, RowsAre, CodesAndConnections
<1>11. history \in [Grants -> {"unused", "issued", "granted", "ended", "replaced"}]
  BY DEF ConnectionsInvariant, ConnectionsTyped
<1>12. /\ history' \in [Grants -> {"unused", "issued", "granted", "ended", "replaced"}]
       /\ history'[x.row.grant] = "issued"
       /\ \A g \in Grants \ {x.row.grant} : history'[g] = history[g]
  BY <1>2, <1>10, <1>11
<1>13. OneCredential'
  <2>1. \A r \in rows : Credential(r) => r.grant # x.row.grant
    BY <1>2 DEF ConnectionsInvariant, OneCredential
  <2>2. \A r \in rows : r.grant \in Grants
    BY <1>3, RowsAre
  <2> QED BY <1>2, <1>12, <2>1, <2>2 DEF ConnectionsInvariant, OneCredential
<1>14. ASSUME alone, NEW g \in Grants, history'[g] = "granted" PROVE Endures(g)'
  <2>1. history[g] = "granted"
    BY <1>12, <1>14
  <2>2. Endures(g)
    BY <1>14, <2>1 DEF ConnectionsInvariant, GrantsLast
  <2> QED BY <1>2, <2>2 DEF Endures, Connecting!In
<1>15. PICK new \in SUBSET Connecting!RowsOfTables : new = {x.row}
  BY <1>10
<1>16. rows' = (rows \ exchanges[t].deleted) \cup new /\ expired' = expired \cap rows'
  BY <1>1, <1>2, <1>7, <1>15 DEF ConnectionsInvariant, ConnectionsTyped
<1>17. (\A r \in new : r.id <= issued) /\ exchanges[t] # Connecting!Idle /\ y.kind \notin Connecting!Transactional
  BY <1>1, <1>4, <1>8, <1>10, <1>15, RequestFields, IdleServes DEF Connecting!Transactional
<1> QED BY <1>2, <1>8, <1>9, <1>12, <1>13, <1>14, <1>16, <1>17, CommittedStep

\* The connection of an exchange is inserted or renewed.
LEMMA ConnectStep ==
  ASSUME ConnectionsInvariant, NEW t \in Transactions, Connecting!Connect(t)
  PROVE  ConnectionsInvariant'
<1> DEFINE present == Connecting!In("connections", rows \ exchanges[t].deleted)
<1>1. PICK renewed : renewed = IF present = {} THEN Connecting!Connection(exchanges[t].row.grant)
                               ELSE CHOOSE c \in present : TRUE
  OBVIOUS
<1>2. PICK x, y : x = exchanges[t] /\ y = [x EXCEPT !.left = Tail(@), !.connection = renewed,
                                              !.added = @ \cup ({renewed} \ present)]
  OBVIOUS
<1>3. /\ exchanges' = [exchanges EXCEPT ![t] = y] /\ Connecting!Statement(t) = "connect"
      /\ UNCHANGED <<rows, expired, issued, history, alone>>
  BY <1>1, <1>2 DEF Connecting!Connect
<1>4. x \in Exchange /\ Serves(x) /\ rows \subseteq Connecting!RowsOfTables
  BY <1>2, RequestFields
<1>5. x.left # <<>> /\ Head(x.left) = "connect"
  BY <1>2, <1>3 DEF Connecting!Statement
<1>6. /\ Left(x.kind, Tail(x.left)) /\ Tail(x.left) \in Seq(AllStatements)
      /\ Spent(Tail(x.left)) => Spent(x.left)
      /\ x.kind \in Connecting!Transactional => Tail(x.left) # <<>>
      /\ "connect" \in Statements(x.kind) /\ x.kind \in Connecting!RequestKinds \cup {"none"}
  BY <1>2, <1>4, <1>5, RequestFields, NextStatement DEF Serves
<1>7. x.kind = "exchange"
  BY <1>6 DEF Statements, Connecting!RequestKinds
<1>8. renewed \in Connecting!In("connections", Connecting!RowsOfTables)
  <2>1. CASE present = {}
    <3>1. x.row \in Connecting!RowsOfTables
      BY <1>4, <1>7 DEF Serves, Names, Connecting!Transactional
    <3> QED BY <1>1, <1>2, <2>1, <3>1, RowsAre, CodesAndConnections DEF Connecting!In
  <2>2. CASE present # {}
    <3>1. renewed \in present
      BY <1>1, <2>2
    <3> QED BY <1>4, <3>1 DEF Connecting!In
  <2> QED BY <2>1, <2>2
<1> HIDE DEF present
<1>9. /\ y \in Exchange /\ y.kind = "exchange" /\ y.left = Tail(x.left) /\ y.row = x.row
      /\ y.picked = x.picked /\ y.wanted = x.wanted /\ y.deleted = x.deleted
      /\ y.added = x.added \cup ({renewed} \ present)
  <2>1. renewed \in Connecting!RowsOfTables
    BY <1>8 DEF Connecting!In
  <2> QED BY <1>2, <1>4, <1>6, <1>7, <1>8, <2>1 DEF Exchange
<1>10. ~x.picked /\ x.wanted = {}
  BY <1>4, <1>5 DEF Serves, Connecting!Deleting
<1>11. Connecting!In("refresh", y.added) = {} /\ \A r \in y.added : r.table # "codes"
  <2>1. Connecting!In("refresh", x.added) = {} /\ \A r \in x.added : r.table # "codes"
    BY <1>4, <1>5 DEF Serves
  <2> QED BY <1>8, <1>9, <2>1 DEF Connecting!In
<1>12. Serves(y)
  BY <1>4, <1>6, <1>7, <1>9, <1>10, <1>11 DEF Serves, Connecting!Transactional
<1>13. Calm(y, rows, expired)
  BY <1>6, <1>7, <1>9 DEF Calm, Connecting!Transactional
<1>14. \A r \in y.added : r.id <= issued
  <2>1. renewed.id = 0
    BY <1>8, RowsAre, CodesAndConnections DEF Connecting!In
  <2> QED BY <1>2, <1>9, <2>1, RequestFields
<1>15. exchanges[t] # Connecting!Idle
  BY <1>2, <1>5, IdleServes
<1>16. /\ y.deleted \subseteq rows /\ issued' \in issued..MaxIssued /\ alone' \in BOOLEAN
       /\ \A o \in Transactions \ {t} : y.deleted \cap exchanges[o].deleted = {}
       /\ alone' => \A o \in Transactions \ {t} : exchanges[o] = Connecting!Idle
  BY <1>2, <1>3, <1>9, <1>15, RequestFields
<1> QED BY <1>3, <1>9, <1>12, <1>13, <1>14, <1>16, OpenStep

\* The tokens of a connection are inserted, if it is there still.
LEMMA InsertStep ==
  ASSUME ConnectionsInvariant, NEW t \in Transactions, Connecting!Insert(t)
  PROVE  ConnectionsInvariant'
<1> DEFINE new == Connecting!Pair(exchanges[t].row.grant, issued + 1, exchanges[t].connection.connection)
<1>1. PICK x, y : x = exchanges[t] /\ y = [x EXCEPT !.left = Tail(@), !.added = @ \cup new]
  OBVIOUS
<1>2. /\ Connecting!Statement(t) = "insert" /\ issued < MaxIssued /\ UNCHANGED <<rows, expired, history, alone>>
      /\ IF x.connection \in Connecting!View(t)
         THEN issued' = issued + 1 /\ exchanges' = [exchanges EXCEPT ![t] = y]
         ELSE exchanges' = [exchanges EXCEPT ![t] = Connecting!Idle] /\ UNCHANGED issued
  BY <1>1 DEF Connecting!Insert
<1>3. CASE x.connection \notin Connecting!View(t)
  BY <1>2, <1>3, RollbackStep
<1>4. CASE x.connection \in Connecting!View(t)
  <2>1. x \in Exchange /\ Serves(x) /\ rows \subseteq Connecting!RowsOfTables
    BY <1>1, RequestFields
  <2>2. x.left # <<>> /\ Head(x.left) = "insert"
    BY <1>1, <1>2 DEF Connecting!Statement
  <2>3. /\ Left(x.kind, Tail(x.left)) /\ Tail(x.left) \in Seq(AllStatements)
        /\ Tail(x.left) = <<>> /\ Spent(x.left)
        /\ "insert" \in Statements(x.kind) /\ x.kind \in Connecting!RequestKinds \cup {"none"}
    BY <1>1, <2>1, <2>2, RequestFields, NextStatement DEF Serves
  <2>4. x.kind \in Connecting!Transactional
    BY <2>3 DEF Statements, Connecting!RequestKinds, Connecting!Transactional
  <2>5. x.row \in Connecting!RowsOfTables /\ x.row \in x.deleted /\ x.row.grant \in Grants
    BY <2>1, <2>3, <2>4, RowsAre DEF Serves, Names
  <2>6. /\ x.connection \in Connecting!RowsOfTables /\ x.connection.connection \in Grants
        /\ x.connection = Connecting!Connection(x.connection.connection)
    <3>1. x.connection \in Connecting!In("connections", Connecting!RowsOfTables) \cup {None}
      BY <2>1 DEF Exchange
    <3>2. x.connection \in Connecting!RowsOfTables
      BY <1>1, <1>4, RequestFields
    <3>3. x.connection.table = "connections"
      BY <3>1, <3>2, KindsAreRequests DEF Connecting!In, Connecting!KindsAreRequests
    <3>4. x.connection = Connecting!Connection(x.connection.grant) /\ x.connection.connection = x.connection.grant
          /\ x.connection.grant \in Grants
      BY <3>2, <3>3, RowsAre
    <3> QED BY <3>2, <3>4
  <2>7. PICK n, g, c : n = issued + 1 /\ g = x.row.grant /\ c = x.connection.connection
    OBVIOUS
  <2>8. n \in 1..MaxIssued /\ issued' \in issued..MaxIssued /\ n = issued'
    BY <1>2, <1>4, <2>7, RequestFields, KindsAreRequests DEF Connecting!KindsAreRequests
  <2>9. new = Connecting!Pair(g, n, c) /\ new \subseteq Connecting!RowsOfTables /\ g \in Grants /\ c \in Grants
    BY <1>1, <2>5, <2>6, <2>7, <2>8, RowsAre
  <2>10. PICK r : r = [table |-> "refresh", grant |-> g, id |-> n, connection |-> c]
    OBVIOUS
  <2>11. /\ r \in new /\ r.table = "refresh" /\ r.grant = g /\ r.id = n /\ r.connection = c
         /\ \A q \in new : q.id = n /\ q.table \in {"access", "refresh"} /\ (q.table = "refresh" => q = r)
    <3>1. r.table = "refresh" /\ r.grant = g /\ r.id = n /\ r.connection = c
      BY <2>10
    <3>2. r \in Connecting!Pair(g, n, c)
      BY <2>10 DEF Connecting!Pair
    <3>3. ASSUME NEW q \in Connecting!Pair(g, n, c)
          PROVE  q.id = n /\ q.table \in {"access", "refresh"} /\ (q.table = "refresh" => q = r)
      BY <2>10, <3>3 DEF Connecting!Pair
    <3> QED BY <2>9, <3>1, <3>2, <3>3
  <2> HIDE DEF new
  <2>12. /\ y \in Exchange /\ y.kind = x.kind /\ y.left = <<>> /\ y.row = x.row
         /\ y.picked = x.picked /\ y.wanted = x.wanted /\ y.deleted = x.deleted
         /\ y.added = x.added \cup new
    <3>1. x.added \cup new \in SUBSET Connecting!RowsOfTables
      BY <1>1, <2>9, RequestFields
    <3> QED BY <1>1, <2>1, <2>3, <3>1 DEF Exchange
  <2>13. ~x.picked /\ x.wanted = {} /\ x.kind \in {"exchange", "renew"}
    BY <2>1, <2>2, <2>4 DEF Serves, Connecting!Deleting, Connecting!Transactional
  <2>14. /\ \A q \in Connecting!In("refresh", y.added) : q = r
         /\ \A q \in y.added : q.table # "codes"
    <3>1. Connecting!In("refresh", x.added) = {} /\ \A q \in x.added : q.table # "codes"
      BY <2>1, <2>2 DEF Serves
    <3> QED BY <2>11, <2>12, <3>1 DEF Connecting!In
  <2>15. Serves(y)
    BY <2>1, <2>3, <2>4, <2>5, <2>7, <2>11, <2>12, <2>13, <2>14 DEF Serves
  <2>16. \A q \in y.added : q.id <= issued'
    <3>1. \A q \in x.added : q.id \in Nat /\ q.id <= issued
      BY <1>1, RequestFields, RowsAre
    <3> QED BY <2>7, <2>8, <2>11, <2>12, <3>1, RequestFields
  <2>17. ASSUME alone PROVE Calm(y, rows, expired)
    <3>1. Calm(x, rows, expired)
      BY <1>1, <2>17, RequestFields
    <3>2. r \notin rows
      <4>1. \A q \in rows : q.id \in Nat /\ q.id <= issued
        BY <2>1, RowsAre DEF ConnectionsInvariant, ConnectionsTyped
      <4> QED BY <2>7, <2>11, <4>1, RequestFields
    <3>3. Connecting!Connection(r.connection) \in (rows \ y.deleted) \cup y.added
      BY <1>1, <1>4, <2>6, <2>7, <2>11, <2>12 DEF Connecting!View
    <3>4. r \in Connecting!In("refresh", y.added) /\ r.grant = y.row.grant
      BY <2>7, <2>11, <2>12 DEF Connecting!In
    <3> QED BY <2>12, <2>13, <3>1, <3>2, <3>3, <3>4 DEF Calm
  <2>18. exchanges[t] # Connecting!Idle
    BY <1>1, <2>2, IdleServes
  <2>19. /\ y.deleted \subseteq rows /\ alone' \in BOOLEAN
         /\ \A o \in Transactions \ {t} : y.deleted \cap exchanges[o].deleted = {}
         /\ alone' => \A o \in Transactions \ {t} : exchanges[o] = Connecting!Idle
    BY <1>1, <1>2, <2>12, <2>18, RequestFields
  <2> QED BY <1>2, <1>4, <2>8, <2>12, <2>15, <2>16, <2>17, <2>19, OpenStep
<1> QED BY <1>3, <1>4

\* A request is over, and what it has done becomes visible.
LEMMA FinishStep ==
  ASSUME ConnectionsInvariant, NEW t \in Transactions, Connecting!Finish(t)
  PROVE  ConnectionsInvariant'
<1>1. PICK x : x = exchanges[t]
  OBVIOUS
<1>2. /\ exchanges[t] # Connecting!Idle /\ x.left = <<>> /\ exchanges' = [exchanges EXCEPT ![t] = Connecting!Idle]
      /\ rows' = (rows \ x.deleted) \cup x.added /\ expired' = expired \cap rows'
      /\ history' = [g \in Grants |->
           IF x.kind # "exchange" THEN history[g]
           ELSE IF g = x.row.grant THEN "granted"
           ELSE IF history[g] \in {"granted", "ended"} THEN "replaced"
           ELSE history[g]]
      /\ UNCHANGED <<issued, alone>>
  BY <1>1 DEF Connecting!Finish, Connecting!View
<1>3. x \in Exchange /\ Serves(x) /\ rows \subseteq Connecting!RowsOfTables /\ x.added \subseteq Connecting!RowsOfTables
  BY <1>1, RequestFields
<1>4. x.kind \in Connecting!RequestKinds \cup {"none"} /\ ~x.picked /\ x.wanted = {} /\ Spent(x.left)
  BY <1>1, <1>2, <1>3, RequestFields DEF Serves, Spent
<1>5. history \in [Grants -> {"unused", "issued", "granted", "ended", "replaced"}]
  BY DEF ConnectionsInvariant, ConnectionsTyped
<1>6. /\ history' \in [Grants -> {"unused", "issued", "granted", "ended", "replaced"}]
      /\ \A g \in Grants : history'[g] = "unused" => history[g] = "unused"
      /\ x.kind # "exchange" => \A g \in Grants : history'[g] = history[g]
      /\ x.kind = "exchange" => \A g \in Grants : history'[g] = "granted" => g = x.row.grant
  BY <1>2, <1>5
<1>7. x.kind \in Connecting!Transactional => x.row \in rows /\ x.row \in x.deleted /\ Credential(x.row)
                                  /\ x.row.grant \in Grants
  <2>1. x.kind \in Connecting!Transactional => x.row \in x.deleted /\ Credential(x.row) /\ x.row \in Connecting!RowsOfTables
    BY <1>3, <1>4 DEF Serves, Names
  <2> QED BY <1>1, <2>1, RequestFields, RowsAre
<1>8. \A r \in x.added : Credential(r) =>
        r.table = "refresh" /\ x.kind \in Connecting!Transactional /\ r.grant = x.row.grant
  BY <1>3 DEF Serves, Connecting!In, Credential
<1>9. OneCredential'
  <2>1. ASSUME NEW r \in rows', NEW q \in rows', Credential(r), Credential(q), r.grant = q.grant
        PROVE  r = q
    <3>1. ASSUME NEW a \in rows \ x.deleted, NEW b \in x.added, Credential(a), Credential(b),
                 a.grant = b.grant
          PROVE  FALSE
      <4>1. x.kind \in Connecting!Transactional /\ b.grant = x.row.grant
        BY <1>8, <3>1
      <4>2. a = x.row
        BY <1>7, <3>1, <4>1 DEF ConnectionsInvariant, OneCredential
      <4> QED BY <1>7, <3>1, <4>1, <4>2
    <3>2. ASSUME r \in x.added, q \in x.added PROVE r = q
      BY <1>3, <1>8, <2>1, <3>2 DEF Serves, Connecting!In
    <3>3. ASSUME r \in rows, q \in rows PROVE r = q
      BY <2>1, <3>3 DEF ConnectionsInvariant, OneCredential
    <3> QED BY <1>2, <2>1, <3>1, <3>2, <3>3
  <2>2. ASSUME NEW r \in rows', Credential(r) PROVE history'[r.grant] # "unused"
    <3>1. CASE r \in rows
      BY <1>3, <1>6, <2>2, <3>1, RowsAre DEF ConnectionsInvariant, OneCredential
    <3>2. CASE r \in x.added
      <4>1. x.kind \in Connecting!Transactional /\ r.grant = x.row.grant
        BY <1>8, <2>2, <3>2
      <4>2. history[x.row.grant] # "unused"
        BY <1>7, <4>1 DEF ConnectionsInvariant, OneCredential
      <4> QED BY <1>6, <1>7, <4>1, <4>2
    <3> QED BY <1>2, <3>1, <3>2
  <2> QED BY <2>1, <2>2 DEF OneCredential
<1>10. ASSUME alone, NEW g \in Grants, history'[g] = "granted" PROVE Endures(g)'
  <2>1. Calm(x, rows, expired)
    BY <1>1, <1>10, RequestFields
  <2>2. ASSUME x.kind \in Connecting!Transactional, g = x.row.grant PROVE Endures(g)'
    <3>1. PICK r \in Connecting!In("refresh", x.added) :
            /\ r.grant = g /\ r \notin rows
            /\ Connecting!Connection(r.connection) \in (rows \ x.deleted) \cup x.added
      BY <1>2, <2>1, <2>2 DEF Calm
    <3>2. r \notin expired
      BY <3>1 DEF ConnectionsInvariant, ConnectionsTyped
    <3>3. r \in Connecting!In("refresh", rows' \ expired') /\ Connecting!Connection(r.connection) \in rows'
      BY <1>2, <3>1, <3>2 DEF Connecting!In
    <3> QED BY <3>1, <3>3 DEF Endures
  <2>3. ASSUME x.kind # "exchange", ~(x.kind \in Connecting!Transactional /\ g = x.row.grant) PROVE Endures(g)'
    <3>1. PICK r \in Connecting!In("refresh", rows \ expired) :
            r.grant = g /\ Connecting!Connection(r.connection) \in rows
      BY <1>6, <1>10, <2>3 DEF ConnectionsInvariant, GrantsLast, Endures
    <3>2. r \in rows /\ r \notin expired /\ r.table = "refresh" /\ r \in Connecting!RowsOfTables
      BY <1>3, <3>1 DEF Connecting!In
    <3>3. PICK c : c = Connecting!Connection(r.connection)
      OBVIOUS
    <3>4. /\ c \in rows /\ c.table = "connections" /\ r \in Connecting!TokensOf(c, rows)
          /\ c \notin expired
      <4>1. c \in rows /\ c.table = "connections" /\ c.connection = r.connection
        BY <3>1, <3>3, CodesAndConnections
      <4>2. c \notin expired
        BY <4>1 DEF ConnectionsInvariant, ConnectionsTyped, Connecting!In
      <4> QED BY <3>2, <4>1, <4>2 DEF Connecting!TokensOf
    <3>5. r \notin x.deleted /\ c \notin x.deleted
      <4>1. CASE x.kind \notin Connecting!Transactional
        BY <1>3, <1>4, <4>1 DEF Serves
      <4>2. CASE x.kind = "renew"
        <5>1. x.deleted \subseteq Loose(x.row, rows, expired)
          BY <2>1, <4>2 DEF Calm
        <5>2. r # x.row /\ c # x.row
          <6>1. x.row.table = "refresh"
            BY <1>3, <4>2 DEF Serves, Names
          <6> QED BY <2>3, <3>1, <3>4, <4>2, <6>1 DEF Connecting!Transactional
        <5> QED BY <3>2, <3>4, <5>1, <5>2 DEF Loose, Connecting!In
      <4> QED BY <2>3, <4>1, <4>2 DEF Connecting!Transactional
    <3>6. r \in Connecting!In("refresh", rows' \ expired') /\ Connecting!Connection(r.connection) \in rows'
      BY <1>2, <3>2, <3>3, <3>4, <3>5 DEF Connecting!In
    <3> QED BY <3>1, <3>6 DEF Endures
  <2>4. x.kind = "exchange" => g = x.row.grant /\ x.kind \in Connecting!Transactional
    BY <1>6, <1>10 DEF Connecting!Transactional
  <2> QED BY <2>2, <2>3, <2>4
<1>11. PICK y \in Exchange : y = Connecting!Idle
  BY IdleServes
<1>12. /\ exchanges' = [exchanges EXCEPT ![t] = y] /\ Serves(y) /\ y.deleted = {} /\ y.wanted = {} /\ y.added = {}
       /\ y.kind \notin Connecting!Transactional
  BY <1>2, <1>11, IdleServes DEF Connecting!Idle, Connecting!Transactional
<1>13. PICK new \in SUBSET Connecting!RowsOfTables : new = x.added
  BY <1>3
<1>14. rows' = (rows \ exchanges[t].deleted) \cup new /\ \A r \in new : r.id <= issued
  BY <1>1, <1>2, <1>13, RequestFields
<1> QED BY <1>2, <1>6, <1>9, <1>10, <1>12, <1>14, CommittedStep

\* A code or token expires.
LEMMA ExpireStep ==
  ASSUME ConnectionsInvariant, NEW r \in rows, Connecting!Expire(r)
  PROVE  ConnectionsInvariant'
<1>1. /\ r \notin expired /\ r.table # "connections" /\ expired' = expired \cup {r}
      /\ history' = IF r.table = "refresh" /\ history[r.grant] = "granted"
                    THEN [history EXCEPT ![r.grant] = "ended"] ELSE history
      /\ UNCHANGED <<rows, exchanges, issued, alone>>
  BY DEF Connecting!Expire, Connecting!In
<1>2. rows \subseteq Connecting!RowsOfTables /\ r.grant \in Grants
  BY RowsAre DEF ConnectionsInvariant, ConnectionsTyped
<1>3. history \in [Grants -> {"unused", "issued", "granted", "ended", "replaced"}]
  BY DEF ConnectionsInvariant, ConnectionsTyped
<1>4. /\ history' \in [Grants -> {"unused", "issued", "granted", "ended", "replaced"}]
      /\ \A g \in Grants : /\ history'[g] = "unused" => history[g] = "unused"
                           /\ history'[g] = "granted" => history[g] = "granted"
      /\ r.table = "refresh" => history'[r.grant] # "granted"
  BY <1>1, <1>2, <1>3
<1>5. ConnectionsTyped'
  BY <1>1, <1>4 DEF ConnectionsInvariant, ConnectionsTyped, Connecting!In
<1>6. (\A t \in Transactions : Serves(exchanges[t]))' /\ DeletionsExclude'
  BY <1>1 DEF ConnectionsInvariant, DeletionsExclude
<1>7. OneCredential'
  <2>1. \A q \in rows : q.grant \in Grants
    BY <1>2, RowsAre
  <2> QED BY <1>1, <1>4, <2>1 DEF ConnectionsInvariant, OneCredential
<1>8. GrantsLast'
  <2> SUFFICES ASSUME alone PROVE GrantsLast'
    BY <1>1 DEF GrantsLast
  <2>1. ASSUME NEW g \in Grants, history'[g] = "granted" PROVE Endures(g)'
    <3>1. PICK q \in Connecting!In("refresh", rows \ expired) : q.grant = g /\ Connecting!Connection(q.connection) \in rows
      BY <1>4, <2>1 DEF ConnectionsInvariant, GrantsLast, Endures
    <3>2. q # r
      BY <1>4, <2>1, <3>1 DEF Connecting!In
    <3> QED BY <1>1, <3>1, <3>2 DEF Endures, Connecting!In
  <2>2. \A row : Loose(row, rows, expired) \subseteq Loose(row, rows', expired')
    BY <1>1 DEF Loose, Connecting!In
  <2>3. ASSUME NEW t \in Transactions PROVE Calm(exchanges'[t], rows', expired')
    <3>1. Calm(exchanges[t], rows, expired)
      BY DEF ConnectionsInvariant, GrantsLast
    <3> QED BY <1>1, <2>2, <3>1 DEF Calm
  <2>4. \A t, o \in Transactions : exchanges'[t] # Connecting!Idle /\ exchanges'[o] # Connecting!Idle => t = o
    BY <1>1 DEF ConnectionsInvariant, GrantsLast
  <2> QED BY <2>1, <2>3, <2>4 DEF GrantsLast
<1> QED BY <1>5, <1>6, <1>7, <1>8 DEF ConnectionsInvariant

\* Hence every step keeps the invariant of the connections.
LEMMA ConnectionsStep == ConnectionsInvariant /\ [Connecting!Next]_Connecting!vars => ConnectionsInvariant'
<1> SUFFICES ASSUME ConnectionsInvariant, [Connecting!Next]_Connecting!vars PROVE ConnectionsInvariant'
  OBVIOUS
<1>1. CASE UNCHANGED Connecting!vars
  BY <1>1 DEF Connecting!vars, ConnectionsInvariant, ConnectionsTyped, DeletionsExclude, OneCredential, GrantsLast, Endures
<1>2. ASSUME NEW t \in Transactions, Connecting!Rollback(t) PROVE ConnectionsInvariant'
  BY <1>2, RollbackStep DEF Connecting!Rollback
<1> QED BY <1>1, <1>2, BeginStep, PickStep, DeleteRowStep, EndDeletionStep, IssueStep, ConnectStep,
           InsertStep, FinishStep, ExpireStep DEF Connecting!Next

(***************************************************************************)
(* The rows of the four tables and the requests are what the code allows.  *)
(***************************************************************************)
THEOREM ConnectionsTypeCorrect == Connecting!Spec => []Connecting!TypeOK
<1>1. ConnectionsInvariant => Connecting!TypeOK
  BY DEF ConnectionsInvariant, ConnectionsTyped, Connecting!TypeOK, Exchange
<1> QED BY <1>1, ConnectionsInit, ConnectionsStep, PTL DEF Connecting!Spec

(***************************************************************************)
(* A grant never has two refresh tokens (RefreshOAuthAccessToken,          *)
(* ExchangeOAuthAuthorizationCode), however many requests send its code or *)
(* token, and wherever they wait, fail or are cut off.                     *)
(***************************************************************************)
THEOREM OneRefreshToken == Connecting!Spec => []OneRefreshTokenPerGrant
<1>1. ConnectionsInvariant => OneRefreshTokenPerGrant
  <2> SUFFICES ASSUME ConnectionsInvariant, NEW g \in Grants
               PROVE  Cardinality({r \in Connecting!In("refresh", rows) : r.grant = g}) <= 1
    BY ConnectionsCardinality DEF OneRefreshTokenPerGrant, Connecting!OneRefreshTokenPerGrant
  <2>1. PICK S : S = {r \in Connecting!In("refresh", rows) : r.grant = g}
    OBVIOUS
  <2>2. \A r, q \in S : r = q
    BY <2>1 DEF ConnectionsInvariant, OneCredential, Credential, Connecting!In
  <2>3. Cardinality(S) <= 1
    <3>1. CASE S = {}
      BY <3>1, FS_EmptySet
    <3>2. CASE S # {}
      <4>1. PICK r : S = {r}
        BY <2>2, <3>2
      <4>2. Cardinality({r}) = 1
        BY FS_Singleton
      <4> QED BY <4>1, <4>2
    <3> QED BY <3>1, <3>2
  <2> QED BY <2>1, <2>3, Zenon
<1> QED BY <1>1, ConnectionsInit, ConnectionsStep, PTL DEF Connecting!Spec

(***************************************************************************)
(* While requests come one at a time, a completed grant keeps its refresh  *)
(* token and its connection through the renewals, sweeps and expiries of   *)
(* others (cleanupExpiredOAuthTokens), until a user or client ends it,     *)
(* another replaces it or it expires.                                      *)
(***************************************************************************)
THEOREM GrantsLastAlone == Connecting!Spec => []GrantsEndureAlone
<1>1. ConnectionsInvariant => GrantsEndureAlone
  BY DEF ConnectionsInvariant, GrantsLast, Endures, GrantsEndureAlone, Connecting!GrantsEndureAlone, Connecting!In
<1> QED BY <1>1, ConnectionsInit, ConnectionsStep, PTL DEF Connecting!Spec
--------------------------------------------------------------------------------
(***************************************************************************)
(* The flashes of new tokens. A secret is at one place at a time: not      *)
(* drawn, with the request that created it, in the flash of its user, with *)
(* the request that took it, on a page, or lost with a page that failed. A *)
(* request that is alone finds the flash it has set, unless the lifetime   *)
(* is over.                                                                *)
(***************************************************************************)
Visit ==
  [step : {"created", "page", "taken", "done"}, user : User, token : Token \cup {None},
   got : Token \cup {None}, set : Nat, alone : BOOLEAN]

TokensTyped ==
  /\ time \in 0..MaxVisitTime
  /\ owner \in [Token -> User \cup {None}]
  /\ unused \subseteq Token
  /\ flashes \in [User -> Creating!Flash \cup {Creating!NoFlash}]
  /\ visits \in [Requests -> Visit \cup {Creating!Idle}]
  /\ shown \in [Token -> Nat]

\* The request r has the secret t at hand, new or taken; the flash of u holds it.
Carries(r, t) ==
  \/ visits[r].step = "created" /\ visits[r].token = t
  \/ visits[r].step = "taken" /\ visits[r].got = t
Holds(u, t) == flashes[u] # Creating!NoFlash /\ flashes[u].token = t

\* A secret that is not drawn, and one that is on its way, has not been shown.
SecretsAreFresh ==
  \A t \in Token :
    /\ t \in unused => /\ shown[t] = 0 /\ owner[t] = None
                       /\ \A r \in Requests : ~Carries(r, t)
                       /\ \A u \in User : ~Holds(u, t)
    /\ \A r \in Requests : Carries(r, t) =>
         /\ shown[t] = 0 /\ owner[t] \in {visits[r].user, None}
         /\ \A u \in User : ~Holds(u, t)
    /\ \A u \in User : Holds(u, t) => shown[t] = 0 /\ owner[t] \in {u, None}

\* Nobody else has it.
SecretsAreAlone ==
  \A t \in Token :
    /\ \A r, q \in Requests : Carries(r, t) /\ Carries(q, t) => r = q
    /\ \A u, v \in User : Holds(u, t) /\ Holds(v, t) => u = v

\* The flash that a page waits for is there as long as it lives.
FlashesWait ==
  \A r \in Requests :
    LET x == visits[r] IN
    x.step = "page" /\ x.alone /\ x.token # None /\ time < x.set + Lifetime =>
      flashes[x.user] = [token |-> x.token, expires |-> x.set + Lifetime]

\* What a page takes and shows was drawn, is its user's and is not shown again.
PagesShow ==
  /\ \A r \in Requests : visits[r].step \in {"taken", "done"} =>
       LET x == visits[r] IN
       /\ x.alone /\ x.token # None => x.got = x.token
       /\ x.got # None => x.got \notin unused /\ owner[x.got] \in {x.user, None}
  /\ \A t \in Token : shown[t] <= 1

TokensInvariant == TokensTyped /\ SecretsAreFresh /\ SecretsAreAlone /\ FlashesWait /\ PagesShow

\* The inductive invariant, initially.
LEMMA TokensInit ==
  Creating!Init => TokensInvariant
BY FlashesExpire DEF Creating!FlashesExpire, Creating!Init, TokensInvariant, TokensTyped, SecretsAreFresh, SecretsAreAlone, FlashesWait, PagesShow,
       Carries, Holds, Creating!Idle, Creating!NoFlash

\* A request that is not idle has the fields of one.
LEMMA Visits ==
  ASSUME TokensTyped, NEW r \in Requests, visits[r] # Creating!Idle
  PROVE  visits[r] \in Visit
BY DEF TokensTyped

\* A secret that waits is one.
LEMMA Flashes ==
  ASSUME TokensTyped, NEW u \in User, flashes[u] # Creating!NoFlash
  PROVE  flashes[u] \in Creating!Flash
BY DEF TokensTyped

\* A request that is new, ends, or loses its claim to a flash disturbs nothing.
LEMMA PassingStep ==
  ASSUME TokensInvariant, UNCHANGED <<time, owner, unused, flashes, shown>>,
         visits' \in [Requests -> Visit \cup {Creating!Idle}],
         \A r \in Requests :
           \/ visits'[r] = visits[r]
           \/ visits'[r] = Creating!Idle
           \/ visits'[r].step \in {"created", "page"} /\ visits'[r].token = None
  PROVE  TokensInvariant'
<1> USE DEF TokensInvariant
<1>1. TokensTyped'
  BY DEF TokensTyped
<1>2. \A r \in Requests, t \in Token :
        Carries(r, t)' => Carries(r, t) /\ visits'[r] = visits[r]
  BY FlashesExpire DEF Carries, Creating!Idle, Creating!FlashesExpire
<1>3. \A u \in User, t \in Token : Holds(u, t)' <=> Holds(u, t)
  BY DEF Holds
<1>4. SecretsAreFresh' /\ SecretsAreAlone'
  BY <1>2, <1>3 DEF SecretsAreFresh, SecretsAreAlone
<1>5. FlashesWait'
  BY DEF FlashesWait, Creating!Idle
<1>6. PagesShow'
  BY DEF PagesShow, Creating!Idle
<1> QED BY <1>1, <1>4, <1>5, <1>6

\* The steps. one after another: a new secret is in no page and waits nowhere.
LEMMA CreateStep ==
  ASSUME TokensInvariant, NEW r \in Requests, NEW u \in User, NEW t \in Token,
         Creating!CreateAPIToken(r, u, t)
  PROVE  TokensInvariant'
<1> USE DEF TokensInvariant
<1> DEFINE x == Creating!Request("created", u, t)
<1>1. /\ t \in unused /\ unused' = unused \ {t} /\ UNCHANGED <<time, flashes, shown>>
      /\ owner' = [owner EXCEPT ![t] = u] /\ visits' = [visits EXCEPT ![r] = x]
  BY DEF Creating!CreateAPIToken
<1>2. x \in Visit /\ x.step = "created" /\ x.user = u /\ x.token = t
  BY DEF Creating!Request, Visit
<1> HIDE DEF x
<1>3. TokensTyped'
  BY <1>1, <1>2 DEF TokensTyped
<1>4. /\ visits'[r] = x /\ \A q \in Requests \ {r} : visits'[q] = visits[q]
      /\ owner'[t] = u /\ \A s \in Token \ {t} : owner'[s] = owner[s]
  BY <1>1 DEF TokensTyped
<1>5. /\ shown[t] = 0 /\ \A q \in Requests : ~Carries(q, t)
      /\ \A v \in User : ~Holds(v, t)
  BY <1>1 DEF SecretsAreFresh
<1>6. /\ \A q \in Requests, s \in Token :
           Carries(q, s)' <=> (q = r /\ s = t) \/ (q # r /\ Carries(q, s))
      /\ \A v \in User, s \in Token : Holds(v, s)' <=> Holds(v, s)
  BY <1>1, <1>2, <1>4 DEF Carries, Holds
<1>7. SecretsAreFresh'
  BY <1>1, <1>2, <1>4, <1>5, <1>6 DEF SecretsAreFresh
<1>8. SecretsAreAlone'
  BY <1>5, <1>6 DEF SecretsAreAlone
<1>9. FlashesWait'
  BY <1>1, <1>2, <1>4 DEF FlashesWait
<1>10. PagesShow'
  <2>1. ASSUME NEW q \in Requests \ {r}, visits[q].step \in {"taken", "done"},
               visits[q].got # None
        PROVE  visits[q].got \in Token \ {t}
    BY <1>1, <2>1, Visits DEF PagesShow, Visit, Creating!Idle
  <2> QED BY <1>1, <1>2, <1>4, <2>1 DEF PagesShow
<1> QED BY <1>3, <1>7, <1>8, <1>9, <1>10

\* The others of the same user are no longer alone.
LEMMA DisturbedRequests ==
  ASSUME TokensTyped, NEW r \in Requests, NEW now \in Visit, Creating!Disturb(r, now)
  PROVE  /\ visits' \in [Requests -> Visit \cup {Creating!Idle}]
         /\ visits'[r] = now
         /\ \A q \in Requests \ {r} :
              \/ visits'[q] = visits[q] /\ ~(visits[q].step = "page" /\ visits[q].user = now.user)
              \/ /\ visits'[q].step = "page" /\ visits'[q].alone = FALSE
                 /\ visits[q].step = "page"
<1> DEFINE lost(q) == [visits[q] EXCEPT !.alone = FALSE]
<1>1. visits' = [q \in Requests |->
        IF q = r THEN now
        ELSE IF visits[q].step = "page" /\ visits[q].user = now.user
        THEN lost(q) ELSE visits[q]]
  BY DEF Creating!Disturb
<1>2. ASSUME NEW q \in Requests, visits[q].step = "page"
      PROVE  lost(q) \in Visit /\ lost(q).step = "page" /\ lost(q).alone = FALSE
  <2>1. visits[q] \in Visit
    BY <1>2, Visits DEF Creating!Idle
  <2> QED BY <1>2, <2>1 DEF Visit
<1> HIDE DEF lost
<1> QED BY <1>1, <1>2 DEF TokensTyped

LEMMA SetFlashStep ==
  ASSUME TokensInvariant, NEW r \in Requests, Creating!SetFlash(r)
  PROVE  TokensInvariant'
<1> USE DEF TokensInvariant
<1> DEFINE x == visits[r]
           u == x.user
           flash == [token |-> x.token, expires |-> time + Lifetime]
           now == [x EXCEPT !.step = "page", !.set = time]
<1>1. /\ x.step = "created" /\ UNCHANGED <<time, owner, unused, shown>>
      /\ flashes' = [v \in User |-> IF v = u THEN flash
                                    ELSE IF flashes[v].expires > time THEN flashes[v] ELSE Creating!NoFlash]
      /\ Creating!Disturb(r, now)
  BY DEF Creating!SetFlash
<1>2. x \in Visit /\ u \in User /\ x.token \in Token \cup {None} /\ time \in Nat
  <2>1. x # Creating!Idle
    BY <1>1 DEF Creating!Idle
  <2> QED BY <2>1, Visits DEF Visit, TokensTyped
<1>3. flash \in Creating!Flash /\ flash.token = x.token /\ flash # Creating!NoFlash
  BY FlashesExpire, <1>2 DEF Creating!Flash, Creating!NoFlash, TokensTyped, Creating!FlashesExpire
<1>4. now \in Visit /\ now.step = "page" /\ now.token = x.token /\ now.user = u /\ now.set = time
  BY <1>2 DEF Visit
<1>5. flashes'[u] = flash /\ \A v \in User \ {u} : flashes'[v] = flashes[v] \/ flashes'[v] = Creating!NoFlash
  BY <1>1, <1>2
<1>6. flashes' \in [User -> Creating!Flash \cup {Creating!NoFlash}]
  BY <1>1, <1>3 DEF TokensTyped
<1>7. /\ visits' \in [Requests -> Visit \cup {Creating!Idle}]
      /\ visits'[r] = now
      /\ \A q \in Requests \ {r} :
           \/ visits'[q] = visits[q] /\ ~(visits[q].step = "page" /\ visits[q].user = u)
           \/ /\ visits'[q].step = "page" /\ visits'[q].alone = FALSE
              /\ visits[q].step = "page"
  <2> HIDE DEF now
  <2>1. Creating!Disturb(r, now) /\ now \in Visit /\ now.user = u
    BY <1>1, <1>4
  <2> HIDE DEF x, u
  <2> QED BY <2>1, DisturbedRequests
<1>8. TokensTyped'
  BY <1>1, <1>6, <1>7 DEF TokensTyped
<1>9. FlashesWait'
  <2>1. ASSUME NEW q \in Requests \ {r}, visits'[q] = visits[q], visits[q].step = "page",
               visits[q].user # u, visits[q].alone, visits[q].token # None,
               time < visits[q].set + Lifetime
        PROVE  flashes'[visits[q].user] =
                 [token |-> visits[q].token, expires |-> visits[q].set + Lifetime]
    <3>1. visits[q] \in Visit
      BY <2>1, Visits DEF Creating!Idle
    <3>2. flashes[visits[q].user] =
            [token |-> visits[q].token, expires |-> visits[q].set + Lifetime]
      BY <2>1 DEF FlashesWait
    <3>3. flashes[visits[q].user].expires > time
      BY FlashesExpire, <1>2, <2>1, <3>1, <3>2 DEF Visit, Creating!FlashesExpire
    <3> QED BY <1>1, <2>1, <3>1, <3>2, <3>3 DEF Visit
  <2>2. flashes'[now.user] = [token |-> now.token, expires |-> now.set + Lifetime]
    BY <1>4, <1>5
  <2> HIDE DEF now
  <2> QED BY <1>1, <1>7, <2>1, <2>2 DEF FlashesWait
<1> HIDE DEF now, flash
<1>10. /\ \A q \in Requests, s \in Token : Carries(q, s)' <=> q # r /\ Carries(q, s)
       /\ \A v \in User, s \in Token :
            Holds(v, s)' => (v = u /\ s = x.token) \/ (v # u /\ Holds(v, s))
  BY <1>3, <1>4, <1>5, <1>7 DEF Carries, Holds
<1>11. x.token \in Token => Carries(r, x.token)
  BY <1>1 DEF Carries
<1>12. SecretsAreFresh'
  <2> SUFFICES ASSUME NEW t \in Token
               PROVE  /\ t \in unused => /\ shown[t] = 0 /\ owner[t] = None
                                         /\ \A q \in Requests : ~Carries(q, t)'
                                         /\ \A v \in User : ~Holds(v, t)'
                      /\ \A q \in Requests : Carries(q, t)' =>
                           /\ shown[t] = 0 /\ owner[t] \in {visits'[q].user, None}
                           /\ \A v \in User : ~Holds(v, t)'
                      /\ \A v \in User : Holds(v, t)' => shown[t] = 0 /\ owner[t] \in {v, None}
    BY <1>1 DEF SecretsAreFresh
  <2>1. t \in unused => /\ shown[t] = 0 /\ owner[t] = None
                        /\ \A q \in Requests : ~Carries(q, t)'
                        /\ \A v \in User : ~Holds(v, t)'
    BY <1>10, <1>11 DEF SecretsAreFresh
  <2>2. ASSUME NEW q \in Requests, Carries(q, t)'
        PROVE  /\ shown[t] = 0 /\ owner[t] \in {visits'[q].user, None}
               /\ \A v \in User : ~Holds(v, t)'
    <3>1. q # r /\ Carries(q, t) /\ visits'[q] = visits[q]
      BY <1>7, <1>10, <2>2 DEF Carries
    <3>2. t # x.token
      BY <1>11, <3>1 DEF SecretsAreAlone
    <3> QED BY <1>10, <3>1, <3>2 DEF SecretsAreFresh
  <2>3. ASSUME NEW v \in User, Holds(v, t)'
        PROVE  shown[t] = 0 /\ owner[t] \in {v, None}
    BY <1>10, <1>11, <2>3 DEF SecretsAreFresh
  <2> QED BY <2>1, <2>2, <2>3
<1>13. SecretsAreAlone'
  <2>1. x.token \in Token => \A v \in User : ~Holds(v, x.token)
    BY <1>11 DEF SecretsAreFresh
  <2> QED BY <1>10, <2>1 DEF SecretsAreAlone
<1>14. PagesShow'
  BY <1>1, <1>4, <1>7 DEF PagesShow
<1> QED BY <1>8, <1>9, <1>12, <1>13, <1>14

LEMMA TakeFlashStep ==
  ASSUME TokensInvariant, NEW r \in Requests, Creating!TakeFlash(r)
  PROVE  TokensInvariant'
<1> USE DEF TokensInvariant
<1> DEFINE x == visits[r]
           u == x.user
           flash == flashes[u]
           got == IF flash.expires > time THEN flash.token ELSE None
           now == [x EXCEPT !.step = "taken", !.got = got, !.set = 0,
                            !.alone = @ /\ time < x.set + Lifetime]
<1>1. /\ x.step = "page" /\ UNCHANGED <<time, owner, unused, shown>>
      /\ flashes' = [flashes EXCEPT ![u] = Creating!NoFlash]
      /\ Creating!Disturb(r, now)
  BY DEF Creating!TakeFlash
<1>2. x \in Visit /\ u \in User /\ x.set \in Nat /\ x.alone \in BOOLEAN /\ time \in Nat
  <2>1. x # Creating!Idle
    BY <1>1 DEF Creating!Idle
  <2> QED BY <2>1, Visits DEF Visit, TokensTyped
<1>3. got # None => got \in Token /\ Holds(u, got)
  <2>1. flash = Creating!NoFlash => got = None
    BY <1>2 DEF Creating!NoFlash
  <2>2. flash # Creating!NoFlash => flash.token \in Token \cup {None}
    BY <1>2, Flashes DEF Creating!Flash
  <2> QED BY <2>1, <2>2 DEF Holds
<1>4. got \in Token \cup {None}
  BY <1>3
<1>5. x.alone /\ time < x.set + Lifetime /\ x.token # None => got = x.token
  <2> SUFFICES ASSUME x.alone, time < x.set + Lifetime, x.token # None PROVE got = x.token
    OBVIOUS
  <2>1. flash = [token |-> x.token, expires |-> x.set + Lifetime]
    BY <1>1 DEF FlashesWait
  <2> QED BY FlashesExpire, <1>2, <2>1 DEF Creating!FlashesExpire
<1> HIDE DEF flash, got
<1>6. /\ now \in Visit /\ now.step = "taken" /\ now.user = u /\ now.got = got
      /\ now.token = x.token /\ (now.alone <=> x.alone /\ time < x.set + Lifetime)
  BY <1>2, <1>4 DEF Visit
<1> HIDE DEF now
<1>7. flashes'[u] = Creating!NoFlash /\ \A v \in User \ {u} : flashes'[v] = flashes[v]
  BY <1>1, <1>2 DEF TokensTyped
<1>8. /\ visits' \in [Requests -> Visit \cup {Creating!Idle}]
      /\ visits'[r] = now
      /\ \A q \in Requests \ {r} :
           \/ visits'[q] = visits[q] /\ ~(visits[q].step = "page" /\ visits[q].user = u)
           \/ /\ visits'[q].step = "page" /\ visits'[q].alone = FALSE
              /\ visits[q].step = "page"
  <2>1. Creating!Disturb(r, now) /\ now \in Visit /\ now.user = u
    BY <1>1, <1>6
  <2> HIDE DEF x, u
  <2> QED BY <2>1, DisturbedRequests
<1>9. TokensTyped'
  BY <1>1, <1>2, <1>4, <1>8 DEF TokensTyped
<1>10. /\ \A q \in Requests, s \in Token :
            Carries(q, s)' <=> (q = r /\ s = got) \/ (q # r /\ Carries(q, s))
       /\ \A v \in User, s \in Token : Holds(v, s)' <=> v # u /\ Holds(v, s)
  BY <1>1, <1>6, <1>7, <1>8 DEF Carries, Holds
<1>11. got # None => /\ shown[got] = 0 /\ owner[got] \in {u, None} /\ got \notin unused
                     /\ \A q \in Requests : ~Carries(q, got)
  BY <1>2, <1>3 DEF SecretsAreFresh
<1>12. \A v \in User, s \in Token : v # u /\ Holds(v, s) => s # got
  BY FlashesExpire, <1>2, <1>3 DEF SecretsAreAlone, Creating!FlashesExpire
<1>13. \A q \in Requests, s \in Token : q # r /\ Carries(q, s) => s # got /\ visits'[q] = visits[q]
  <2>1. None \notin Token
    BY FlashesExpire DEF Creating!FlashesExpire
  <2>2. ASSUME NEW q \in Requests, NEW s \in Token, q # r, Carries(q, s) PROVE visits'[q] = visits[q]
    BY <1>8, <2>2 DEF Carries
  <2> QED BY <1>11, <2>1, <2>2
<1>14. SecretsAreFresh'
  <2> SUFFICES ASSUME NEW t \in Token
               PROVE  /\ t \in unused => /\ shown[t] = 0 /\ owner[t] = None
                                         /\ \A q \in Requests : ~Carries(q, t)'
                                         /\ \A v \in User : ~Holds(v, t)'
                      /\ \A q \in Requests : Carries(q, t)' =>
                           /\ shown[t] = 0 /\ owner[t] \in {visits'[q].user, None}
                           /\ \A v \in User : ~Holds(v, t)'
                      /\ \A v \in User : Holds(v, t)' => shown[t] = 0 /\ owner[t] \in {v, None}
    BY <1>1 DEF SecretsAreFresh
  <2> None \notin Token
    BY FlashesExpire DEF Creating!FlashesExpire
  <2>1. t \in unused => /\ shown[t] = 0 /\ owner[t] = None
                        /\ \A q \in Requests : ~Carries(q, t)'
                        /\ \A v \in User : ~Holds(v, t)'
    BY <1>10, <1>11 DEF SecretsAreFresh
  <2>2. ASSUME NEW q \in Requests, Carries(q, t)'
        PROVE  /\ shown[t] = 0 /\ owner[t] \in {visits'[q].user, None}
               /\ \A v \in User : ~Holds(v, t)'
    <3>1. CASE q = r /\ t = got
      BY <1>6, <1>8, <1>10, <1>11, <1>12, <3>1
    <3>2. CASE q # r /\ Carries(q, t)
      BY <1>10, <1>13, <3>2 DEF SecretsAreFresh
    <3> QED BY <1>10, <2>2, <3>1, <3>2
  <2>3. ASSUME NEW v \in User, Holds(v, t)'
        PROVE  shown[t] = 0 /\ owner[t] \in {v, None}
    BY <1>10, <2>3 DEF SecretsAreFresh
  <2> QED BY <2>1, <2>2, <2>3
<1>15. SecretsAreAlone'
  BY <1>10, <1>13 DEF SecretsAreAlone
<1>16. FlashesWait'
  <2> SUFFICES ASSUME NEW q \in Requests, visits'[q].step = "page", visits'[q].alone,
                      visits'[q].token # None, time < visits'[q].set + Lifetime
               PROVE  flashes'[visits'[q].user] =
                        [token |-> visits'[q].token, expires |-> visits'[q].set + Lifetime]
    BY <1>1 DEF FlashesWait
  <2>1. q # r /\ visits'[q] = visits[q] /\ visits[q].user # u
    BY <1>6, <1>8
  <2>2. visits[q].user \in User
    BY <2>1, Visits DEF Visit, Creating!Idle
  <2> QED BY <1>7, <2>1, <2>2 DEF FlashesWait
<1>17. PagesShow'
  <2>1. ASSUME NEW q \in Requests, visits'[q].step \in {"taken", "done"}
        PROVE  LET y == visits'[q] IN
               /\ y.alone /\ y.token # None => y.got = y.token
               /\ y.got # None => y.got \notin unused /\ owner[y.got] \in {y.user, None}
    <3>1. CASE q = r
      BY <1>5, <1>6, <1>8, <1>11, <3>1
    <3>2. CASE q # r
      BY <1>8, <2>1, <3>2 DEF PagesShow
    <3> QED BY <3>1, <3>2
  <2> QED BY <1>1, <2>1 DEF PagesShow
<1> QED BY <1>9, <1>14, <1>15, <1>16, <1>17

\* The page shows what was taken for it, which nobody else has.
LEMMA RenderStep ==
  ASSUME TokensInvariant, NEW r \in Requests, Creating!RenderAccount(r)
  PROVE  TokensInvariant'
<1> USE DEF TokensInvariant
<1> DEFINE x == visits[r]
           now == [x EXCEPT !.step = "done"]
<1>1. /\ x.step = "taken" /\ UNCHANGED <<time, owner, unused, flashes>>
      /\ shown' = IF x.got = None THEN shown ELSE [shown EXCEPT ![x.got] = @ + 1]
      /\ visits' = [visits EXCEPT ![r] = now]
  BY DEF Creating!RenderAccount
<1>2. x \in Visit /\ x.got \in Token \cup {None}
  <2>1. x # Creating!Idle
    BY <1>1 DEF Creating!Idle
  <2> QED BY <2>1, Visits DEF Visit
<1>3. /\ now \in Visit /\ now.step = "done" /\ now.user = x.user /\ now.got = x.got
      /\ now.token = x.token /\ now.alone = x.alone
  BY <1>2 DEF Visit
<1> HIDE DEF now
<1>4. visits'[r] = now /\ \A q \in Requests \ {r} : visits'[q] = visits[q]
  BY <1>1 DEF TokensTyped
<1>5. x.got # None => Carries(r, x.got) /\ shown[x.got] = 0 /\ shown'[x.got] = 1
  <2> SUFFICES ASSUME x.got # None PROVE Carries(r, x.got) /\ shown[x.got] = 0 /\ shown'[x.got] = 1
    OBVIOUS
  <2>1. Carries(r, x.got)
    BY <1>1 DEF Carries
  <2>2. shown[x.got] = 0
    BY <1>2, <2>1 DEF SecretsAreFresh
  <2> QED BY <1>1, <1>2, <2>1, <2>2 DEF TokensTyped
<1>6. \A s \in Token \ {x.got} : shown'[s] = shown[s]
  BY <1>1 DEF TokensTyped
<1>7. /\ \A q \in Requests, s \in Token : Carries(q, s)' <=> q # r /\ Carries(q, s)
      /\ \A v \in User, s \in Token : Holds(v, s)' <=> Holds(v, s)
  BY <1>1, <1>3, <1>4 DEF Carries, Holds
<1>8. TokensTyped'
  BY <1>1, <1>2, <1>3 DEF TokensTyped
<1>9. /\ \A q \in Requests, s \in Token : q # r /\ Carries(q, s) => shown'[s] = shown[s]
      /\ \A v \in User, s \in Token : Holds(v, s) => shown'[s] = shown[s]
      /\ \A s \in unused : shown'[s] = shown[s]
  <2>1. ASSUME NEW s \in Token, s = x.got
        PROVE  /\ \A q \in Requests : q # r => ~Carries(q, s)
               /\ \A v \in User : ~Holds(v, s)
               /\ s \notin unused
    <3>1. Carries(r, s)
      BY <1>5, <2>1, FlashesExpire DEF Creating!FlashesExpire
    <3> QED BY <3>1 DEF SecretsAreFresh, SecretsAreAlone
  <2> QED BY <1>6, <2>1 DEF TokensTyped
<1>10. SecretsAreFresh'
  BY <1>1, <1>4, <1>7, <1>9 DEF SecretsAreFresh, TokensTyped
<1>11. SecretsAreAlone'
  BY <1>7 DEF SecretsAreAlone
<1>12. FlashesWait'
  BY <1>1, <1>3, <1>4 DEF FlashesWait
<1>13. PagesShow'
  <2>1. \A s \in Token : shown'[s] <= 1
    BY <1>5, <1>6, FlashesExpire DEF PagesShow, Creating!FlashesExpire
  <2> QED BY <1>1, <1>3, <1>4, <2>1 DEF PagesShow
<1> QED BY <1>8, <1>10, <1>11, <1>12, <1>13

LEMMA RevokeTokenStep ==
  ASSUME TokensInvariant, NEW u \in User, NEW t \in Token, Creating!RevokeAPIToken(u, t)
  PROVE  TokensInvariant'
<1> USE DEF TokensInvariant
<1>1. /\ UNCHANGED <<time, unused, flashes, visits, shown>>
      /\ owner' = [owner EXCEPT ![t] = None]
  BY DEF Creating!RevokeAPIToken
<1>2. owner'[t] = None /\ \A s \in Token \ {t} : owner'[s] = owner[s]
  BY <1>1 DEF TokensTyped
<1>3. TokensTyped'
  BY <1>1 DEF TokensTyped
<1>4. SecretsAreFresh' /\ SecretsAreAlone' /\ FlashesWait'
  BY <1>1, <1>2 DEF SecretsAreFresh, SecretsAreAlone, FlashesWait, Carries, Holds
<1>5. PagesShow'
  <2>1. \A r \in Requests : visits[r].step \in {"taken", "done"} /\ visits[r].got # None =>
          visits[r].got \in Token
    BY Visits DEF Visit, Creating!Idle
  <2> QED BY <1>1, <1>2, <2>1 DEF PagesShow
<1> QED BY <1>3, <1>4, <1>5

LEMMA RestartStep ==
  ASSUME TokensInvariant, Creating!Restart
  PROVE  TokensInvariant'
<1> USE DEF TokensInvariant
<1>1. /\ \A u \in User : flashes'[u] = Creating!NoFlash
      /\ UNCHANGED <<time, owner, unused, shown>>
  BY DEF Creating!Restart
<1>2. ASSUME NEW r \in Requests
      PROVE  \/ visits'[r] = Creating!Idle
             \/ /\ visits'[r] \in Visit
                /\ visits'[r].step = "page" /\ visits'[r].alone = FALSE
  <2>1. CASE visits[r].step = "page"
    <3>1. visits[r] \in Visit
      BY <2>1, Visits DEF Creating!Idle
    <3>2. visits'[r] = [visits[r] EXCEPT !.alone = FALSE]
      BY <2>1 DEF Creating!Restart
    <3> QED BY <2>1, <3>1, <3>2 DEF Visit
  <2> QED BY <2>1 DEF Creating!Restart
<1>3. visits' \in [Requests -> Visit \cup {Creating!Idle}]
  BY <1>2 DEF Creating!Restart
<1>4. TokensTyped'
  BY <1>1, <1>3 DEF TokensTyped, Creating!Restart
<1>5. Creating!Idle.step = "idle"
  BY DEF Creating!Idle
<1>6. \A r \in Requests, t \in Token : ~Carries(r, t)'
  BY <1>2, <1>5 DEF Carries
<1>7. SecretsAreFresh' /\ SecretsAreAlone'
  BY <1>1, <1>6 DEF SecretsAreFresh, SecretsAreAlone, Holds
<1>8. FlashesWait' /\ PagesShow'
  BY <1>1, <1>2, <1>5 DEF FlashesWait, PagesShow
<1> QED BY <1>4, <1>7, <1>8

LEMMA TokensTickStep ==
  ASSUME TokensInvariant, Creating!Tick
  PROVE  TokensInvariant'
<1> USE DEF TokensInvariant
<1>1. /\ time \in Nat /\ time < MaxVisitTime /\ time' = time + 1
      /\ UNCHANGED <<owner, unused, flashes, visits, shown>>
  BY DEF Creating!Tick, TokensTyped
<1>2. TokensTyped'
  BY FlashesExpire, <1>1 DEF TokensTyped, Creating!FlashesExpire
<1>3. FlashesWait'
  <2>1. \A r \in Requests : visits[r].step = "page" => visits[r].set \in Nat
    BY Visits DEF Visit, Creating!Idle
  <2> QED BY FlashesExpire, <1>1, <2>1 DEF FlashesWait, Creating!FlashesExpire
<1>4. SecretsAreFresh' /\ SecretsAreAlone' /\ PagesShow'
  BY <1>1 DEF SecretsAreFresh, SecretsAreAlone, PagesShow, Carries, Holds
<1> QED BY <1>2, <1>3, <1>4

\* Hence every step.
LEMMA TokensStep ==
  TokensInvariant /\ [Creating!Next]_Creating!vars => TokensInvariant'
<1> SUFFICES ASSUME TokensInvariant, [Creating!Next]_Creating!vars PROVE TokensInvariant'
  OBVIOUS
<1>1. CASE UNCHANGED Creating!vars
  BY <1>1 DEF Creating!vars, TokensInvariant, TokensTyped, SecretsAreFresh, SecretsAreAlone, FlashesWait, PagesShow,
              Carries, Holds
<1>2. ASSUME NEW r \in Requests, NEW u \in User, Creating!RefuseName(r, u) \/ Creating!OpenAccount(r, u)
      PROVE  TokensInvariant'
  <2>1. PICK step \in {"created", "page"} :
          visits' = [visits EXCEPT ![r] = Creating!Request(step, u, None)]
    BY <1>2 DEF Creating!RefuseName, Creating!OpenAccount
  <2>2. Creating!Request(step, u, None) \in Visit
    BY DEF Creating!Request, Visit
  <2>3. /\ Creating!Request(step, u, None).step \in {"created", "page"}
        /\ Creating!Request(step, u, None).token = None
    BY DEF Creating!Request
  <2>4. UNCHANGED <<time, owner, unused, flashes, shown>>
    BY <1>2 DEF Creating!RefuseName, Creating!OpenAccount
  <2>5. visits' \in [Requests -> Visit \cup {Creating!Idle}]
    BY <2>1, <2>2 DEF TokensInvariant, TokensTyped
  <2>6. \A q \in Requests :
           \/ visits'[q] = visits[q]
           \/ visits'[q].step \in {"created", "page"} /\ visits'[q].token = None
    BY <2>1, <2>3 DEF TokensInvariant, TokensTyped
  <2> QED BY <2>4, <2>5, <2>6, PassingStep
<1>3. ASSUME NEW r \in Requests, Creating!End(r) \/ Creating!FailAccount(r) PROVE TokensInvariant'
  <2>1. /\ visits' = [visits EXCEPT ![r] = Creating!Idle]
        /\ UNCHANGED <<time, owner, unused, flashes, shown>>
    BY <1>3 DEF Creating!End, Creating!FailAccount
  <2>2. visits' \in [Requests -> Visit \cup {Creating!Idle}]
    BY <2>1 DEF TokensInvariant, TokensTyped
  <2>3. \A q \in Requests : visits'[q] = visits[q] \/ visits'[q] = Creating!Idle
    BY <2>1 DEF TokensInvariant, TokensTyped
  <2> QED BY <2>1, <2>2, <2>3, PassingStep
<1> QED BY <1>1, <1>2, <1>3, CreateStep, SetFlashStep, TakeFlashStep, RenderStep, RevokeTokenStep,
           TokensTickStep, RestartStep DEF Creating!Next

(***************************************************************************)
(* The memory of the server, the table of tokens and the requests are what *)
(* the code allows.                                                        *)
(***************************************************************************)
THEOREM TokensTypeCorrect ==
  Creating!Spec => []Creating!TypeOK
<1>1. TokensInvariant => Creating!TypeOK
  BY DEF TokensInvariant, TokensTyped, Creating!TypeOK, Visit
<1> QED BY TokensInit, TokensStep, <1>1, PTL DEF Creating!Spec

(***************************************************************************)
(* When the account page that a creator of a token is redirected to can be *)
(* shown (renderAccount), the new secret is on it, as long as that user    *)
(* has no other page or token at once, the server has not restarted and    *)
(* the flash has not expired (setAccountAPITokenFlash,                     *)
(* takeAccountAPITokenFlash).  Whoever else does what, and whatever        *)
(* fails, no secret is on two pages or on that of another user.            *)
(***************************************************************************)
THEOREM SecretsReachOwners ==
  Creating!Spec => []SecretsReachTheirOwner
<1>1. TokensInvariant => SecretsReachTheirOwner
  BY DEF TokensInvariant, PagesShow, SecretsReachTheirOwner, Creating!SecretsReachTheirOwner
<1> QED BY TokensInit, TokensStep, <1>1, PTL DEF Creating!Spec

================================================================================
