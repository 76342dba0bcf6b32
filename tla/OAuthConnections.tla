-------------------------- MODULE OAuthConnections --------------------------
(***************************************************************************)
(* What one user has granted one remote client: authorization codes, the   *)
(* connection they establish, and the access and refresh tokens that hang  *)
(* from it. Codes are exchanged and tokens refreshed in transactions; the  *)
(* other requests commit statement by statement. Several of them first     *)
(* sweep away what has expired and connections that nothing hangs from.    *)
(*                                                                         *)
(* A deleting statement picks its rows from a snapshot and then locks them *)
(* one at a time; a row another transaction holds is waited for, and       *)
(* skipped if it is gone by then (READ COMMITTED).                         *)
(***************************************************************************)
EXTENDS Naturals, Sequences, FiniteSets

CONSTANTS Grants,        \* the consents of the user, each with one code
          Transactions,  \* the requests the server can be serving at once
          Kinds,         \* bound: the kinds of request considered
          MaxOpen,       \* bound: how many of them overlap
          MaxIssued,     \* bound: the pairs of tokens inserted
          None

VARIABLES rows,     \* the committed rows of the four tables
          expired,  \* those whose expires_at has passed
          txs,      \* the requests being served
          issued,   \* the pairs of tokens inserted so far
          history,  \* what has become of each grant
          alone     \* history: no two requests have overlapped

vars == <<rows, expired, txs, issued, history, alone>>

\* A connection is named after the grant that established it.
Code(g)       == [table |-> "codes", grant |-> g, id |-> 0, connection |-> None]
Connection(g) == [table |-> "connections", grant |-> g, id |-> 0, connection |-> g]
Pair(g, n, c) == {[table |-> "access", grant |-> g, id |-> n, connection |-> c],
                  [table |-> "refresh", grant |-> g, id |-> n, connection |-> c]}

RowsOfTables ==
  {Code(g) : g \in Grants} \cup {Connection(g) : g \in Grants} \cup
  UNION {Pair(g, n, c) : g \in Grants, n \in 1..MaxIssued, c \in Grants}

In(table, set) == {r \in set : r.table = table}
TokensOf(c, set) == {r \in set \ {c} : r.connection = c.connection}

\* The statements of each request, in order.
Sweep == <<"expired", "orphans">>
Program(kind) ==
  CASE kind = "exchange"  -> <<"consume">> \o Sweep \o <<"connect", "access", "refresh", "insert">>
    [] kind = "renew"     -> Sweep \o <<"rotate", "insert">>
    [] kind = "authorize" -> Sweep \o <<"issue">>
    [] kind = "list"      -> Sweep
    [] OTHER              -> <<kind>>

RequestKinds == {"exchange", "renew", "authorize", "list", "revoke", "disconnect"}
KindsAreRequests ==
  Kinds \subseteq RequestKinds /\ MaxIssued \in Nat /\ None \notin Grants \cup RowsOfTables
Transactional == {"exchange", "renew"}   \* the others commit each statement

Idle == [kind |-> "none", left |-> <<>>, row |-> None, connection |-> None,
         picked |-> FALSE, wanted |-> {}, added |-> {}, deleted |-> {}]

Init ==
  /\ rows = {} /\ expired = {}
  /\ txs = [t \in Transactions |-> Idle]
  /\ issued = 0
  /\ history = [g \in Grants |-> "unused"]
  /\ alone = TRUE

Statement(t) == IF txs[t].left = <<>> THEN "none" ELSE Head(txs[t].left)
Others(t) == {o \in Transactions \ {t} : txs[o] # Idle}

\* What a statement of t sees: what is committed, as t has changed it.
View(t) == (rows \ txs[t].deleted) \cup txs[t].added

\* An upsert holds its connection against other writers, a new token holds the
\* connection it refers to against deletion, a deletion holds its row against all.
Upserted(t, c) == txs[t].connection = c /\ txs[t].kind = "exchange"
Referred(t, c) == TokensOf(c, txs[t].added) # {}

CanDelete(t, r) ==
  \A o \in Others(t) :
    /\ r \notin txs[o].deleted
    /\ r.table = "connections" => ~Upserted(o, r) /\ ~Referred(o, r)

-----------------------------------------------------------------------------
\* A request arrives, naming a code, a token, a connection or nothing.
Named(kind) ==
  CASE kind = "exchange"   -> {Code(g) : g \in {h \in Grants : history[h] # "unused"}}
    [] kind = "authorize"  -> {Code(g) : g \in {h \in Grants : history[h] = "unused"}}
    [] kind = "renew"      -> In("refresh", rows)
    [] kind = "revoke"     -> In("refresh", rows) \cup In("access", rows)
    [] kind = "disconnect" -> In("connections", rows)
    [] OTHER               -> {None}

Begin(t, kind) ==
  /\ txs[t] = Idle
  /\ Cardinality(Others(t)) < MaxOpen
  /\ \E r \in Named(kind) :
       txs' = [txs EXCEPT ![t].kind = kind, ![t].left = Program(kind), ![t].row = r]
  /\ alone' = (alone /\ Others(t) = {})
  /\ UNCHANGED <<rows, expired, issued, history>>

\* A plausible bug: a connection lives only as long as its access token.
OrphansOfAccess(seen) == {c \in In("connections", seen) : In("access", TokensOf(c, seen)) = {}}

Orphans(seen) == {c \in In("connections", seen) : TokensOf(c, seen) = {}}

\* The rows each deleting statement looks for.
Targets(t) ==
  LET seen == View(t)
      named == seen \cap {txs[t].row}
  IN  CASE Statement(t) \in {"consume", "rotate"}    -> named \ expired
        [] Statement(t) \in {"revoke", "disconnect"} -> named
        [] Statement(t) = "expired"                  -> seen \cap expired
        [] Statement(t) = "orphans"                  -> Orphans(seen)
        [] Statement(t) \in {"access", "refresh"} ->
             In(Statement(t), TokensOf(txs[t].connection, seen))

Deleting == {"consume", "rotate", "revoke", "disconnect", "expired", "orphans", "access", "refresh"}

\* A deleting statement takes its snapshot.
Pick(t) ==
  /\ Statement(t) \in Deleting /\ ~txs[t].picked
  /\ txs' = [txs EXCEPT ![t].picked = TRUE, ![t].wanted = Targets(t)]
  /\ UNCHANGED <<rows, expired, issued, history, alone>>

\* It deletes its rows one at a time; the tokens of a connection follow it.
DeleteRow(t, r) ==
  /\ r \in txs[t].wanted /\ CanDelete(t, r)
  /\ txs' = [txs EXCEPT
       ![t].wanted = (@ \ {r}) \cup
          (IF r \in In("connections", rows) THEN TokensOf(r, rows) \ txs[t].deleted ELSE {}),
       ![t].deleted = @ \cup ({r} \cap rows)]
  /\ UNCHANGED <<rows, expired, issued, history, alone>>

\* Grants whose refresh token a user or client has removed.
Removed(t) ==
  IF txs[t].kind \in {"revoke", "disconnect"}
  THEN {r.grant : r \in In("refresh", txs[t].deleted)} ELSE {}

\* Without its code or token, a request has failed. A plausible bug would be to
\* ask whether it was there, not whether this request has consumed it.
FailedIfExpired(t) == Statement(t) \in {"consume", "rotate"} /\ txs[t].row \in expired
Failed(t) == Statement(t) \in {"consume", "rotate"} /\ txs[t].row \notin txs[t].deleted

\* The statement ends.
EndDeletion(t) ==
  /\ txs[t].picked /\ txs[t].wanted = {}
  /\ LET next == [txs[t] EXCEPT !.left = Tail(@), !.picked = FALSE]
     IN  IF Failed(t)
         THEN txs' = [txs EXCEPT ![t] = Idle] /\ UNCHANGED <<rows, expired, history>>
         ELSE IF txs[t].kind \in Transactional
         THEN /\ txs' = [txs EXCEPT ![t] = IF Statement(t) = "rotate"
                           THEN [next EXCEPT !.connection = Connection(txs[t].row.connection)]
                           ELSE next]
              /\ UNCHANGED <<rows, expired, history>>
         ELSE /\ rows' = rows \ txs[t].deleted
              /\ expired' = expired \cap rows'
              /\ history' = [g \in Grants |-> IF g \in Removed(t) THEN "ended" ELSE history[g]]
              /\ txs' = [txs EXCEPT ![t] = [next EXCEPT !.deleted = {}]]
  /\ UNCHANGED <<issued, alone>>

\* CreateOAuthAuthorizationCode, after its sweep.
Issue(t) ==
  /\ Statement(t) = "issue" /\ history[txs[t].row.grant] = "unused"
  /\ rows' = rows \cup {txs[t].row}
  /\ history' = [history EXCEPT ![txs[t].row.grant] = "issued"]
  /\ txs' = [txs EXCEPT ![t].left = <<>>]
  /\ UNCHANGED <<expired, issued, alone>>

\* The connection is inserted, or updated if there is one. Either waits for
\* another transaction that is writing it.
Connect(t) ==
  LET present == In("connections", rows \ txs[t].deleted)
      renewed == IF present = {} THEN Connection(txs[t].row.grant) ELSE CHOOSE c \in present : TRUE
  IN  /\ Statement(t) = "connect"
      /\ \A o \in Others(t) : /\ In("connections", txs[o].added) = {}
                              /\ present \cap txs[o].deleted = {}
                              /\ ~\E c \in present : Upserted(o, c)
      /\ txs' = [txs EXCEPT ![t].left = Tail(@), ![t].connection = renewed,
                            ![t].added = @ \cup ({renewed} \ present)]
      /\ UNCHANGED <<rows, expired, issued, history, alone>>

\* insertOAuthTokens. The foreign key waits for a deletion of the connection and
\* fails if it is gone.
Insert(t) ==
  /\ Statement(t) = "insert" /\ issued < MaxIssued
  /\ \A o \in Others(t) : txs[t].connection \notin txs[o].deleted
  /\ IF txs[t].connection \in View(t)
     THEN /\ issued' = issued + 1
          /\ txs' = [txs EXCEPT ![t].left = Tail(@), ![t].added = @ \cup
               Pair(txs[t].row.grant, issued + 1, txs[t].connection.connection)]
     ELSE txs' = [txs EXCEPT ![t] = Idle] /\ UNCHANGED issued
  /\ UNCHANGED <<rows, expired, history, alone>>

\* An exchange leaves its grant in the place of the one before.
Finish(t) ==
  /\ txs[t] # Idle /\ txs[t].left = <<>>
  /\ rows' = View(t) /\ expired' = expired \cap rows'
  /\ history' = [g \in Grants |->
       IF txs[t].kind # "exchange" THEN history[g]
       ELSE IF g = txs[t].row.grant THEN "granted"
       ELSE IF history[g] \in {"granted", "ended"} THEN "replaced"
       ELSE history[g]]
  /\ txs' = [txs EXCEPT ![t] = Idle]
  /\ UNCHANGED <<issued, alone>>

\* The request is cut off: it loses its database connection, or it and another
\* wait for each other and the database aborts one of them.
Rollback(t) ==
  /\ txs[t] # Idle
  /\ txs' = [txs EXCEPT ![t] = Idle]
  /\ UNCHANGED <<rows, expired, issued, history, alone>>

\* Time passes: an access token expires long before the refresh token beside it.
Expire(r) ==
  /\ r \in rows \ (expired \cup In("connections", rows))
  /\ r.table = "refresh" => Pair(r.grant, r.id, r.connection) \cap rows \subseteq expired \cup {r}
  /\ expired' = expired \cup {r}
  /\ history' = IF r.table = "refresh" /\ history[r.grant] = "granted"
                THEN [history EXCEPT ![r.grant] = "ended"] ELSE history
  /\ UNCHANGED <<rows, txs, issued, alone>>

Next ==
  \/ \E t \in Transactions :
       \/ \E kind \in Kinds : Begin(t, kind)
       \/ Pick(t) \/ (\E r \in rows \cup txs[t].wanted : DeleteRow(t, r)) \/ EndDeletion(t)
       \/ Issue(t) \/ Connect(t) \/ Insert(t) \/ Finish(t) \/ Rollback(t)
  \/ \E r \in rows : Expire(r)

Spec == Init /\ [][Next]_vars

-----------------------------------------------------------------------------

TypeOK ==
  /\ rows \subseteq RowsOfTables /\ expired \subseteq RowsOfTables
  /\ issued \in 0..MaxIssued /\ alone \in BOOLEAN
  /\ history \in [Grants -> {"unused", "issued", "granted", "ended", "replaced"}]
  /\ \A t \in Transactions :
       /\ txs[t].kind \in RequestKinds \cup {"none"}
       /\ txs[t].wanted \cup txs[t].added \cup txs[t].deleted \subseteq RowsOfTables

\* A refresh token is used once, however often it is sent and whatever overlaps:
\* one grant never has two of them.
OneRefreshTokenPerGrant ==
  \A g \in Grants : Cardinality({r \in In("refresh", rows) : r.grant = g}) <= 1

\* A completed grant lasts: while nobody revokes, disconnects, authorizes again
\* or lets it expire, its refresh token and its connection are there.  It is so
\* while requests come one at a time; a cleanup that overlaps a new consent may
\* delete the connection that the consent has renewed.
GrantsEndureAlone ==
  alone => \A g \in Grants : history[g] = "granted" =>
    \E r \in In("refresh", rows) : r.grant = g /\ Connection(r.connection) \in rows
=============================================================================
