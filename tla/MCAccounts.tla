------------------------------ MODULE MCAccounts ------------------------------
(***************************************************************************)
(* The parts of Accounts share no row, so they are checked one at a time,  *)
(* in one model: "sessions", "invitations", "limits", "connections" with   *)
(* requests that overlap and "alone", one at a time but for longer, and    *)
(* "tokens", the account page.                                             *)
(***************************************************************************)
EXTENDS Accounts, TLC

CONSTANTS q1, q2,           \* two requests
          first, second     \* two of what a request is about

VARIABLE scenario

Two == {q1, q2}

\* Bound: requests overlap over one grant, and while they exchange and renew.
Overlapping == INSTANCE OAuthConnections
    WITH txs <- exchanges, Kinds <- {"authorize", "exchange", "renew", "disconnect"}
OfOneGrant == history'[second] = "unused"

\* Bound: two grants, one request at a time.
OneAtATime == INSTANCE OAuthConnections
    WITH txs <- exchanges, Kinds <- Asked, MaxOpen <- 1

everything == <<scenario, browsing, vars, limiting, connections, creating>>

ScenarioInit ==
    /\ scenario \in {"sessions", "invitations", "limits", "connections", "alone", "tokens"}
    /\ Browsing!Init /\ Init /\ Limiting!Init /\ Connecting!Init /\ Creating!Init

ScenarioNext ==
    /\ \/ scenario = "sessions" /\ Browsing!Next
       \/ scenario # "sessions" /\ UNCHANGED browsing
    /\ \/ scenario = "invitations" /\ Next
       \/ scenario # "invitations" /\ UNCHANGED vars
    /\ \/ scenario = "limits" /\ Limiting!Next
       \/ scenario # "limits" /\ UNCHANGED limiting
    /\ \/ scenario = "connections" /\ Overlapping!Next /\ OfOneGrant
       \/ scenario = "alone" /\ OneAtATime!Next
       \/ scenario \notin {"connections", "alone"} /\ UNCHANGED connections
    /\ \/ scenario = "tokens" /\ Creating!Next
       \/ scenario # "tokens" /\ UNCHANGED creating
    /\ UNCHANGED scenario

ScenarioSpec == ScenarioInit /\ [][ScenarioNext]_everything

Symmetry == Permutations(Two)

-------------------------------------------------------------------------------

\* The state of each part is of its type.
AllTypesOK ==
    Browsing!TypeOK /\ TypeOK /\ Limiting!TypeOK /\ Connecting!TypeOK /\ Creating!TypeOK

===============================================================================
