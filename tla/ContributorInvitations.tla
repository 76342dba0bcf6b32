----------------------- MODULE ContributorInvitations -----------------------
(***************************************************************************)
(* How people join: they register, and administrators invite some of them  *)
(* to contribute. An invitation is addressed to an e-mail, whether or not  *)
(* it has an account yet; it is accepted by that account, or by the one    *)
(* that is created while accepting it.                                     *)
(*                                                                         *)
(* Statements are the steps. A row that a transaction has written is       *)
(* waited for, and looked at again when the wait is over.                  *)
(***************************************************************************)
EXTENDS Naturals, FiniteSets

CONSTANTS Emails, Invitations,
          Transactions,  \* the requests the server can be serving at once
          None

VARIABLES accounts,     \* users and local_authentications, as committed
          invitations,  \* contributor_invitations, as committed
          sent,         \* the invitations whose e-mail has been delivered
          txs,          \* the requests being served
          uses          \* history: the committed acceptances of an invitation

vars == <<accounts, invitations, sent, txs, uses>>

Idle == [step |-> "idle", email |-> None, invitation |-> None]

Init ==
  /\ accounts = [e \in Emails |-> "none"]
  /\ invitations = [i \in Invitations |-> [email |-> None, status |-> "unused"]]
  /\ sent = {}
  /\ txs = [t \in Transactions |-> Idle]
  /\ uses = [i \in Invitations |-> 0]

\* Neither accepted, nor revoked, nor expired.
Valid(i) == invitations[i].status = "pending"

AddressedTo(i, e) == Valid(i) /\ invitations[i].email = e

At(t, steps) == txs[t].step \in steps
Others(t) == Transactions \ {t}
Become(t, step) == txs' = [txs EXCEPT ![t].step = step]
End(t) == txs' = [txs EXCEPT ![t] = Idle]

\* What open transactions have written: a new e-mail, an invitation, a user.
HoldsEmail(t, e) == At(t, {"inserted", "accepted"}) /\ txs[t].email = e
HoldsInvitation(t, i) == At(t, {"accepted", "marked", "granted"}) /\ txs[t].invitation = i
HoldsUser(t, e) == At(t, {"granted"}) /\ txs[t].email = e

-----------------------------------------------------------------------------
\* InviteContributor. The invitation is committed before its e-mail is sent.
Invite(t, i, e) ==
  /\ txs[t] = Idle /\ invitations[i].status = "unused"
  /\ invitations' = [invitations EXCEPT ![i] = [email |-> e, status |-> "pending"]]
  /\ txs' = [txs EXCEPT ![t] = [step |-> "sending", email |-> e, invitation |-> i]]
  /\ UNCHANGED <<accounts, sent, uses>>

\* The e-mail is delivered and the provider says so; or the call fails, which
\* does not mean that the e-mail has not been delivered.
Send(t) ==
  /\ At(t, {"sending"})
  /\ \/ sent' = sent \cup {txs[t].invitation} /\ (End(t) \/ Become(t, "withdrawing"))
     \/ sent' = sent /\ Become(t, "withdrawing")
  /\ UNCHANGED <<accounts, invitations, uses>>

\* A plausible bug: an invitation that is not needed any more is erased.
RevokeByErasing(i) ==
  /\ ~\E t \in Transactions : HoldsInvitation(t, i)
  /\ invitations' = [invitations EXCEPT ![i] = [email |-> None, status |-> "erased"]]
  /\ UNCHANGED <<accounts, sent, uses>>

\* RevokeContributorInvitation: one statement, which waits for an acceptance.
Revoke(i) ==
  /\ ~\E t \in Transactions : HoldsInvitation(t, i)
  /\ invitations' = IF invitations[i].status \in {"pending", "expired"}
                    THEN [invitations EXCEPT ![i].status = "revoked"] ELSE invitations
  /\ UNCHANGED <<accounts, sent, uses>>

Withdraw(t) == At(t, {"withdrawing"}) /\ Revoke(txs[t].invitation) /\ End(t)

RevokeFromAdministration(i) ==
  invitations[i].status # "unused" /\ Revoke(i) /\ UNCHANGED txs

Expire(i) ==
  /\ Valid(i)
  /\ invitations' = [invitations EXCEPT ![i].status = "expired"]
  /\ UNCHANGED <<accounts, sent, txs, uses>>

-----------------------------------------------------------------------------
\* register, with an invitation or without. The invitation is looked at before
\* the password is hashed, and again in the transaction.
Register(t, e, i) ==
  /\ txs[t] = Idle
  /\ i # None => AddressedTo(i, e)
  /\ txs' = [txs EXCEPT ![t] = [step |-> "registering", email |-> e, invitation |-> i]]
  /\ UNCHANGED <<accounts, invitations, sent, uses>>

\* CreateLocalUserInTransaction: another registration of the e-mail is waited for.
InsertUser(t) ==
  /\ At(t, {"registering"})
  /\ ~\E o \in Others(t) : HoldsEmail(o, txs[t].email)
  /\ IF accounts[txs[t].email] = "none" THEN Become(t, "inserted") ELSE End(t)
  /\ UNCHANGED <<accounts, invitations, sent, uses>>

\* contributorInvitation, from a user who has logged in.
Accept(t, e, i) ==
  /\ txs[t] = Idle /\ accounts[e] # "none"
  /\ txs' = [txs EXCEPT ![t] = [step |-> "accepting", email |-> e, invitation |-> i]]
  /\ UNCHANGED <<accounts, invitations, sent, uses>>

\* Plausible bugs: the account is not compared, or the state is not.
AcceptableByAnyone(t) == Valid(txs[t].invitation)
AcceptableAgain(t) == invitations[txs[t].invitation].email = txs[t].email

\* AcceptContributorInvitationInTransaction, first statement. It looks at the
\* invitation once nobody else is writing it.
Acceptable(t) == AddressedTo(txs[t].invitation, txs[t].email)

UpdateInvitation(t) ==
  /\ At(t, {"accepting", "inserted"}) /\ txs[t].invitation # None
  /\ ~\E o \in Others(t) : HoldsInvitation(o, txs[t].invitation)
  /\ IF Acceptable(t) THEN Become(t, IF At(t, {"inserted"}) THEN "accepted" ELSE "marked")
     ELSE End(t)
  /\ UNCHANGED <<accounts, invitations, sent, uses>>

\* Its second statement; the row of a user just inserted is the transaction's own.
UpdateUser(t) ==
  /\ At(t, {"marked"})
  /\ ~\E o \in Others(t) : HoldsUser(o, txs[t].email)
  /\ Become(t, "granted")
  /\ UNCHANGED <<accounts, invitations, sent, uses>>

Commit(t) ==
  LET i == txs[t].invitation
  IN  /\ At(t, {"accepted", "granted"}) \/ (At(t, {"inserted"}) /\ i = None)
      /\ accounts' = [accounts EXCEPT ![txs[t].email] =
           IF i = None THEN "member" ELSE "contributor"]
      /\ IF i = None THEN UNCHANGED <<invitations, uses>>
         ELSE /\ invitations' = [invitations EXCEPT ![i].status = "accepted"]
              /\ uses' = [uses EXCEPT ![i] = @ + 1]
      /\ End(t) /\ UNCHANGED sent

\* The connection to the database is lost.
Rollback(t) ==
  /\ txs[t] # Idle /\ End(t)
  /\ UNCHANGED <<accounts, invitations, sent, uses>>

Next ==
  \/ \E t \in Transactions :
       \/ \E i \in Invitations, e \in Emails : Invite(t, i, e)
       \/ \E i \in sent \cup {None}, e \in Emails : Register(t, e, i)
       \/ \E i \in sent, e \in Emails : Accept(t, e, i)
       \/ Send(t) \/ Withdraw(t)
       \/ InsertUser(t) \/ UpdateInvitation(t) \/ UpdateUser(t) \/ Commit(t) \/ Rollback(t)
  \/ \E i \in Invitations : RevokeFromAdministration(i) \/ Expire(i)

Spec == Init /\ [][Next]_vars

-----------------------------------------------------------------------------

TypeOK ==
  /\ accounts \in [Emails -> {"none", "member", "contributor"}]
  /\ invitations \in [Invitations -> [email : Emails \cup {None},
       status : {"unused", "pending", "expired", "accepted", "revoked"}]]
  /\ sent \subseteq Invitations
  /\ txs \in [Transactions -> [email : Emails \cup {None}, invitation : Invitations \cup {None},
       step : {"idle", "sending", "withdrawing", "registering", "inserted", "accepted",
               "accepting", "marked", "granted"}]]
  /\ uses \in [Invitations -> Nat]

\* An invitation is accepted at most once, however many people and tabs accept it
\* at a time, and never one that has been revoked before or after.
InvitationsAreUsedOnce ==
  \A i \in Invitations : uses[i] = (IF invitations[i].status = "accepted" THEN 1 ELSE 0)

\* The contributors are the accounts whose e-mail an accepted invitation names:
\* nobody is granted access in another way, and no acceptance is half done.
ContributorsWereInvited ==
  \A e \in Emails : accounts[e] = "contributor" <=>
    \E i \in Invitations : invitations[i] = [email |-> e, status |-> "accepted"]
=============================================================================
