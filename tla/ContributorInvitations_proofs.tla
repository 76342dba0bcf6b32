-------------------- MODULE ContributorInvitations_proofs --------------------
(***************************************************************************)
(* Proofs about ContributorInvitations, for every set of e-mails,          *)
(* invitations and transactions.                                           *)
(*                                                                         *)
(* What the two properties rest on is what open transactions know: a       *)
(* transaction that has written an invitation knows that nobody else has,  *)
(* that it is addressed to its e-mail and that it is still open; one that  *)
(* has inserted a user knows that the e-mail has no account.               *)
(***************************************************************************)
EXTENDS ContributorInvitations, TLAPS

\* A transaction that holds an invitation may accept it.
HeldInvitations ==
  \A t \in Transactions :
    /\ txs[t].step \in {"sending", "withdrawing"} => txs[t].invitation \in Invitations
    /\ txs[t].step \in {"accepted", "marked", "granted"} =>
         /\ txs[t].invitation \in Invitations /\ txs[t].invitation # None
         /\ txs[t].email \in Emails
         /\ invitations[txs[t].invitation].email = txs[t].email
         /\ invitations[txs[t].invitation].status \in {"pending", "expired"}

\* One that has inserted a user is creating an account; one that accepts without
\* that has one.
HeldEmails ==
  \A t \in Transactions :
    /\ txs[t].step \in {"registering", "accepting"} => txs[t].email \in Emails
    /\ txs[t].step \in {"inserted", "accepted"} =>
         txs[t].email \in Emails /\ accounts[txs[t].email] = "none"
    /\ txs[t].step \in {"accepting", "marked", "granted"} =>
         txs[t].email \in Emails /\ accounts[txs[t].email] # "none"

\* What one transaction has written, no other has.
Exclusive ==
  \A t, o \in Transactions : t # o =>
    /\ txs[t].step \in {"inserted", "accepted"} /\ txs[o].step \in {"inserted", "accepted"} =>
         txs[t].email # txs[o].email
    /\ txs[t].step \in {"accepted", "marked", "granted"}
         /\ txs[o].step \in {"accepted", "marked", "granted"} =>
         txs[t].invitation # txs[o].invitation

Inv ==
  /\ TypeOK /\ HeldInvitations /\ HeldEmails /\ Exclusive
  /\ InvitationsAreUsedOnce /\ ContributorsWereInvited

\* The inductive invariant, initially and at the two writing statements.
LEMMA InitInv == Init => Inv
BY DEF Init, Inv, TypeOK, HeldInvitations, HeldEmails, Exclusive, InvitationsAreUsedOnce,
       ContributorsWereInvited, Idle

\* A transaction that ends without writing, or goes on to a step at which it holds
\* nothing and knows no account, disturbs nothing.
LEMMA QuietStep ==
  ASSUME Inv, NEW t \in Transactions, NEW row,
         row \in [email : Emails \cup {None}, invitation : Invitations \cup {None},
                  step : {"idle", "sending", "withdrawing"}],
         row.step # "idle" => row.invitation \in Invitations,
         txs' = [txs EXCEPT ![t] = row], UNCHANGED <<accounts, invitations, uses>>,
         sent' \subseteq Invitations
  PROVE  Inv'
<1> USE DEF Inv
<1>1. TypeOK'
  BY DEF TypeOK
<1>2. \A o \in Transactions :
        \/ txs'[o] = txs[o]
        \/ /\ txs'[o].step \in {"idle", "sending", "withdrawing"}
           /\ txs'[o].step # "idle" => txs'[o].invitation \in Invitations
  BY DEF TypeOK
<1>3. HeldInvitations'
  BY <1>2 DEF HeldInvitations
<1>4. HeldEmails'
  BY <1>2 DEF HeldEmails
<1>5. Exclusive'
  BY <1>2 DEF Exclusive
<1>6. InvitationsAreUsedOnce' /\ ContributorsWereInvited'
  BY DEF InvitationsAreUsedOnce, ContributorsWereInvited
<1> QED BY <1>1, <1>3, <1>4, <1>5, <1>6

\* Revocation: nobody holds the invitation, and an accepted one stays accepted.
\* The request that revokes it may end with that.
LEMMA RevokeStep ==
  ASSUME Inv, NEW i \in Invitations, Revoke(i),
         \/ UNCHANGED txs
         \/ \E t \in Transactions : txs' = [txs EXCEPT ![t] = Idle]
  PROVE  Inv'
<1> USE DEF Inv
<1>1. /\ UNCHANGED <<accounts, sent, uses>>
      /\ \A t \in Transactions :
           ~(txs[t].step \in {"accepted", "marked", "granted"} /\ txs[t].invitation = i)
      /\ \/ UNCHANGED invitations
         \/ /\ invitations[i].status \in {"pending", "expired"}
            /\ invitations' = [invitations EXCEPT ![i].status = "revoked"]
  BY DEF Revoke, HoldsInvitation, At
<1>2. \A t \in Transactions : txs'[t] = txs[t] \/ txs'[t].step = "idle"
  BY DEF Idle, TypeOK
<1>3. \A j \in Invitations :
        \/ invitations'[j] = invitations[j]
        \/ /\ j = i /\ invitations'[j].status = "revoked"
           /\ invitations[j].status \in {"pending", "expired"}
  BY <1>1 DEF TypeOK
<1>4. TypeOK'
  <2>1. invitations' \in [Invitations -> [email : Emails \cup {None},
          status : {"unused", "pending", "expired", "accepted", "revoked"}]]
    BY <1>1 DEF TypeOK
  <2>2. txs' \in [Transactions -> [email : Emails \cup {None}, invitation : Invitations \cup {None},
          step : {"idle", "sending", "withdrawing", "registering", "inserted", "accepted",
                  "accepting", "marked", "granted"}]]
    BY DEF Idle, TypeOK
  <2> QED BY <1>1, <2>1, <2>2 DEF TypeOK
<1>5. HeldInvitations'
  BY <1>1, <1>2, <1>3 DEF HeldInvitations
<1>6. HeldEmails' /\ Exclusive'
  BY <1>1, <1>2 DEF HeldEmails, Exclusive
<1>7. InvitationsAreUsedOnce'
  BY <1>1, <1>3 DEF InvitationsAreUsedOnce
<1>8. ContributorsWereInvited'
  BY <1>1, <1>3 DEF ContributorsWereInvited
<1> QED BY <1>4, <1>5, <1>6, <1>7, <1>8

\* An insertion, an update of an invitation and one of a user: the transaction
\* takes what nobody else holds.
LEMMA InsertUserStep ==
  ASSUME Inv, NEW t \in Transactions, InsertUser(t)
  PROVE  Inv'
<1> USE DEF Inv
<1>1. CASE accounts[txs[t].email] # "none"
  <2>1. txs' = [txs EXCEPT ![t] = Idle] /\ UNCHANGED <<accounts, invitations, sent, uses>>
    BY <1>1 DEF InsertUser, End
  <2> QED BY <2>1, QuietStep DEF Idle, TypeOK
<1>2. CASE accounts[txs[t].email] = "none"
  <2>1. /\ txs[t].step = "registering" /\ txs[t].email \in Emails
        /\ txs' = [txs EXCEPT ![t].step = "inserted"]
        /\ UNCHANGED <<accounts, invitations, sent, uses>>
        /\ \A o \in Transactions \ {t} :
             ~(txs[o].step \in {"inserted", "accepted"} /\ txs[o].email = txs[t].email)
    BY <1>2 DEF InsertUser, Become, At, Others, HoldsEmail, HeldEmails
  <2>2. /\ txs'[t].step = "inserted" /\ txs'[t].email = txs[t].email
        /\ \A o \in Transactions \ {t} : txs'[o] = txs[o]
    BY <2>1 DEF TypeOK
  <2>3. TypeOK'
    BY <2>1 DEF TypeOK
  <2>4. HeldInvitations' /\ HeldEmails'
    BY <1>2, <2>1, <2>2 DEF HeldInvitations, HeldEmails
  <2>5. Exclusive'
    BY <2>1, <2>2 DEF Exclusive
  <2>6. InvitationsAreUsedOnce' /\ ContributorsWereInvited'
    BY <2>1 DEF InvitationsAreUsedOnce, ContributorsWereInvited
  <2> QED BY <2>3, <2>4, <2>5, <2>6
<1> QED BY <1>1, <1>2

LEMMA UpdateInvitationStep ==
  ASSUME Inv, NEW t \in Transactions, UpdateInvitation(t)
  PROVE  Inv'
<1> USE DEF Inv
<1>1. CASE ~Acceptable(t)
  <2>1. txs' = [txs EXCEPT ![t] = Idle] /\ UNCHANGED <<accounts, invitations, sent, uses>>
    BY <1>1 DEF UpdateInvitation, End
  <2> QED BY <2>1, QuietStep DEF Idle, TypeOK
<1>2. CASE Acceptable(t)
  <2> DEFINE i == txs[t].invitation
             next == IF txs[t].step = "inserted" THEN "accepted" ELSE "marked"
  <2>1. /\ txs[t].step \in {"accepting", "inserted"} /\ i # None
        /\ txs' = [txs EXCEPT ![t].step = next]
        /\ UNCHANGED <<accounts, invitations, sent, uses>>
        /\ \A o \in Transactions \ {t} :
             ~(txs[o].step \in {"accepted", "marked", "granted"} /\ txs[o].invitation = i)
        /\ invitations[i].status = "pending" /\ invitations[i].email = txs[t].email
    BY <1>2 DEF UpdateInvitation, Become, At, Others, HoldsInvitation, Acceptable, AddressedTo, Valid
  <2>2. i \in Invitations
    BY <2>1 DEF TypeOK
  <2>3. /\ txs'[t].step = next /\ txs'[t].email = txs[t].email /\ txs'[t].invitation = i
        /\ \A o \in Transactions \ {t} : txs'[o] = txs[o]
    BY <2>1 DEF TypeOK
  <2>4. TypeOK'
    BY <2>1 DEF TypeOK
  <2>5. HeldEmails'
    BY <2>1, <2>3 DEF HeldEmails
  <2>6. HeldInvitations'
    BY <2>1, <2>2, <2>3 DEF HeldInvitations, HeldEmails
  <2>7. Exclusive'
    BY <2>1, <2>3 DEF Exclusive
  <2>8. InvitationsAreUsedOnce' /\ ContributorsWereInvited'
    BY <2>1 DEF InvitationsAreUsedOnce, ContributorsWereInvited
  <2> QED BY <2>4, <2>5, <2>6, <2>7, <2>8
<1> QED BY <1>1, <1>2

LEMMA UpdateUserStep ==
  ASSUME Inv, NEW t \in Transactions, UpdateUser(t)
  PROVE  Inv'
<1> USE DEF Inv
<1>1. /\ txs[t].step = "marked"
      /\ txs' = [txs EXCEPT ![t].step = "granted"]
      /\ UNCHANGED <<accounts, invitations, sent, uses>>
  BY DEF UpdateUser, Become, At
<1>2. /\ txs'[t].step = "granted" /\ txs'[t].email = txs[t].email
      /\ txs'[t].invitation = txs[t].invitation
      /\ \A o \in Transactions \ {t} : txs'[o] = txs[o]
  BY <1>1 DEF TypeOK
<1>3. TypeOK'
  BY <1>1 DEF TypeOK
<1>4. HeldInvitations' /\ HeldEmails'
  BY <1>1, <1>2 DEF HeldInvitations, HeldEmails
<1>5. Exclusive'
  BY <1>1, <1>2 DEF Exclusive
<1>6. InvitationsAreUsedOnce' /\ ContributorsWereInvited'
  BY <1>1 DEF InvitationsAreUsedOnce, ContributorsWereInvited
<1> QED BY <1>3, <1>4, <1>5, <1>6

\* A commit of a registration without an invitation, and of an acceptance.
LEMMA CommitStep ==
  ASSUME Inv, NEW t \in Transactions, Commit(t)
  PROVE  Inv'
<1> USE DEF Inv
<1> DEFINE e == txs[t].email
           i == txs[t].invitation
<1>1. /\ \/ txs[t].step \in {"accepted", "granted"}
         \/ txs[t].step = "inserted" /\ i = None
      /\ accounts' = [accounts EXCEPT ![e] = IF i = None THEN "member" ELSE "contributor"]
      /\ txs' = [txs EXCEPT ![t] = Idle] /\ sent' = sent
      /\ i = None => UNCHANGED <<invitations, uses>>
      /\ i # None => /\ invitations' = [invitations EXCEPT ![i].status = "accepted"]
                     /\ uses' = [uses EXCEPT ![i] = @ + 1]
  BY DEF Commit, At, End
<1>2. e \in Emails
  BY <1>1 DEF HeldEmails
<1>3. /\ txs'[t].step = "idle"
      /\ \A o \in Transactions \ {t} : txs'[o] = txs[o]
  BY <1>1 DEF TypeOK, Idle
<1>4. Exclusive'
  BY <1>3 DEF Exclusive
<1>5. accounts'[e] # "none" /\ \A f \in Emails \ {e} : accounts'[f] = accounts[f]
  BY <1>1, <1>2 DEF TypeOK
<1>6. HeldEmails'
  <2>1. ASSUME NEW o \in Transactions \ {t}, txs[o].step \in {"inserted", "accepted"}
        PROVE  txs[o].email # e
    BY <1>1, <2>1 DEF Exclusive, HeldEmails
  <2>2. ASSUME NEW o \in Transactions \ {t}
        PROVE  /\ txs[o].step \in {"registering", "accepting"} => txs[o].email \in Emails
               /\ txs[o].step \in {"inserted", "accepted"} =>
                    txs[o].email \in Emails /\ accounts'[txs[o].email] = "none"
               /\ txs[o].step \in {"accepting", "marked", "granted"} =>
                    txs[o].email \in Emails /\ accounts'[txs[o].email] # "none"
    BY <1>5, <2>1 DEF HeldEmails
  <2> QED BY <1>3, <2>2 DEF HeldEmails
<1>7. CASE i = None
  <2>1. accounts[e] = "none" /\ accounts'[e] = "member"
    BY <1>1, <1>2, <1>7 DEF HeldEmails, HeldInvitations, TypeOK
  <2>2. TypeOK'
    BY <1>1, <1>2, <1>7 DEF TypeOK, Idle
  <2>3. HeldInvitations' /\ InvitationsAreUsedOnce'
    BY <1>1, <1>3, <1>7 DEF HeldInvitations, InvitationsAreUsedOnce
  <2>4. ContributorsWereInvited'
    BY <1>1, <1>2, <1>5, <1>7, <2>1 DEF ContributorsWereInvited
  <2> QED BY <1>4, <1>6, <2>2, <2>3, <2>4
<1>8. CASE i # None
  <2>1. /\ i \in Invitations /\ invitations[i].email = e
        /\ invitations[i].status \in {"pending", "expired"}
    BY <1>1, <1>8 DEF HeldInvitations
  <2>2. /\ invitations'[i] = [email |-> e, status |-> "accepted"]
        /\ \A j \in Invitations \ {i} : invitations'[j] = invitations[j]
        /\ uses'[i] = uses[i] + 1
        /\ \A j \in Invitations \ {i} : uses'[j] = uses[j]
    BY <1>1, <1>8, <2>1 DEF TypeOK
  <2>3. TypeOK'
    <3>1. accounts' \in [Emails -> {"none", "member", "contributor"}]
      BY <1>1, <1>2 DEF TypeOK
    <3>2. invitations' \in [Invitations -> [email : Emails \cup {None},
            status : {"unused", "pending", "expired", "accepted", "revoked"}]]
      BY <1>1, <1>8, <2>1 DEF TypeOK
    <3>3. uses' \in [Invitations -> Nat]
      BY <1>1, <1>8, <2>1 DEF TypeOK
    <3> QED BY <1>1, <3>1, <3>2, <3>3 DEF TypeOK, Idle
  <2>4. HeldInvitations'
    <3>1. ASSUME NEW o \in Transactions \ {t}, txs[o].step \in {"accepted", "marked", "granted"}
          PROVE  txs[o].invitation # i
      BY <1>1, <1>8, <3>1 DEF Exclusive
    <3> QED BY <1>3, <2>2, <3>1 DEF HeldInvitations
  <2>5. InvitationsAreUsedOnce'
    BY <2>1, <2>2 DEF InvitationsAreUsedOnce
  <2>6. accounts'[e] = "contributor"
    BY <1>1, <1>2, <1>8 DEF TypeOK
  <2>7. \A j \in Invitations, f \in Emails :
          invitations'[j] = [email |-> f, status |-> "accepted"] <=>
            (j = i /\ f = e) \/ (j # i /\ invitations[j] = [email |-> f, status |-> "accepted"])
    BY <2>2
  <2>8. \A f \in Emails : invitations[i] # [email |-> f, status |-> "accepted"]
    BY <2>1
  <2>9. ContributorsWereInvited'
    <3> DEFINE accepted(f) == \E j \in Invitations : invitations[j] = [email |-> f, status |-> "accepted"]
               later(f) == \E j \in Invitations : invitations'[j] = [email |-> f, status |-> "accepted"]
    <3>1. later(e)
      BY <2>1, <2>2
    <3>2. \A f \in Emails \ {e} : later(f) <=> accepted(f)
      BY <2>1, <2>7, <2>8
    <3>3. \A f \in Emails \ {e} : accounts[f] = "contributor" <=> accepted(f)
      BY DEF ContributorsWereInvited
    <3> HIDE DEF accepted
    <3>4. \A f \in Emails : accounts'[f] = "contributor" <=> later(f)
      <4> HIDE DEF later
      <4> QED BY <1>5, <2>6, <3>1, <3>2, <3>3
    <3> QED BY <3>4 DEF ContributorsWereInvited
  <2> QED BY <1>4, <1>6, <2>3, <2>4, <2>5, <2>9
<1> QED BY <1>7, <1>8

\* Hence every step.
LEMMA StepInv == Inv /\ [Next]_vars => Inv'
<1> SUFFICES ASSUME Inv, [Next]_vars PROVE Inv'
  OBVIOUS
<1> USE DEF Inv
<1>1. CASE UNCHANGED vars
  BY <1>1 DEF vars, TypeOK, HeldInvitations, HeldEmails, Exclusive,
              InvitationsAreUsedOnce, ContributorsWereInvited
<1>2. ASSUME NEW t \in Transactions, NEW i \in Invitations, NEW e \in Emails, Invite(t, i, e)
      PROVE  Inv'
  <2>1. /\ invitations[i].status = "unused"
        /\ invitations' = [invitations EXCEPT ![i] = [email |-> e, status |-> "pending"]]
        /\ txs[t].step = "idle"
        /\ txs' = [txs EXCEPT ![t] = [step |-> "sending", email |-> e, invitation |-> i]]
        /\ UNCHANGED <<accounts, sent, uses>>
    BY <1>2 DEF Invite, Idle
  <2>2. /\ txs'[t].step = "sending" /\ \A o \in Transactions \ {t} : txs'[o] = txs[o]
        /\ invitations'[i].status = "pending"
        /\ \A j \in Invitations \ {i} : invitations'[j] = invitations[j]
    BY <2>1 DEF TypeOK
  <2>3. TypeOK'
    BY <2>1 DEF TypeOK
  <2>4. HeldInvitations'
    BY <2>1, <2>2 DEF HeldInvitations
  <2>5. HeldEmails' /\ Exclusive'
    BY <2>1, <2>2 DEF HeldEmails, Exclusive
  <2>6. InvitationsAreUsedOnce'
    BY <2>1, <2>2 DEF InvitationsAreUsedOnce
  <2>7. ContributorsWereInvited'
    BY <2>1, <2>2 DEF ContributorsWereInvited
  <2> QED BY <2>3, <2>4, <2>5, <2>6, <2>7
<1>3. ASSUME NEW t \in Transactions, NEW i \in sent \cup {None}, NEW e \in Emails, Register(t, e, i)
      PROVE  Inv'
  <2>1. /\ txs' = [txs EXCEPT ![t] = [step |-> "registering", email |-> e, invitation |-> i]]
        /\ UNCHANGED <<accounts, invitations, sent, uses>>
        /\ i \in Invitations \cup {None}
    BY <1>3 DEF Register, TypeOK
  <2>2. /\ txs'[t].step = "registering" /\ txs'[t].email = e
        /\ \A o \in Transactions \ {t} : txs'[o] = txs[o]
    BY <2>1 DEF TypeOK
  <2>3. TypeOK'
    BY <2>1 DEF TypeOK
  <2>4. HeldInvitations' /\ HeldEmails' /\ Exclusive'
    BY <2>1, <2>2 DEF HeldInvitations, HeldEmails, Exclusive
  <2> QED BY <2>1, <2>3, <2>4 DEF InvitationsAreUsedOnce, ContributorsWereInvited
<1>4. ASSUME NEW t \in Transactions, NEW i \in sent, NEW e \in Emails, Accept(t, e, i)
      PROVE  Inv'
  <2>1. /\ txs' = [txs EXCEPT ![t] = [step |-> "accepting", email |-> e, invitation |-> i]]
        /\ UNCHANGED <<accounts, invitations, sent, uses>>
        /\ i \in Invitations \cup {None} /\ accounts[e] # "none"
    BY <1>4 DEF Accept, TypeOK
  <2>2. /\ txs'[t].step = "accepting" /\ txs'[t].email = e
        /\ \A o \in Transactions \ {t} : txs'[o] = txs[o]
    BY <2>1 DEF TypeOK
  <2>3. TypeOK'
    BY <2>1 DEF TypeOK
  <2>4. HeldInvitations' /\ HeldEmails' /\ Exclusive'
    BY <2>1, <2>2 DEF HeldInvitations, HeldEmails, Exclusive
  <2> QED BY <2>1, <2>3, <2>4 DEF InvitationsAreUsedOnce, ContributorsWereInvited
<1>5. ASSUME NEW t \in Transactions, Send(t) PROVE Inv'
  <2>1. /\ txs[t].step = "sending" /\ UNCHANGED <<accounts, invitations, uses>>
        /\ sent' = sent \cup {txs[t].invitation} \/ sent' = sent
        /\ \/ txs' = [txs EXCEPT ![t] = Idle]
           \/ txs' = [txs EXCEPT ![t].step = "withdrawing"]
    BY <1>5 DEF Send, At, End, Become
  <2>2. txs[t].invitation \in Invitations
    BY <2>1 DEF HeldInvitations
  <2>3. sent' \subseteq Invitations
    BY <2>1, <2>2 DEF TypeOK
  <2>4. CASE txs' = [txs EXCEPT ![t] = Idle]
    <3>1. Idle \in [email : Emails \cup {None}, invitation : Invitations \cup {None},
                    step : {"idle", "sending", "withdrawing"}] /\ Idle.step = "idle"
      BY DEF Idle
    <3> QED BY <2>1, <2>3, <2>4, <3>1, QuietStep
  <2>5. CASE txs' = [txs EXCEPT ![t].step = "withdrawing"]
    <3> DEFINE row == [txs[t] EXCEPT !.step = "withdrawing"]
    <3>1. /\ row \in [email : Emails \cup {None}, invitation : Invitations \cup {None},
                      step : {"idle", "sending", "withdrawing"}]
          /\ row.invitation \in Invitations
      BY <2>2 DEF TypeOK
    <3>2. txs' = [txs EXCEPT ![t] = row]
      BY <2>5
    <3> HIDE DEF row
    <3> QED BY <2>1, <2>3, <3>1, <3>2, QuietStep
  <2> QED BY <2>1, <2>4, <2>5
<1>6. ASSUME NEW t \in Transactions, Withdraw(t) PROVE Inv'
  <2>1. txs[t].invitation \in Invitations
    BY <1>6 DEF Withdraw, At, HeldInvitations
  <2> QED BY <1>6, <2>1, RevokeStep DEF Withdraw, End
<1>7. ASSUME NEW t \in Transactions, Rollback(t) PROVE Inv'
  BY <1>7, QuietStep DEF Rollback, End, Idle, TypeOK
<1>8. ASSUME NEW i \in Invitations, RevokeFromAdministration(i) PROVE Inv'
  BY <1>8, RevokeStep DEF RevokeFromAdministration
<1>9. ASSUME NEW i \in Invitations, Expire(i) PROVE Inv'
  <2>1. /\ invitations[i].status = "pending"
        /\ invitations' = [invitations EXCEPT ![i].status = "expired"]
        /\ UNCHANGED <<accounts, sent, txs, uses>>
    BY <1>9 DEF Expire, Valid
  <2>2. /\ invitations'[i].status = "expired" /\ invitations'[i].email = invitations[i].email
        /\ \A j \in Invitations \ {i} : invitations'[j] = invitations[j]
    BY <2>1 DEF TypeOK
  <2>3. TypeOK'
    BY <2>1 DEF TypeOK
  <2>4. HeldInvitations' /\ HeldEmails' /\ Exclusive'
    BY <2>1, <2>2 DEF HeldInvitations, HeldEmails, Exclusive
  <2>5. InvitationsAreUsedOnce'
    BY <2>1, <2>2 DEF InvitationsAreUsedOnce
  <2>6. ContributorsWereInvited'
    BY <2>1, <2>2 DEF ContributorsWereInvited
  <2> QED BY <2>3, <2>4, <2>5, <2>6
<1> QED BY <1>1, <1>2, <1>3, <1>4, <1>5, <1>6, <1>7, <1>8, <1>9,
           InsertUserStep, UpdateInvitationStep, UpdateUserStep, CommitStep DEF Next

(***************************************************************************)
(* Accounts, invitations and requests are what the schema allows.          *)
(***************************************************************************)
THEOREM TypeCorrect == Spec => []TypeOK
<1>1. Inv => TypeOK
  BY DEF Inv
<1> QED BY InitInv, StepInv, <1>1, PTL DEF Spec

(***************************************************************************)
(* However many requests overlap, an invitation is accepted at most once,  *)
(* and never one that is revoked.                                          *)
(***************************************************************************)
THEOREM InvitationsUsedOnce == Spec => []InvitationsAreUsedOnce
<1>1. Inv => InvitationsAreUsedOnce
  BY DEF Inv
<1> QED BY InitInv, StepInv, <1>1, PTL DEF Spec

(***************************************************************************)
(* Nobody contributes without an accepted invitation of their own, and     *)
(* everybody with one does.                                                *)
(***************************************************************************)
THEOREM ContributorsInvited == Spec => []ContributorsWereInvited
<1>1. Inv => ContributorsWereInvited
  BY DEF Inv
<1> QED BY InitInv, StepInv, <1>1, PTL DEF Spec
==============================================================================
