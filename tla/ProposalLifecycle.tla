--------------------------- MODULE ProposalLifecycle ---------------------------
(***************************************************************************)
(* What the transactions over proposals promise, whatever locks they take: *)
(* every committed change of a proposal is one of these steps, evaluated   *)
(* on the committed state it changes.  A draft's work changes only         *)
(* together with a base that is the head at that moment, a submission      *)
(* freezes work and base, and an acceptance extends the head.  Both        *)
(* PublicationLocking, with its locks, and CurriculumProposals, with what  *)
(* the changes of a proposal mean, implement it.                           *)
(***************************************************************************)
CONSTANTS Id,      \* identities of proposals
          None,    \* the base of the first publication
          Work,    \* what drafts may contain
          Gone     \* the status of a deleted draft: "deleted", or "unused" where
                   \* identities are issued again

VARIABLES head,    \* the current publication
          row      \* status, base and work of each proposal

lvars == <<head, row>>

InStatus(s) == {p \in Id : row[p].status = s}

Write(p, status, base, work) ==
    row' = [row EXCEPT ![p] = [status |-> status, base |-> base, work |-> work]]

\* Nothing is published, or one first proposal.
Init ==
    /\ head \in Id \cup {None}
    /\ row \in [Id -> [status : {"unused", "draft", "submitted", "accepted"},
                       base : {None}, work : Work]]
    /\ InStatus("accepted") = {head} \ {None}

\* A draft may start from a head that was published over meanwhile.
Start(p) ==
    /\ row[p].status = "unused"
    /\ \E b \in InStatus("accepted") \cup {None}, w \in Work : Write(p, "draft", b, w)
    /\ UNCHANGED head

Change(p) ==
    /\ row[p].status = "draft"
    /\ \E w \in Work : Write(p, "draft", head, w)
    /\ UNCHANGED head

Discard(p) ==
    /\ row[p].status = "draft"
    /\ \E b \in Id \cup {None}, w \in Work : Write(p, Gone, b, w)
    /\ UNCHANGED head

Submit(p) ==
    /\ row[p].status = "draft"
    /\ Write(p, "submitted", head, row[p].work)
    /\ UNCHANGED head

Accept(p) ==
    /\ row[p].status = "submitted"
    /\ row[p].base = head
    /\ row' = [row EXCEPT ![p].status = "accepted"]
    /\ head' = p

Reject(p) ==
    /\ row[p].status = "submitted"
    /\ row' = [row EXCEPT ![p].status = "rejected"]
    /\ UNCHANGED head

Next == \E p \in Id : \/ Start(p) \/ Change(p) \/ Discard(p)
                      \/ Submit(p) \/ Accept(p) \/ Reject(p)

Spec == Init /\ [][Next]_lvars

================================================================================
