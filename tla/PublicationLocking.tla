--------------------------- MODULE PublicationLocking ---------------------------
(***************************************************************************)
(* The transactions over proposals, step by step with their locks          *)
(* (internal/services/curriculum.go beginDraftMutation, its callers and    *)
(* curriculum_publication.go, curriculum_rebase.go; internal/db/proposals  *)
(* .go).  CurriculumProposals takes each of them as one atomic step.       *)
(*                                                                         *)
(* A transaction takes its locks in order, reads its proposal, decides,    *)
(* and writes at its commit; until then nobody sees its writes.  The two   *)
(* locks are on the row of curriculum_projection_state, shared by drafts   *)
(* and exclusive for publication, and on the row of the proposal.  A       *)
(* locking read returns the newest committed row, a plain one what is      *)
(* committed when it runs.                                                 *)
(*                                                                         *)
(* The changes of a proposal are abstracted to the units they affect, the  *)
(* same all its life, and to a version, the number of mutations that made  *)
(* them: 0 is an empty draft.                                              *)
(***************************************************************************)
EXTENDS Integers, Sequences, FiniteSets

CONSTANTS Proposals, Clients,
          None,         \* SQL NULL as a base or as the head
          Unit,
          Changes,      \* the changes of each proposal, as the units they affect
          Starts,       \* bound: the statuses that an instance starts with
          MaxVersion,   \* bound: mutations of one draft
          MaxCalls      \* bound: transactions

ASSUME ChangesAssumption == Changes \in [Proposals -> SUBSET SUBSET Unit]
ASSUME StartsAssumption ==
    Starts \subseteq [Proposals -> {"unused", "draft", "submitted"}]
ASSUME BoundsAssumption == MaxVersion \in Nat \ {0} /\ MaxCalls \in Nat

VARIABLES
    head,    \* curriculum_projection_state.proposal_id
    row,     \* curriculum_proposals, their changes as a version
    tx,      \* the transaction each client is in
    page,    \* the rebase plan each client's browser shows
    calls    \* transactions so far (for the bound)

vars == <<head, row, tx, page, calls>>

Work == 0..MaxVersion
Row == [status : {"unused", "draft", "submitted", "accepted", "rejected", "deleted"},
        base : Proposals \cup {None}, work : Work]

Drafting == {"edit", "submit", "rebase", "resolve"}
Kind == Drafting \cup {"create", "delete", "accept", "reject"}
Lock == {"shared", "exclusive", "proposal"}

NoPage == [open |-> FALSE]
NoTransaction == [phase |-> "idle", holds |-> {}]

Phase(c) == tx[c].phase

TypeOK ==
    /\ head \in Proposals \cup {None}
    /\ row \in [Proposals -> Row]
    /\ calls \in 0..MaxCalls
    /\ \A c \in Clients :
          /\ \/ tx[c] = NoTransaction
             \/ /\ tx[c].phase \in {"lock", "read", "write"}
                /\ tx[c].kind \in Kind /\ tx[c].proposal \in Proposals
                /\ tx[c].todo \in Seq(Lock) /\ tx[c].holds \subseteq Lock
                /\ tx[c].phase = "lock" <=> tx[c].todo # <<>>
                /\ tx[c].head \in Proposals \cup {None}
                /\ tx[c].row \in Row /\ tx[c].shown \subseteq Proposals
          /\ \/ page[c] = NoPage
             \/ page[c].open /\ page[c].proposal \in Proposals
                /\ page[c].accepted \subseteq Proposals

Init ==
    /\ head = None
    /\ \E start \in Starts :
           row = [p \in Proposals |->
                     [status |-> start[p], base |-> None,
                      work |-> IF start[p] = "unused" THEN 0 ELSE 1]]
    /\ tx = [c \in Clients |-> NoTransaction]
    /\ page = [c \in Clients |-> NoPage]
    /\ calls = 0

--------------------------------------------------------------------------------
(***************************************************************************)
(* Rebase plans.                                                           *)
(***************************************************************************)
\* Accepted proposals from h back to b, without b.
Since(b, h) ==
    {p \in Proposals :
        \A S \in SUBSET Proposals :
            /\ h \in Proposals \ {b} => h \in S
            /\ \A x \in S : row[x].base \in S \cup {b, None}
            => p \in S}

\* planCurriculumProposalRebase: the changes of p that overlap the work in A.
Conflicts(p, A) ==
    {x \in Changes[p] : \E q \in A : x \cap UNION Changes[q] # {}}

--------------------------------------------------------------------------------
(***************************************************************************)
(* Locks.                                                                  *)
(***************************************************************************)
\* Mutant: drafts do not lock the projection.
LocksWithoutProjection(kind) ==
    CASE kind = "accept" -> <<"exclusive", "proposal">>
      [] kind = "create" -> <<>>
      [] OTHER -> <<"proposal">>

\* Mutant: an acceptance locks its proposal before the projection.
LocksReversed(kind) ==
    CASE kind \in Drafting -> <<"shared", "proposal">>
      [] kind = "accept" -> <<"proposal", "exclusive">>
      [] kind = "create" -> <<>>
      [] kind \in {"delete", "reject"} -> <<"proposal">>

\* What a transaction locks, in order.  The deletion is one statement, which
\* locks the row it deletes.
Locks(kind) ==
    CASE kind \in Drafting -> <<"shared", "proposal">>
      [] kind = "accept" -> <<"exclusive", "proposal">>
      [] kind = "create" -> <<>>
      [] kind \in {"delete", "reject"} -> <<"proposal">>

Holders(lock) == {c \in Clients : lock \in tx[c].holds}

Free(c, lock) ==
    CASE lock = "shared" -> Holders("exclusive") = {}
      [] lock = "exclusive" -> Holders("exclusive") \cup Holders("shared") \subseteq {c}
      [] lock = "proposal" ->
             \A d \in Holders("proposal") : tx[d].proposal # tx[c].proposal

--------------------------------------------------------------------------------
(***************************************************************************)
(* Transactions.                                                           *)
(***************************************************************************)
\* The browser or the API client loads the plan of a draft, in one snapshot.
PlanCurriculumProposalRebase(c, p) ==
    /\ Phase(c) = "idle"
    /\ calls < MaxCalls
    /\ row[p].status = "draft"
    /\ Conflicts(p, Since(row[p].base, head)) # {}
    /\ page' = [page EXCEPT ![c] = [open |-> TRUE, proposal |-> p,
                                    accepted |-> Since(row[p].base, head)]]
    /\ UNCHANGED <<head, row, tx, calls>>

\* Identities the sequence has issued to creations that are still open.
Creating == {tx[c].proposal : c \in {d \in Clients : /\ Phase(d) # "idle"
                                                     /\ tx[d].kind = "create"}}

Begin(c, kind, p) ==
    /\ Phase(c) = "idle"
    /\ calls < MaxCalls
    /\ kind = "resolve" => page[c].open /\ page[c].proposal = p
    /\ IF kind = "create" THEN row[p].status = "unused" /\ p \notin Creating
                           ELSE row[p].status \notin {"unused", "deleted"}
    /\ tx' = [tx EXCEPT ![c] =
           [phase |-> IF Locks(kind) = <<>> THEN "read" ELSE "lock",
            kind |-> kind, proposal |-> p, todo |-> Locks(kind), holds |-> {},
            head |-> head, row |-> row[p],
            shown |-> IF kind = "resolve" THEN page[c].accepted ELSE {}]]
    /\ page' = [page EXCEPT ![c] = NoPage]
    /\ calls' = calls + 1
    /\ UNCHANGED <<head, row>>

\* Mutant: the second lock is not taken.
TakeOneLock(c) ==
    /\ Phase(c) = "lock"
    /\ Free(c, Head(tx[c].todo))
    /\ tx' = [tx EXCEPT ![c].holds = @ \cup {Head(tx[c].todo)},
                        ![c].phase = "read", ![c].head = head]
    /\ UNCHANGED <<head, row, page, calls>>

\* The lock of the projection reads the head.
TakeLock(c) ==
    /\ Phase(c) = "lock"
    /\ LET lock == Head(tx[c].todo)
           left == Tail(tx[c].todo)
       IN /\ Free(c, lock)
          /\ tx' = [tx EXCEPT
                 ![c].holds = @ \cup {lock},
                 ![c].todo = left,
                 ![c].phase = IF left = <<>> THEN "read" ELSE "lock",
                 ![c].head = IF lock = "proposal" THEN @ ELSE head]
    /\ UNCHANGED <<head, row, page, calls>>

\* Mutant: an acceptance does not compare the base with the head.
MayWriteOutdated(kind, p, r, h, shown) ==
    CASE kind = "create" -> r.status = "unused"
      [] kind = "edit" -> r.status = "draft" /\ r.work < MaxVersion
                          /\ Conflicts(p, Since(r.base, h)) = {}
      [] kind = "submit" -> r.status = "draft" /\ r.work > 0
                            /\ Conflicts(p, Since(r.base, h)) = {}
      [] kind = "rebase" -> r.status = "draft" /\ r.base # h
                            /\ Conflicts(p, Since(r.base, h)) = {}
      [] kind = "resolve" -> r.status = "draft" /\ r.base # h /\ r.work < MaxVersion
                             /\ Conflicts(p, Since(r.base, h)) \subseteq Conflicts(p, shown)
      [] kind = "delete" -> r.status = "draft"
      [] kind \in {"accept", "reject"} -> r.status = "submitted"

\* The conditions under which a transaction of this kind goes on to write, when
\* it has read the row r and the head h.  A resolution needs an answer for every
\* conflict of the plan as it is now; the answers are those to the plan shown.
MayWrite(kind, p, r, h, shown) ==
    LET conflicts == Conflicts(p, Since(r.base, h)) IN
    CASE kind = "create" -> r.status = "unused"
      [] kind = "edit" -> r.status = "draft" /\ conflicts = {} /\ r.work < MaxVersion
      [] kind = "submit" -> r.status = "draft" /\ conflicts = {} /\ r.work > 0
      [] kind = "rebase" -> r.status = "draft" /\ r.base # h /\ conflicts = {}
      [] kind = "resolve" -> /\ r.status = "draft" /\ r.base # h /\ r.work < MaxVersion
                             /\ conflicts \subseteq Conflicts(p, shown)
      [] kind = "delete" -> r.status = "draft"
      [] kind = "accept" -> r.status = "submitted" /\ r.base = h
      [] kind = "reject" -> r.status = "submitted"

Read(c) ==
    LET t == tx[c] IN
    /\ Phase(c) = "read"
    /\ MayWrite(t.kind, t.proposal, row[t.proposal], t.head, t.shown)
    /\ tx' = [tx EXCEPT ![c].phase = "write", ![c].row = row[t.proposal]]
    /\ UNCHANGED <<head, row, page, calls>>

\* The proposal is not there or not in the right state, or needs review.
Refuse(c) ==
    LET t == tx[c] IN
    /\ Phase(c) = "read"
    /\ ~MayWrite(t.kind, t.proposal, row[t.proposal], t.head, t.shown)
    /\ tx' = [tx EXCEPT ![c] = NoTransaction]
    /\ UNCHANGED <<head, row, page, calls>>

\* A resolution drops and merges changes, so it makes a new version like an edit.
Written(kind, r, h) ==
    CASE kind = "create" -> [status |-> "draft", base |-> h, work |-> 0]
      [] kind \in {"edit", "resolve"} -> [r EXCEPT !.base = h, !.work = @ + 1]
      [] kind = "submit" -> [r EXCEPT !.base = h, !.status = "submitted"]
      [] kind = "rebase" -> [r EXCEPT !.base = h]
      [] kind = "delete" -> [r EXCEPT !.status = "deleted"]
      [] kind = "accept" -> [r EXCEPT !.status = "accepted"]
      [] kind = "reject" -> [r EXCEPT !.status = "rejected"]

Commit(c) ==
    LET t == tx[c] IN
    /\ Phase(c) = "write"
    /\ row' = [row EXCEPT ![t.proposal] = Written(t.kind, t.row, t.head)]
    /\ head' = IF t.kind = "accept" THEN t.proposal ELSE head
    /\ tx' = [tx EXCEPT ![c] = NoTransaction]
    /\ UNCHANGED <<page, calls>>

\* The request is cancelled or its connection fails.
Rollback(c) ==
    /\ Phase(c) # "idle"
    /\ tx' = [tx EXCEPT ![c] = NoTransaction]
    /\ UNCHANGED <<head, row, page, calls>>

Next ==
    \E c \in Clients :
        \/ \E p \in Proposals : \/ PlanCurriculumProposalRebase(c, p)
                                \/ \E kind \in Kind : Begin(c, kind, p)
        \/ TakeLock(c) \/ Read(c) \/ Refuse(c) \/ Commit(c) \/ Rollback(c)

\* A transaction that has begun goes on; nothing has to be cancelled.
Fairness ==
    \A c \in Clients : WF_vars(TakeLock(c) \/ Read(c) \/ Refuse(c) \/ Commit(c))

Spec == Init /\ [][Next]_vars /\ Fairness

--------------------------------------------------------------------------------
(***************************************************************************)
(* Properties.                                                             *)
(***************************************************************************)

\* What a transaction has read and is about to base its writes on is still
\* what is committed: the head for whoever plans, validates or publishes, the
\* proposal for everybody.  No edit is lost and nothing is published over a
\* curriculum it was not validated against.
LocksHoldReads ==
    \A c \in Clients :
        Phase(c) = "write" =>
            /\ tx[c].kind \in Drafting \cup {"accept"} => tx[c].head = head
            /\ tx[c].row = row[tx[c].proposal]

\* The abstract promise: see ProposalLifecycle.
Lifecycle == INSTANCE ProposalLifecycle WITH Id <- Proposals, Gone <- "deleted"

ImplementsProposalLifecycle == Lifecycle!Spec

\* The order projection, then proposal, leaves no circle of waiting: every
\* transaction ends without being cancelled, however many want the same locks.
EveryTransactionEnds ==
    \A c \in Clients : Phase(c) # "idle" ~> Phase(c) = "idle"

\* What the product specification says of conflicts: a draft leaves its base
\* only when its author has reviewed the accepted work that conflicts with it.
ReviewedWorkWasShown ==
    \A c \in Clients :
        Phase(c) = "write" /\ tx[c].kind = "resolve" =>
            {q \in Since(tx[c].row.base, tx[c].head) :
                Conflicts(tx[c].proposal, {q}) # {}} \subseteq tx[c].shown

================================================================================
