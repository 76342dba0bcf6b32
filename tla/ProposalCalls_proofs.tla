-------------------------- MODULE ProposalCalls_proofs --------------------------
(***************************************************************************)
(* Proofs about ProposalCalls, for every set of clients and of tools and   *)
(* every number of repetitions.  Whatever a call asks for, and however     *)
(* long ago it asked, what it commits is a transaction of                  *)
(* CurriculumProposals: the invariants proved there hold under remote      *)
(* calls too.  What a reader has put together of a proposal is then        *)
(* related to the row, and the page that was drawn of it to the replay of  *)
(* its lineage, a recursion whose equation has to be proved.  That a call  *)
(* can be repeated is shown tool by tool, of drafts that are diffs.        *)
(***************************************************************************)
EXTENDS ProposalCalls, CurriculumProposals_proofs, WellFoundedInduction

(***************************************************************************)
(* Calls commit transactions.                                              *)
(***************************************************************************)
RequestOK(r) ==
    /\ r.tool = "create_proposal_unit" => r.text \in [Field -> Text]
    /\ r.tool = "update_proposal_unit" => r.unit \in UnitId /\ r.text \in [Field -> Text]
    /\ r.tool = "delete_proposal_unit" => r.unit \in UnitId
    /\ r.tool = "set_proposal_dependency" => /\ r.unit \in UnitId /\ r.prerequisite \in UnitId
                                           /\ r.present \in BOOLEAN
    /\ r.tool = "add_proposal_recognition" =>
           r.sources \in SUBSET UnitId /\ r.targets \in SUBSET UnitId

Phase == {"sent", "inspected", "committed", "row", "members", "read", "drawn"}

\* A call that is under way; what it has seen is a proposal once a row was read.
CallOK(x) ==
    /\ x = [phase |-> x.phase, via |-> x.via, author |-> x.author,
            proposal |-> x.proposal, request |-> x.request, tries |-> x.tries,
            seen |-> x.seen]
    /\ x.phase \in Phase
    /\ x.author \in Authors /\ x.proposal \in Proposals
    /\ RequestOK(x.request)
    /\ x.phase \in {"row", "members", "read"} =>
           x.seen = [status |-> x.seen.status, base |-> x.seen.base,
                     changes |-> x.seen.changes]

CallsOK ==
    /\ call = [c \in Client |-> call[c]]
    /\ \A c \in Client : call[c] = Idle \/ CallOK(call[c])

\* What the tools accept as their input.
LEMMA RequestsAreOK ==
    ASSUME TypeOK, NEW p \in Proposals, NEW r \in Requests(p)
    PROVE  RequestOK(r)
<1>1. Issued \subseteq UnitId
  BY MaxUnitAssumption DEF TypeOK, Issued, UnitId
<1> DEFINE I == Issued
           F == [Field -> Text]
<1>2. \/ r \in [tool : {"update_proposal"}, title : Title]
      \/ r \in [tool : {"delete_proposal"}]
      \/ r \in [tool : {"create_proposal_unit"}, text : F]
      \/ r \in [tool : {"update_proposal_unit"}, unit : I, text : F]
      \/ r \in [tool : {"delete_proposal_unit"}, unit : I]
      \/ r \in [tool : {"set_proposal_dependency"}, unit : I, prerequisite : I,
                present : BOOLEAN]
      \/ r \in [tool : {"add_proposal_recognition"}, sources : SUBSET I,
                targets : SUBSET I]
      \/ r \in [tool : {"delete_proposal_change"}, change : proposal[p].changes]
      \/ r \in [tool : {"resolve_proposal_rebase"}, drop : SUBSET Conflicts(p)]
      \/ r \in [tool : {"submit_proposal"}, title : Title]
      \/ r \in [tool : {"accept_proposal"}]
      \/ r \in [tool : {"reject_proposal"}]
      \/ r \in [tool : {"get_proposal"}]
  BY DEF Requests
<1> HIDE DEF I, F
<1> QED BY <1>1, <1>2 DEF RequestOK, I, F

\* A tool does one operation of CurriculumProposals, or nothing,
LEMMA PerformIsOperation ==
    ASSUME TypeOK, NEW p \in Proposals, NEW a \in Authors, NEW k, NEW r, RequestOK(r),
           Perform(k, p, a, r)
    PROVE  [Operation]_vars
<1>1. CASE UpdateCurriculumProposal(p, a, r.title)
  BY <1>1 DEF UpdateCurriculumProposal
<1>2. CASE DeleteCurriculumProposal(p, a)
  BY <1>2 DEF Operation
<1>3. ASSUME AnyEdit(p, a) PROVE Operation
  BY <1>3 DEF Operation
<1>4. CASE r.tool = "create_proposal_unit" /\ CreateCurriculumUnit(p, a, r.text)
  BY <1>3, <1>4 DEF AnyEdit, RequestOK
<1>5. CASE /\ r.tool = "update_proposal_unit"
           /\ UpdateCreatedUnit(p, a, r.unit, r.text) \/ UpdatePublishedUnit(p, a, r.unit, r.text)
  <2>1. r.unit \in UnitId /\ r.text \in NewTexts
    BY <1>5 DEF RequestOK, NewTexts
  <2> QED BY <1>3, <1>5, <2>1 DEF AnyEdit
<1>6. CASE /\ r.tool = "delete_proposal_unit"
           /\ DiscardCreatedUnit(p, a, r.unit) \/ DeletePublishedUnit(p, a, r.unit)
  BY <1>3, <1>6 DEF AnyEdit, RequestOK
<1>7. CASE /\ r.tool = "set_proposal_dependency"
           /\ SetUnitDependency(p, a, r.unit, r.prerequisite, r.present)
  BY <1>3, <1>7 DEF AnyEdit, RequestOK, SetUnitDependency
<1>8. CASE AddProposalRecognition(k, p, a, r)
  BY <1>3, <1>8 DEF AnyEdit, RequestOK, AddProposalRecognition
<1>9. CASE DeleteCurriculumProposalChange(p, a, r.change)
  <2>1. r.change \in proposal[p].changes
    BY <1>9 DEF DeleteCurriculumProposalChange
  <2> QED BY <1>3, <1>9, <2>1 DEF AnyEdit
<1>10. CASE ResolveCurriculumProposalRebase(p, a, r.drop, <<>>)
  <2>1. <<>> \in [{} -> Text]
    OBVIOUS
  <2> QED BY <1>10, <2>1 DEF Operation, AnyRebase
<1>11. CASE SubmitCurriculumProposal(p, a)
  BY <1>11 DEF Operation
<1>12. CASE AcceptCurriculumProposal(p) \/ RejectCurriculumProposal(p)
  BY <1>12 DEF Operation
<1> QED BY <1>1, <1>2, <1>4, <1>5, <1>6, <1>7, <1>8, <1>9, <1>10, <1>11, <1>12
        DEF Perform, PerformOnDraft

\* and so does every step of a call,
LEMMA CallIsOperation ==
    ASSUME TypeOK, CallsOK, [CallNext]_callVars
    PROVE  [Operation]_vars
<1>1. ASSUME NEW c \in Client, Commit(c)
      PROVE  [Operation]_vars
  <2>1. CallOK(call[c])
    BY <1>1 DEF Commit, CallsOK, Idle
  <2>2. Perform(call[c].via, call[c].proposal, call[c].author, call[c].request)
    BY <1>1 DEF Commit
  <2> QED BY <2>1, <2>2, PerformIsOperation DEF CallOK
<1>2. ASSUME NEW c \in Client, NEW via, NEW a \in Authors, NEW p \in Proposals, NEW t,
             CreateProposal(c, via, a, p, t)
      PROVE  Operation
  BY <1>2 DEF CreateProposal, Operation
<1>3. CASE Elsewhere
  BY <1>3, BoundsOnlyLimit DEF Elsewhere, UpdateCurriculumProposal
<1>4. ASSUME NEW c \in Client,
             \/ Inspect(c) \/ ReadRow(c) \/ ReadChanges(c) \/ ReadMembers(c)
             \/ Draw(c) \/ End(c) \/ Repeat(c)
             \/ \E via \in Via, a \in Authors, p \in Proposals :
                    \E r \in Requests(p) : Begin(c, via, a, p, r)
      PROVE  UNCHANGED vars
  BY <1>4 DEF Inspect, ReadRow, ReadChanges, ReadMembers, Draw, End, Repeat, Begin
<1>5. CASE UNCHANGED callVars
  BY <1>5 DEF callVars, vars
<1> QED BY <1>1, <1>2, <1>3, <1>4, <1>5 DEF CallNext

\* which is a transaction there.
LEMMA CallIsTransaction ==
    ASSUME TypeOK, CallsOK, [CallNext]_callVars
    PROVE  [Transaction]_vars
BY CallIsOperation, OperationCases

(***************************************************************************)
(* The course of a call, step by step.                                     *)
(***************************************************************************)
Moved(c, t) == call' = [d \in Client |-> IF d = c THEN t ELSE call[d]]

Now(x, phase, seen) ==
    [phase |-> phase, via |-> x.via, author |-> x.author, proposal |-> x.proposal,
     request |-> x.request, tries |-> x.tries, seen |-> seen]

Proposal(status, base, changes) ==
    [status |-> status, base |-> base, changes |-> changes]

\* What the steps between two statements write of a call.
LEMMA CallsMove ==
    ASSUME CallsOK, NEW c \in Client
    PROVE  /\ \A ph, x : x = call[c] /\ CallOK(x) /\ call' = [call EXCEPT ![c].phase = ph]
                         => Moved(c, Now(x, ph, x.seen))
           /\ \A ph, s, x : /\ x = call[c] /\ CallOK(x)
                            /\ call' = [call EXCEPT ![c].phase = ph, ![c].seen = s]
                            => Moved(c, Now(x, ph, s))
           /\ \A ph, s, x : /\ x = call[c] /\ CallOK(x) /\ x.phase \in {"row", "members"}
                            /\ call' = [call EXCEPT ![c].phase = ph, ![c].seen.changes = s]
                            => Moved(c, Now(x, ph, Proposal(x.seen.status, x.seen.base, s)))
<1> SUFFICES ASSUME NEW ph, NEW s, NEW x, x = call[c], CallOK(x)
             PROVE  /\ call' = [call EXCEPT ![c].phase = ph] => Moved(c, Now(x, ph, x.seen))
                    /\ call' = [call EXCEPT ![c].phase = ph, ![c].seen = s]
                          => Moved(c, Now(x, ph, s))
                    /\ /\ x.phase \in {"row", "members"}
                       /\ call' = [call EXCEPT ![c].phase = ph, ![c].seen.changes = s]
                       => Moved(c, Now(x, ph, Proposal(x.seen.status, x.seen.base, s)))
  BY Zenon
<1>1. call = [d \in Client |-> call[d]]
  BY DEF CallsOK
<1>2. x = Now(x, x.phase, x.seen)
  BY DEF CallOK, Now
<1>3. x.phase \in {"row", "members"} => x.seen = Proposal(x.seen.status, x.seen.base, x.seen.changes)
  BY DEF CallOK, Proposal
<1>4. [x EXCEPT !.phase = ph] = Now(x, ph, x.seen)
  BY <1>2 DEF Now
<1>5. \A y : [[x EXCEPT !.phase = ph] EXCEPT !.seen = y] = Now(x, ph, y)
  <2>1. \A y : [Now(x, ph, x.seen) EXCEPT !.seen = y] = Now(x, ph, y)
    BY DEF Now
  <2> QED BY <1>4, <2>1
<1>6. call' = [call EXCEPT ![c].phase = ph] => Moved(c, Now(x, ph, x.seen))
  <2>1. [x EXCEPT !.phase = ph] = Now(x, ph, x.seen)
    BY <1>4
  <2>2. [call EXCEPT ![c].phase = ph] = [call EXCEPT ![c] = [x EXCEPT !.phase = ph]]
    BY <1>1
  <2> QED BY <1>1, <2>1, <2>2 DEF Moved
<1>7. call' = [call EXCEPT ![c].phase = ph, ![c].seen = s] => Moved(c, Now(x, ph, s))
  <2>1. [[x EXCEPT !.phase = ph] EXCEPT !.seen = s] = Now(x, ph, s)
    BY <1>5
  <2>2. [call EXCEPT ![c].phase = ph, ![c].seen = s]
          = [call EXCEPT ![c] = [[x EXCEPT !.phase = ph] EXCEPT !.seen = s]]
    BY <1>1
  <2> QED BY <1>1, <2>1, <2>2 DEF Moved
<1>8. ASSUME x.phase \in {"row", "members"},
             call' = [call EXCEPT ![c].phase = ph, ![c].seen.changes = s]
      PROVE  Moved(c, Now(x, ph, Proposal(x.seen.status, x.seen.base, s)))
  <2>0. [x.seen EXCEPT !.changes = s] = Proposal(x.seen.status, x.seen.base, s)
    BY <1>3, <1>8 DEF Proposal
  <2>1. [[x EXCEPT !.phase = ph] EXCEPT !.seen = [x.seen EXCEPT !.changes = s]]
           = Now(x, ph, Proposal(x.seen.status, x.seen.base, s))
    BY <1>5, <2>0
  <2>2. [call EXCEPT ![c].phase = ph, ![c].seen.changes = s]
          = [call EXCEPT ![c] = [[x EXCEPT !.phase = ph] EXCEPT !.seen = [x.seen EXCEPT !.changes = s]]]
    BY <1>1, <1>2 DEF Now
  <2> QED BY <1>1, <1>8, <2>1, <2>2 DEF Moved
<1> QED BY <1>6, <1>7, <1>8

(***************************************************************************)
(* The replay of a lineage.  GraphAt is a recursion along the bases; that  *)
(* its equation has a solution takes a rank that bases decrease.           *)
(***************************************************************************)
Place == Proposals \cup {None}

\* One step of the replay: f are the graphs, rows the proposals.
Replayed(f, rows, q) ==
    IF q \in Proposals THEN WithProposal(f[rows[q].base], rows[q].changes) ELSE EmptyGraph

Replays(f, rows) == f = [q \in Place |-> Replayed(f, rows, q)]

Ranked(rank, rows) ==
    /\ rank \in [Place -> Nat]
    /\ \A q \in Proposals : rows[q].base \in Place /\ rank[rows[q].base] < rank[q]

\* The equation holds below a rank.
Below(f, rows, rank, n) == \A q \in Place : rank[q] < n => f[q] = Replayed(f, rows, q)

\* Induction over the naturals, for a set.
LEMMA NaturalSet ==
    ASSUME NEW S, 0 \in S, \A n \in Nat : n \in S => n + 1 \in S
    PROVE  Nat \subseteq S
<1> SUFFICES ASSUME Nat \ S # {} PROVE FALSE
  OBVIOUS
<1> DEFINE T == Nat \ S
<1>1. T \in SUBSET Nat /\ T # {}
  OBVIOUS
<1>2. PICK m \in T : \A n \in T : ~ (<<n, m>> \in OpToRel(<, Nat))
  <2> HIDE DEF T
  <2> QED BY <1>1, WFMin, NatLessThanWellFounded, Zenon
<1>3. \A n \in T : ~ (n < m)
  <2> HIDE DEF T
  <2> QED BY <1>1, <1>2, Zenon DEF OpToRel
<1>4. m \in Nat /\ m \notin S
  OBVIOUS
<1>5. m # 0 /\ m - 1 \in Nat /\ (m - 1) + 1 = m /\ m - 1 < m
  BY <1>4
<1> QED BY <1>3, <1>4, <1>5

\* Two replays of lineages that agree on what is in A agree there.
LEMMA ReplaysAgree ==
    ASSUME NEW rows, NEW other, NEW rank, Ranked(rank, rows),
           NEW A \in SUBSET Place,
           \A q \in A \cap Proposals : /\ other[q].base = rows[q].base
                                      /\ other[q].changes = rows[q].changes
                                      /\ rows[q].base \in A,
           NEW n \in Nat, NEW f, NEW g, Below(f, rows, rank, n),
           \A q \in A : rank[q] < n => g[q] = Replayed(g, other, q)
    PROVE  \A q \in A : rank[q] < n => f[q] = g[q]
<1> DEFINE S == {k \in Nat : \A q \in A : rank[q] < n /\ rank[q] < k => f[q] = g[q]}
<1>1. \A q \in A : rank[q] \in Nat
  BY DEF Ranked
<1>2. 0 \in S
  BY <1>1
<1>3. ASSUME NEW k \in Nat, k \in S PROVE k + 1 \in S
  <2> SUFFICES ASSUME NEW q \in A, rank[q] < n, rank[q] < k + 1 PROVE f[q] = g[q]
    OBVIOUS
  <2>1. f[q] = Replayed(f, rows, q) /\ g[q] = Replayed(g, other, q)
    BY DEF Below
  <2>2. CASE q \in Proposals
    <3> DEFINE b == rows[q].base
    <3>1. b \in A /\ rank[b] < rank[q] /\ other[q].base = b /\ other[q].changes = rows[q].changes
      BY <2>2 DEF Ranked
    <3>2. rank[b] < n /\ rank[b] < k
      BY <1>1, <3>1
    <3>3. f[b] = g[b]
      BY <1>3, <3>1, <3>2
    <3> QED BY <2>1, <3>1, <3>3 DEF Replayed
  <2> QED BY <2>1, <2>2 DEF Replayed
<1>4. Nat \subseteq S
  <2> HIDE DEF S
  <2> QED BY <1>2, <1>3, NaturalSet
<1>5. n \in S
  BY <1>4
<1> QED BY <1>5

\* The graphs of the proposals below a rank,
LEMMA ReplayBelow ==
    ASSUME NEW rows, NEW rank, Ranked(rank, rows)
    PROVE  \A n \in Nat : \E f : Below(f, rows, rank, n)
<1> DEFINE S == {n \in Nat : \E f : Below(f, rows, rank, n)}
<1>1. \A q \in Place : rank[q] \in Nat
  BY DEF Ranked
<1>2. 0 \in S
  <2>1. Below(<<>>, rows, rank, 0)
    BY <1>1 DEF Below
  <2> QED BY <2>1
<1>3. ASSUME NEW n \in Nat, n \in S PROVE n + 1 \in S
  <2>1. PICK f : Below(f, rows, rank, n)
    BY <1>3
  <2> DEFINE g == [q \in Place |-> Replayed(f, rows, q)]
  <2>2. \A q \in Place : g[q] = Replayed(f, rows, q)
    OBVIOUS
  <2> HIDE DEF g
  <2>3. Below(g, rows, rank, n + 1)
    <3> SUFFICES ASSUME NEW q \in Place, rank[q] < n + 1 PROVE g[q] = Replayed(g, rows, q)
      BY DEF Below
    <3>1. CASE q \in Proposals
      <4> DEFINE b == rows[q].base
      <4>1. b \in Place /\ rank[b] < rank[q]
        BY <3>1 DEF Ranked
      <4>2. rank[b] < n
        BY <1>1, <4>1
      <4>3. g[b] = f[b]
        BY <2>1, <2>2, <4>1, <4>2 DEF Below
      <4> QED BY <2>2, <3>1, <4>3 DEF Replayed
    <3> QED BY <2>2, <3>1 DEF Replayed
  <2> QED BY <2>3
<1>4. Nat \subseteq S
  <2> HIDE DEF S
  <2> QED BY <1>2, <1>3, NaturalSet
<1> QED BY <1>4

\* and of all of them: replaying a history has a result, as bases are accepted earlier.
LEMMA ReplayExists ==
    ASSUME NEW rows, NEW rank, Ranked(rank, rows)
    PROVE  \E f : Replays(f, rows)
<1> DEFINE h(q) == CHOOSE f : Below(f, rows, rank, rank[q] + 1)
           f == [q \in Place |-> h(q)[q]]
<1>1. \A q \in Place : rank[q] \in Nat
  BY DEF Ranked
<1>2. \A q \in Place : Below(h(q), rows, rank, rank[q] + 1)
  BY <1>1, ReplayBelow
<1> HIDE DEF h
<1>3. ASSUME NEW q \in Place PROVE f[q] = Replayed(f, rows, q)
  <2>1. f[q] = Replayed(h(q), rows, q)
    BY <1>1, <1>2 DEF Below
  <2>2. CASE q \in Proposals
    <3> DEFINE b == rows[q].base
    <3>1. b \in Place /\ rank[b] < rank[q]
      BY <2>2 DEF Ranked
    <3> DEFINE u == h(b)
               v == h(q)
               m == rank[b] + 1
    <3>2. Below(u, rows, rank, m) /\ m \in Nat
      BY <1>1, <1>2, <3>1
    <3>3. \A r \in Place : rank[r] < m => v[r] = Replayed(v, rows, r)
      BY <1>1, <1>2, <3>1 DEF Below
    <3>4. \A r \in Place \cap Proposals : /\ rows[r].base = rows[r].base
                                         /\ rows[r].changes = rows[r].changes
                                         /\ rows[r].base \in Place
      BY DEF Ranked
    <3>5. \A r \in Place : rank[r] < m => u[r] = v[r]
      <4> HIDE DEF u, v, m
      <4>1. Place \in SUBSET Place
        OBVIOUS
      <4> QED BY <3>2, <3>3, <3>4, <4>1, ReplaysAgree
    <3>6. h(b)[b] = h(q)[b]
      BY <1>1, <3>1, <3>5
    <3>7. f[b] = h(q)[b]
      BY <3>1, <3>6
    <3> QED BY <2>1, <2>2, <3>7 DEF Replayed
  <2> QED BY <2>1, <2>2 DEF Replayed
<1>4. f = [q \in Place |-> f[q]]
  OBVIOUS
<1> HIDE DEF f
<1>5. Replays(f, rows)
  BY <1>3, <1>4, Zenon DEF Replays
<1> QED BY <1>5

\* The graph a lineage leads to satisfies the equation it is defined by.
LEMMA GraphsAreReplayed ==
    ASSUME NEW rank, Ranked(rank, proposal)
    PROVE  \E f : Replays(f, proposal) /\ \A b : GraphAt(b) = f[b]
<1> DEFINE f == CHOOSE f : Replays(f, proposal)
<1>1. \A b : GraphAt(b) = f[b]
  BY Zenon DEF GraphAt, Replays, Replayed, Place
<1>2. Replays(f, proposal)
  BY ReplayExists, Zenon
<1> QED BY <1>1, <1>2, Zenon

(***************************************************************************)
(* The published curriculum is the replay of its lineage.                  *)
(***************************************************************************)
RanksExist == \E rank : Ranked(rank, proposal)

PublishedIsReplayed == published = GraphAt(head)

\* What a transaction makes of the one proposal it writes.
LEMMA TransactionCases ==
    ASSUME TypeOK, Transaction
    PROVE  \E p \in Proposals :
              /\ \A q \in Proposals \ {p} : proposal'[q] = proposal[q]
              /\ \/ AcceptCurriculumProposal(p)
                 \/ /\ UNCHANGED <<head, published>>
                    /\ proposal[p].status # "accepted" /\ proposal'[p].status # "accepted"
                    /\ proposal'[p].base \in {proposal[p].base, head, None}
<1> USE DEF TypeOK
<1>1. ASSUME NEW p \in Proposals, NEW C \in SUBSET Change, DraftMutated(p, C)
      PROVE  /\ proposal'[p].status = "draft" /\ proposal'[p].base = head
             /\ \A q \in Proposals \ {p} : proposal'[q] = proposal[q]
  <2>1. proposal'[p] = [status |-> "draft", base |-> head,
                        author |-> proposal[p].author, changes |-> C]
    BY <1>1, MutatedRow
  <2>2. \A q \in Proposals \ {p} : proposal'[q] = proposal[q]
    BY <1>1, MutatedRow
  <2> QED BY <2>1, <2>2
<1>2. PICK p \in Proposals :
        \/ \E a \in Authors : CreateCurriculumProposal(p, a)
        \/ \E a \in Authors : DeleteCurriculumProposal(p, a)
        \/ \E C \in SUBSET Change : DraftMutated(p, C)
        \/ \E a \in Authors : SubmitCurriculumProposal(p, a)
        \/ AcceptCurriculumProposal(p)
        \/ RejectCurriculumProposal(p)
  BY DEF Transaction
<1> DEFINE Goal == /\ \A q \in Proposals \ {p} : proposal'[q] = proposal[q]
                   /\ \/ AcceptCurriculumProposal(p)
                      \/ /\ UNCHANGED <<head, published>>
                         /\ proposal[p].status # "accepted" /\ proposal'[p].status # "accepted"
                         /\ proposal'[p].base \in {proposal[p].base, head, None}
<1>3. ASSUME NEW a \in Authors, CreateCurriculumProposal(p, a) PROVE Goal
  BY <1>3 DEF CreateCurriculumProposal
<1>4. ASSUME NEW a \in Authors, DeleteCurriculumProposal(p, a) PROVE Goal
  BY <1>4 DEF DeleteCurriculumProposal, OwnDraft, Unused
<1>5. ASSUME NEW C \in SUBSET Change, DraftMutated(p, C) PROVE Goal
  <2>1. UNCHANGED <<head, published>> /\ proposal[p].status = "draft"
    BY <1>5 DEF DraftMutated
  <2> QED BY <1>1, <1>5, <2>1
<1>6. ASSUME NEW a \in Authors, SubmitCurriculumProposal(p, a) PROVE Goal
  BY <1>6 DEF SubmitCurriculumProposal, BeginDraftMutation, OwnDraft, ProposalRow
<1>7. CASE AcceptCurriculumProposal(p)
  <2>1. \A q \in Proposals \ {p} : proposal'[q] = proposal[q]
    BY <1>7 DEF AcceptCurriculumProposal
  <2> QED BY <1>7, <2>1
<1>8. CASE RejectCurriculumProposal(p)
  BY <1>8 DEF RejectCurriculumProposal, ProposalRow
<1> QED BY <1>2, <1>3, <1>4, <1>5, <1>6, <1>7, <1>8

\* The row and the head that an acceptance writes.
LEMMA AcceptedRow ==
    ASSUME TypeOK, NEW p \in Proposals, AcceptCurriculumProposal(p)
    PROVE  /\ proposal[p].status = "submitted" /\ proposal'[p].status = "accepted"
           /\ proposal'[p].base = proposal[p].base
           /\ proposal'[p].changes = proposal[p].changes
           /\ proposal[p].base = head /\ head' = p
           /\ published' = WithProposal(published, proposal[p].changes)
BY DEF TypeOK, ProposalRow, AcceptCurriculumProposal

\* Initially there is nothing to rank.
LEMMA RanksInit == Init => RanksExist
<1> SUFFICES ASSUME Init PROVE RanksExist
  OBVIOUS
<1> DEFINE rank == [q \in Place |-> IF q \in Proposals THEN 1 ELSE 0]
<1>1. \A q \in Proposals : proposal[q].base = None
  <2>1. CASE Seed = {}
    BY <2>1 DEF Init, Unused
  <2>2. CASE Seed # {}
    BY <2>2 DEF Init, Unused
  <2> QED BY <2>1, <2>2
<1>2. Ranked(rank, proposal)
  BY <1>1, NoneAssumption DEF Ranked, Place
<1> HIDE DEF rank
<1> QED BY <1>2 DEF RanksExist

\* Only a proposal that nothing is based on moves to another base.
LEMMA RanksStep ==
    ASSUME IInv, RanksExist, [Transaction]_vars
    PROVE  RanksExist'
<1>1. PICK rank : Ranked(rank, proposal)
  BY DEF RanksExist
<1>2. CASE UNCHANGED vars
  BY <1>1, <1>2 DEF vars, RanksExist
<1>3. CASE Transaction
  <2>1. PICK p \in Proposals :
              /\ \A q \in Proposals \ {p} : proposal'[q] = proposal[q]
              /\ \/ AcceptCurriculumProposal(p)
                 \/ /\ UNCHANGED <<head, published>>
                    /\ proposal[p].status # "accepted" /\ proposal'[p].status # "accepted"
                    /\ proposal'[p].base \in {proposal[p].base, head, None}
    BY <1>3, TransactionCases DEF IInv
  <2>2. CASE AcceptCurriculumProposal(p)
    <3>1. proposal'[p].base = proposal[p].base
      BY <2>2, AcceptedRow DEF IInv
    <3>2. Ranked(rank, proposal')
      BY <1>1, <2>1, <3>1 DEF Ranked
    <3> QED BY <3>2 DEF RanksExist
  <2>3. CASE /\ proposal[p].status # "accepted"
             /\ proposal'[p].base \in {proposal[p].base, head, None}
    <3> DEFINE b == proposal'[p].base
               new == [q \in Place |-> IF q = p THEN rank[b] + 1 ELSE rank[q]]
    <3>1. /\ b \in Place /\ b # p
          /\ \A q \in Proposals : proposal[q].base \in Place /\ proposal[q].base # p
      BY <2>3, NoneAssumption DEF IInv, Anchored, InStatus, Place
    <3>2. \A q \in Place : rank[q] \in Nat
      BY <1>1 DEF Ranked
    <3>3. \A q \in Place : new[q] = IF q = p THEN rank[b] + 1 ELSE rank[q]
      OBVIOUS
    <3>4. new \in [Place -> Nat]
      BY <3>1, <3>2
    <3> HIDE DEF new
    <3>5. ASSUME NEW q \in Proposals
          PROVE  proposal'[q].base \in Place /\ new[proposal'[q].base] < new[q]
      <4>1. CASE q = p
        <5>1. new[b] = rank[b] /\ new[p] = rank[b] + 1 /\ rank[b] \in Nat
          BY <3>1, <3>2, <3>3 DEF Place
        <5> QED BY <3>1, <4>1, <5>1
      <4>2. CASE q # p
        <5>1. /\ proposal'[q].base = proposal[q].base /\ q \in Place
              /\ rank[proposal[q].base] < rank[q]
          BY <1>1, <2>1, <4>2 DEF Ranked, Place
        <5> QED BY <3>1, <3>3, <4>2, <5>1
      <4> QED BY <4>1, <4>2
    <3>6. Ranked(new, proposal')
      BY <3>4, <3>5 DEF Ranked
    <3> QED BY <3>6 DEF RanksExist
  <2> QED BY <2>1, <2>2, <2>3
<1> QED BY <1>2, <1>3

\* GraphAt is the replay, in this state
LEMMA GraphsOfRows ==
    RanksExist => \E f : /\ \A q \in Place : f[q] = Replayed(f, proposal, q)
                         /\ \A b : GraphAt(b) = f[b]
<1> SUFFICES ASSUME RanksExist
             PROVE  \E f : /\ \A q \in Place : f[q] = Replayed(f, proposal, q)
                           /\ \A b : GraphAt(b) = f[b]
  OBVIOUS
<1>1. PICK f : Replays(f, proposal) /\ \A b : GraphAt(b) = f[b]
  BY GraphsAreReplayed DEF RanksExist
<1>2. \A q \in Place : f[q] = Replayed(f, proposal, q)
  BY <1>1 DEF Replays
<1> QED BY <1>1, <1>2

\* and in the next one.
LEMMA GraphsOfNextRows ==
    RanksExist' => \E f : /\ \A q \in Place : f[q] = Replayed(f, proposal', q)
                          /\ \A b : GraphAt(b)' = f[b]
<1>1. RanksExist' => (\E f : /\ \A q \in Place : f[q] = Replayed(f, proposal, q)
                             /\ \A b : GraphAt(b) = f[b])'
  BY GraphsOfRows, PTL
<1> QED BY <1>1 DEF Replayed

\* What a lineage of accepted proposals leads to is never rewritten.
LEMMA HistoryIsKept ==
    ASSUME IInv, RanksExist, RanksExist', [Transaction]_vars,
           NEW b \in InStatus("accepted") \cup {None}
    PROVE  GraphAt(b)' = GraphAt(b)
<1> DEFINE A == InStatus("accepted") \cup {None}
<1>1. PICK rank : Ranked(rank, proposal)
  BY DEF RanksExist
<1>2. PICK f : /\ \A q \in Place : f[q] = Replayed(f, proposal, q)
               /\ \A c : GraphAt(c) = f[c]
  BY GraphsOfRows
<1>3. PICK g : /\ \A q \in Place : g[q] = Replayed(g, proposal', q)
               /\ \A c : GraphAt(c)' = g[c]
  BY GraphsOfNextRows
<1>4. A \in SUBSET Place
  BY DEF InStatus, Place
<1>5. [FrozenOnceSubmitted]_vars
  BY FrozenTransaction DEF IInv
<1>6. \A q \in A \cap Proposals : /\ proposal'[q].base = proposal[q].base
                                 /\ proposal'[q].changes = proposal[q].changes
                                 /\ proposal[q].base \in A
  BY <1>5, NoneAssumption DEF FrozenOnceSubmitted, vars, InStatus, IInv, Anchored
<1> DEFINE m == rank[b] + 1
           rows == proposal
           other == proposal'
<1>7. b \in A /\ rank[b] \in Nat /\ m \in Nat /\ rank[b] < m
  BY <1>1, <1>4 DEF Ranked
<1>8. Ranked(rank, rows) /\ Below(f, rows, rank, m)
  BY <1>1, <1>2 DEF Below
<1>9. \A q \in A : rank[q] < m => g[q] = Replayed(g, other, q)
  BY <1>3, <1>4
<1>10. \A q \in A \cap Proposals : /\ other[q].base = rows[q].base
                                  /\ other[q].changes = rows[q].changes
                                  /\ rows[q].base \in A
  BY <1>6
<1>11. \A q \in A : rank[q] < m => f[q] = g[q]
  <2> HIDE DEF A, m, rows, other
  <2> QED BY <1>4, <1>7, <1>8, <1>9, <1>10, ReplaysAgree
<1> QED BY <1>2, <1>3, <1>7, <1>11

\* The published graph is that of the head, initially
LEMMA ReplayInit == Init => PublishedIsReplayed
<1> SUFFICES ASSUME Init PROVE PublishedIsReplayed
  OBVIOUS
<1>1. PICK f : /\ \A q \in Place : f[q] = Replayed(f, proposal, q)
               /\ \A c : GraphAt(c) = f[c]
  BY GraphsOfRows, RanksInit
<1>2. f[None] = EmptyGraph
  BY <1>1, NoneAssumption DEF Place, Replayed
<1>3. CASE Seed = {}
  <2>1. head = None /\ published = WithProposal(EmptyGraph, {})
    BY <1>3 DEF Init
  <2>2. WithProposal(EmptyGraph, {}) = EmptyGraph
    BY DEF WithProposal, EmptyGraph, ResultingUnits, EditedDependencies, Created, Deleted,
           Added, Removed, Kind
  <2> QED BY <1>1, <1>2, <2>1, <2>2 DEF PublishedIsReplayed
<1>4. CASE Seed # {}
  <2>1. /\ head \in Proposals /\ published = WithProposal(EmptyGraph, Seed)
        /\ proposal[head].base = None /\ proposal[head].changes = Seed
    BY <1>4 DEF Init
  <2>2. f[head] = WithProposal(EmptyGraph, Seed)
    BY <1>1, <1>2, <2>1 DEF Place, Replayed
  <2> QED BY <1>1, <2>1, <2>2 DEF PublishedIsReplayed
<1> QED BY <1>3, <1>4

\* and after every transaction.
LEMMA ReplayStep ==
    ASSUME IInv, RanksExist, RanksExist', PublishedIsReplayed, [Transaction]_vars
    PROVE  PublishedIsReplayed'
<1>1. head \in InStatus("accepted") \cup {None}
  BY DEF IInv, Anchored
<1>2. GraphAt(head) = published
  BY DEF PublishedIsReplayed
<1>3. ASSUME NEW h, h = head PROVE GraphAt(h)' = published
  <2>1. GraphAt(h)' = GraphAt(h)
    BY <1>1, <1>3, HistoryIsKept
  <2> QED BY <1>2, <1>3, <2>1
<1>4. ASSUME UNCHANGED <<head, published>> PROVE PublishedIsReplayed'
  <2>1. PICK h : h = head
    OBVIOUS
  <2>2. GraphAt(h)' = published
    BY <1>3, <2>1
  <2> QED BY <1>4, <2>1, <2>2 DEF PublishedIsReplayed, GraphAt
<1>5. ASSUME NEW p \in Proposals, AcceptCurriculumProposal(p)
      PROVE  PublishedIsReplayed'
  <2>1. /\ proposal'[p].base = head /\ proposal'[p].changes = proposal[p].changes
        /\ head' = p /\ published' = WithProposal(published, proposal[p].changes)
    BY <1>5, AcceptedRow DEF IInv
  <2>2. PICK g : /\ \A q \in Place : g[q] = Replayed(g, proposal', q)
                 /\ \A c : GraphAt(c)' = g[c]
    BY GraphsOfNextRows
  <2>3. g[p] = WithProposal(g[head], proposal[p].changes)
    BY <2>1, <2>2 DEF Place, Replayed
  <2>4. PICK h : h = head
    OBVIOUS
  <2>5. g[h] = published
    BY <1>3, <2>2, <2>4
  <2>6. GraphAt(p)' = published'
    BY <2>1, <2>2, <2>3, <2>4, <2>5
  <2> QED BY <2>1, <2>6 DEF PublishedIsReplayed, GraphAt
<1>6. CASE UNCHANGED vars
  BY <1>4, <1>6 DEF vars
<1>7. CASE Transaction
  BY <1>4, <1>5, <1>7, TransactionCases DEF IInv
<1> QED BY <1>6, <1>7

(***************************************************************************)
(* What readers have seen.                                                 *)
(***************************************************************************)
Early == {"sent", "inspected", "committed"}

\* Whoever found a proposal submitted, or reviewed, has its row, and the page
\* that was drawn is that of the row.
Faithful(x) ==
    LET row == proposal[x.proposal] IN
    x.phase \in {"row", "members", "read", "drawn"} /\ x.seen.status # "draft" =>
        /\ row.status \in {"submitted", "accepted", "rejected"}
        /\ x.seen.base = row.base /\ x.seen.changes = row.changes
        /\ x.phase = "drawn" => x.seen.graph = WithProposal(GraphAt(row.base), row.changes)

\* What a step of one call makes of it, as far as its reader's view goes.
Steady(t) ==
    \/ t = Idle
    \/ CallOK(t) /\ t.phase \in Early
    \/ CallOK(t) /\ Faithful(t) /\ UNCHANGED vars

\* The type of a call that goes on.
LEMMA NowIsOK ==
    ASSUME NEW x, CallOK(x), NEW ph \in Phase, NEW seen,
           ph \in {"row", "members", "read"} =>
               seen = Proposal(seen.status, seen.base, seen.changes)
    PROVE  CallOK(Now(x, ph, seen))
BY DEF CallOK, Now, Proposal

\* A step moves one call on, at most, and what that call has seen stays faithful.
LEMMA CallMoves ==
    ASSUME TypeOK, CallsOK, \A d \in Client : Faithful(call[d]), CallNext
    PROVE  UNCHANGED call \/ \E c \in Client : \E t : Moved(c, t) /\ Steady(t)
<1>1. ASSUME NEW c \in Client, NEW via \in Via, NEW a \in Authors, NEW p \in Proposals,
             NEW r \in Requests(p), Begin(c, via, a, p, r)
      PROVE  \E t : Moved(c, t) /\ Steady(t)
  <2> DEFINE t == Sent(via, a, p, r)
  <2>1. Moved(c, t)
    BY <1>1 DEF Begin, CallsOK, Moved
  <2>2. CallOK(t) /\ t.phase \in Early
    BY RequestsAreOK DEF CallOK, Sent, Early, Phase
  <2> QED BY <2>1, <2>2 DEF Steady
<1>2. ASSUME NEW c \in Client, NEW via \in Via, NEW a \in Authors, NEW p \in Proposals,
             NEW y \in Title, CreateProposal(c, via, a, p, y)
      PROVE  \E t : Moved(c, t) /\ Steady(t)
  <2> DEFINE s == Sent(via, a, p, [tool |-> "create_proposal"])
             t == [s EXCEPT !.phase = "committed"]
  <2>1. Moved(c, t)
    BY <1>2 DEF CreateProposal, CallsOK, Moved
  <2>2. CallOK(t) /\ t.phase \in Early
    BY DEF CallOK, Sent, Early, Phase, RequestOK
  <2> QED BY <2>1, <2>2 DEF Steady
<1>3. ASSUME NEW c \in Client, call[c] # Idle
      PROVE  CallOK(call[c]) /\ Faithful(call[c])
  BY <1>3 DEF CallsOK
<1>4. ASSUME NEW c \in Client, Inspect(c) \/ Commit(c)
      PROVE  \E t : Moved(c, t) /\ Steady(t)
  <2> DEFINE x == call[c]
  <2>1. PICK ph \in Early : call' = [call EXCEPT ![c].phase = ph]
    BY <1>4 DEF Inspect, Commit, Early
  <2>2. CallOK(x)
    BY <1>3, <1>4 DEF Inspect, Commit, Idle
  <2>3. Moved(c, Now(x, ph, x.seen))
    BY <2>1, <2>2, CallsMove
  <2>4. CallOK(Now(x, ph, x.seen))
    BY <2>2, NowIsOK DEF Early, Phase
  <2> QED BY <2>3, <2>4 DEF Steady, Now
<1>5. ASSUME NEW c \in Client, ReadRow(c)
      PROVE  \E t : Moved(c, t) /\ Steady(t)
  <2> DEFINE x == call[c]
             row == proposal[x.proposal]
             seen == Proposal(row.status, row.base, row.changes)
             t == Now(x, "row", seen)
  <2>1. CallOK(x)
    BY <1>3, <1>5 DEF ReadRow, Idle
  <2>2. call' = [call EXCEPT ![c].phase = "row", ![c].seen = seen]
    BY <1>5 DEF ReadRow, Proposal
  <2>3. Moved(c, t)
    BY <2>1, <2>2, CallsMove
  <2>4. CallOK(t)
    BY <2>1, NowIsOK DEF Phase, Proposal
  <2>5. row.status \in {"draft", "submitted", "accepted", "rejected"}
    BY <1>5, <2>1 DEF ReadRow, CallOK, TypeOK, ProposalRow
  <2>6. Faithful(t)
    BY <2>5 DEF Faithful, Now, Proposal
  <2> QED BY <1>5, <2>3, <2>4, <2>6 DEF Steady, ReadRow
<1>6. ASSUME NEW c \in Client, ReadChanges(c)
      PROVE  \E t : Moved(c, t) /\ Steady(t)
  <2> DEFINE x == call[c]
             row == proposal[x.proposal]
             seen == Proposal(x.seen.status, x.seen.base, row.changes)
             t == Now(x, "members", seen)
  <2>1. CallOK(x) /\ Faithful(x) /\ x.phase = "row"
    BY <1>3, <1>6 DEF ReadChanges, Idle
  <2>2. call' = [call EXCEPT ![c].phase = "members", ![c].seen.changes = row.changes]
    BY <1>6 DEF ReadChanges
  <2>3. Moved(c, t)
    BY <2>1, <2>2, CallsMove
  <2>4. CallOK(t)
    BY <2>1, NowIsOK DEF Phase, Proposal
  <2>5. Faithful(t)
    BY <2>1 DEF Faithful, Now, Proposal
  <2> QED BY <1>6, <2>3, <2>4, <2>5 DEF Steady, ReadChanges
<1>7. ASSUME NEW c \in Client, ReadMembers(c)
      PROVE  \E t : Moved(c, t) /\ Steady(t)
  <2> DEFINE x == call[c]
             row == proposal[x.proposal]
             gone == Kind(x.seen.changes, "recognition") \ Kind(row.changes, "recognition")
             C == (x.seen.changes \ gone) \cup {Recognition({}, {}, r.copy) : r \in gone}
             seen == Proposal(x.seen.status, x.seen.base, C)
             t == Now(x, "read", seen)
  <2>1. CallOK(x) /\ Faithful(x) /\ x.phase = "members"
    BY <1>3, <1>7 DEF ReadMembers, Idle
  <2>2. call' = [call EXCEPT ![c].phase = "read", ![c].seen.changes = C]
    BY <1>7 DEF ReadMembers
  <2>3. Moved(c, t)
    BY <2>1, <2>2, CallsMove
  <2>4. CallOK(t)
    BY <2>1, NowIsOK DEF Phase, Proposal
  <2>5. x.seen.changes = row.changes => C = row.changes
    OBVIOUS
  <2>6. Faithful(t)
    <3> HIDE DEF C
    <3> QED BY <2>1, <2>5 DEF Faithful, Now, Proposal
  <2> QED BY <1>7, <2>3, <2>4, <2>6 DEF Steady, ReadMembers
<1>8. ASSUME NEW c \in Client, Draw(c)
      PROVE  \E t : Moved(c, t) /\ Steady(t)
  <2> DEFINE x == call[c]
             G == WithProposal(GraphAt(x.seen.base), x.seen.changes)
             seen == [status |-> x.seen.status, base |-> x.seen.base,
                      changes |-> x.seen.changes, graph |-> G]
             t == Now(x, "drawn", seen)
  <2>1. CallOK(x) /\ Faithful(x) /\ x.phase = "read" /\ x.seen.status # "draft"
    BY <1>3, <1>8 DEF Draw, Idle
  <2>2. call' = [call EXCEPT ![c].phase = "drawn", ![c].seen = seen]
    <3>1. call = [d \in Client |-> call[d]]
      BY DEF CallsOK
    <3> QED BY <1>8, <3>1 DEF Draw
  <2>3. Moved(c, t)
    BY <2>1, <2>2, CallsMove
  <2>4. CallOK(t)
    BY <2>1, NowIsOK DEF Phase
  <2>5. Faithful(t)
    <3> HIDE DEF G
    <3>1. /\ proposal[x.proposal].status \in {"submitted", "accepted", "rejected"}
          /\ x.seen.base = proposal[x.proposal].base
          /\ x.seen.changes = proposal[x.proposal].changes
      BY <2>1 DEF Faithful
    <3>2. G = WithProposal(GraphAt(proposal[x.proposal].base), proposal[x.proposal].changes)
      BY <3>1 DEF G
    <3> QED BY <3>1, <3>2 DEF Faithful, Now
  <2> QED BY <1>8, <2>3, <2>4, <2>5 DEF Steady, Draw
<1>9. ASSUME NEW c \in Client, End(c)
      PROVE  \E t : Moved(c, t) /\ Steady(t)
  BY <1>9 DEF End, Moved, Steady, CallsOK
<1>10. ASSUME NEW c \in Client, Repeat(c)
       PROVE  \E t : Moved(c, t) /\ Steady(t)
  <2> DEFINE x == call[c]
             y == Now(x, "sent", x.seen)
             z == [y EXCEPT !.tries = x.tries + 1]
             t == [z EXCEPT !.seen = <<>>]
  <2>1. CallOK(x)
    BY <1>3, <1>10 DEF Repeat, Idle
  <2>2. [x EXCEPT !.phase = "sent"] = y
    <3>1. x = Now(x, x.phase, x.seen)
      BY <2>1 DEF CallOK, Now
    <3> QED BY <3>1 DEF Now
  <2>3. z = [phase |-> "sent", via |-> x.via, author |-> x.author, proposal |-> x.proposal,
             request |-> x.request, tries |-> x.tries + 1, seen |-> x.seen]
    BY DEF Now
  <2>4. t = [phase |-> "sent", via |-> x.via, author |-> x.author, proposal |-> x.proposal,
             request |-> x.request, tries |-> x.tries + 1, seen |-> <<>>]
    <3> HIDE DEF x, z
    <3> QED BY <2>3
  <2>5. Moved(c, t)
    <3>1. call' = [call EXCEPT ![c] = [x EXCEPT !.phase = "sent", !.tries = x.tries + 1,
                                                !.seen = <<>>]]
      BY <1>10 DEF Repeat
    <3>2. [x EXCEPT !.phase = "sent", !.tries = x.tries + 1, !.seen = <<>>]
            = [[[x EXCEPT !.phase = "sent"] EXCEPT !.tries = x.tries + 1] EXCEPT !.seen = <<>>]
      OBVIOUS
    <3>3. call' = [call EXCEPT ![c] = t]
      <4> HIDE DEF x, y
      <4> QED BY <2>2, <3>1, <3>2
    <3> QED BY <3>3 DEF Moved, CallsOK
  <2>6. CallOK(t) /\ t.phase \in Early
    <3> HIDE DEF t
    <3> QED BY <2>1, <2>4 DEF CallOK, Early, Phase
  <2> QED BY <2>5, <2>6 DEF Steady
<1>11. CASE Elsewhere
  BY <1>11 DEF Elsewhere
<1> QED BY <1>1, <1>2, <1>4, <1>5, <1>6, <1>7, <1>8, <1>9, <1>10, <1>11 DEF CallNext

\* No transaction takes from its reader what was seen of a submitted proposal.
LEMMA FaithfulStep ==
    ASSUME IInv, RanksExist, RanksExist', [Transaction]_vars,
           NEW x, x = Idle \/ CallOK(x), Faithful(x)
    PROVE  Faithful(x)'
<1> DEFINE row == proposal[x.proposal]
<1> SUFFICES ASSUME x.phase \in {"row", "members", "read", "drawn"}, x.seen.status # "draft"
             PROVE  /\ row'.status \in {"submitted", "accepted", "rejected"}
                    /\ x.seen.base = row'.base /\ x.seen.changes = row'.changes
                    /\ x.phase = "drawn" =>
                          x.seen.graph = WithProposal(GraphAt(row.base)', row'.changes)
  BY DEF Faithful
<1>1. x.proposal \in Proposals
  BY DEF CallOK, Idle
<1>2. /\ row.status \in {"submitted", "accepted", "rejected"}
      /\ x.seen.base = row.base /\ x.seen.changes = row.changes
      /\ x.phase = "drawn" => x.seen.graph = WithProposal(GraphAt(row.base), row.changes)
  BY DEF Faithful
<1>3. /\ row'.status \in {"submitted", "accepted", "rejected"}
      /\ row'.base = row.base /\ row'.changes = row.changes
  <2>1. [FrozenOnceSubmitted]_vars
    BY FrozenTransaction DEF IInv
  <2> QED BY <1>1, <1>2, <2>1 DEF FrozenOnceSubmitted, vars
<1>4. PICK b : b = row.base
  OBVIOUS
<1>5. GraphAt(b)' = GraphAt(b)
  <2>1. b \in InStatus("accepted") \cup {None}
    BY <1>1, <1>4 DEF IInv, Anchored
  <2> QED BY <2>1, HistoryIsKept
<1>6. GraphAt(row.base)' = GraphAt(b)'
  BY <1>3, <1>4 DEF GraphAt
<1> QED BY <1>2, <1>3, <1>4, <1>5, <1>6

(***************************************************************************)
(* Repetition.  A call is made of the draft that it meets: what it asks    *)
(* for is so afterwards, and if it was so before, the draft is as it was   *)
(* but for its base.  That takes drafts that are diffs: a draft with two   *)
(* changes of one thing, or one that edits what it creates, could keep     *)
(* what a call has replaced.                                               *)
(***************************************************************************)
SameDraft(p) == proposal'[p] = [proposal[p] EXCEPT !.base = proposal'[p].base]

\* What a mutation leaves of the draft, and when that is the draft it was.
LEMMA CommittedDraft ==
    ASSUME TypeOK, NEW p \in Proposals, NEW D, proposal[p].status = "draft", CommitDraft(p, D)
    PROVE  /\ proposal'[p] = [status |-> "draft", base |-> head,
                              author |-> proposal[p].author, changes |-> D]
           /\ proposal'[p].changes = D /\ proposal'[p].base = head
           /\ Working(p)' = WithProposal(published, D)
           /\ D = proposal[p].changes => SameDraft(p)
<1>1. proposal'[p] = [status |-> "draft", base |-> head,
                      author |-> proposal[p].author, changes |-> D]
  BY DEF CommitDraft, TypeOK, ProposalRow
<1>2. Working(p)' = WithProposal(published, D)
  <2>1. proposal'[p].changes = D /\ published' = published
    BY <1>1 DEF CommitDraft
  <2> QED BY <2>1 DEF Working, WithProposal, ResultingUnits, EditedDependencies, TextAfter, TextBefore
<1>3. proposal[p] = [status |-> "draft", base |-> proposal[p].base,
                     author |-> proposal[p].author, changes |-> proposal[p].changes]
  BY DEF TypeOK, ProposalRow
<1>4. D = proposal[p].changes => SameDraft(p)
  BY <1>1, <1>3 DEF SameDraft
<1>5. proposal'[p].changes = D /\ proposal'[p].base = head
  BY <1>1
<1> QED BY <1>1, <1>2, <1>4, <1>5

\* The draft that a mutation begins with.
LEMMA Begun ==
    ASSUME TypeOK, DraftsAreDiffs, NEW p \in Proposals, NEW a, BeginDraftMutation(p, a)
    PROVE  /\ proposal[p].status = "draft"
           /\ proposal[p].changes \in SUBSET Change
           /\ Diff(proposal[p].changes) /\ Separate(proposal[p].changes)
BY BegunIsDiff DEF BeginDraftMutation, OwnDraft, TypeOK, ProposalRow, DraftsAreDiffs, InStatus

\* The texts a unit of the working graph has.
LEMMA TextsOfUnits ==
    ASSUME NEW G, NEW D, NEW u \in ResultingUnits(G, D), NEW t \in [Field -> Text]
    PROVE  WithProposal(G, D).text[u] = t <=> \A f \in Field : TextAfter(G, D, f, u) = t[f]
<1>1. WithProposal(G, D).text[u] = [f \in Field |-> TextAfter(G, D, f, u)]
  BY DEF WithProposal
<1> QED BY <1>1

\* The texts of a unit of the draft are those asked for, and nothing moves if they were.
LEMMA CreatedTextsConverge ==
    ASSUME TypeOK, DraftsAreDiffs, NEW p \in Proposals, NEW a \in Authors, NEW u \in UnitId,
           NEW t \in [Field -> Text], UpdateCreatedUnit(p, a, u, t)
    PROVE  /\ u \in Working(p)'.units /\ Working(p)'.text[u] = t
           /\ Working(p).text[u] = t => SameDraft(p)
<1> DEFINE C == proposal[p].changes
           text == [f \in Field |-> IF f \in DOMAIN t THEN t[f] ELSE TextAfter(published, C, f, u)]
           old == CHOOSE c \in Kind(C, "create_unit") : c.unit = u
           D == (C \ ({old} \cup EditsOf(C, "name", u) \cup EditsOf(C, "content", u)))
                \cup {Creation(u, text)}
           x == Creation(u, t)
<1>1. BeginDraftMutation(p, a) /\ u \in Created(C) /\ u \notin Deleted(C) /\ CommitDraft(p, D)
  BY DEF UpdateCreatedUnit
<1>2. proposal[p].status = "draft" /\ C \in SUBSET Change /\ Diff(C) /\ Separate(C)
  BY <1>1, Begun
<1>3. old \in C /\ old.kind = "create_unit" /\ old.unit = u
  BY <1>1 DEF Created, Kind
<1>4. \A c \in C : c.kind = "create_unit" /\ c.unit = u => c = old
  BY <1>2, <1>3 DEF Diff, DiffOf
<1>5. text = t
  OBVIOUS
<1>6. \A f \in Field : EditsOf(C, f, u) = {}
  BY <1>1, <1>2 DEF Separate, EditsOf, Kind, EditKind, Field
<1>7. x.kind = "create_unit" /\ x.unit = u /\ x.text = t
  BY DEF Creation
<1> HIDE DEF old, text
<1>8. D = (C \ {old}) \cup {x}
  BY <1>5, <1>6 DEF Field
<1> HIDE DEF D, x
<1>9. \A f \in Field : EditsOf(D, f, u) = {}
  BY <1>6, <1>7, <1>8 DEF EditsOf, Kind, EditKind, Field
<1>10. u \in ResultingUnits(published, D)
  BY <1>1, <1>7, <1>8 DEF ResultingUnits, Created, Deleted, Kind
<1>11. \A f \in Field : TextAfter(published, D, f, u) = t[f]
  <2>1. \A c \in Kind(D, "create_unit") : c.unit = u => c = x
    BY <1>4, <1>8 DEF Kind
  <2>2. x \in Kind(D, "create_unit") /\ u \in Created(D)
    BY <1>7, <1>8 DEF Kind, Created
  <2>3. (CHOOSE c \in Kind(D, "create_unit") : c.unit = u) = x
    BY <1>7, <2>1, <2>2
  <2> QED BY <1>7, <1>9, <2>2, <2>3 DEF TextAfter, TextBefore
<1>12. Working(p)' = WithProposal(published, D)
  BY <1>1, <1>2, CommittedDraft
<1>13. u \in Working(p)'.units /\ Working(p)'.text[u] = t
  BY <1>10, <1>11, <1>12, TextsOfUnits DEF WithProposal
<1>14. ASSUME Working(p).text[u] = t PROVE SameDraft(p)
  <2>1. u \in ResultingUnits(published, C)
    BY <1>1 DEF ResultingUnits
  <2>2. \A f \in Field : TextAfter(published, C, f, u) = t[f]
    BY <1>14, <2>1, TextsOfUnits DEF Working
  <2>3. \A f \in Field : old.text[f] = t[f]
    BY <1>1, <1>6, <2>2 DEF TextAfter, TextBefore, old
  <2>4. old = [kind |-> "create_unit", unit |-> u, text |-> old.text] /\ old.text \in [Field -> Text]
    BY <1>2, <1>3 DEF Change
  <2>5. old.text = t
    BY <2>3, <2>4
  <2>6. old = x
    BY <2>4, <2>5 DEF x, Creation
  <2>7. D = C
    BY <1>3, <1>8, <2>6
  <2> QED BY <1>1, <1>2, <2>7, CommittedDraft
<1> QED BY <1>13, <1>14

\* So are those of a published unit, whose restored texts are no changes.
LEMMA PublishedTextsConverge ==
    ASSUME TypeOK, DraftsAreDiffs, NEW p \in Proposals, NEW a \in Authors, NEW u \in UnitId,
           NEW t \in [Field -> Text], UpdatePublishedUnit(p, a, u, t)
    PROVE  /\ u \in Working(p)'.units /\ Working(p)'.text[u] = t
           /\ Working(p).text[u] = t => SameDraft(p)
<1> DEFINE C == proposal[p].changes
           kept == C \ UNION {EditsOf(C, f, u) : f \in DOMAIN t}
           effective == {f \in DOMAIN t : t[f] # published.text[u][f]}
           D == kept \cup {Edit(f, u, t[f]) : f \in effective}
<1>1. /\ BeginDraftMutation(p, a) /\ CommitDraft(p, D)
      /\ u \in published.units /\ u \notin Created(C) /\ u \notin Deleted(C)
  BY DEF UpdatePublishedUnit
<1>2. proposal[p].status = "draft" /\ C \in SUBSET Change /\ Diff(C)
  BY <1>1, Begun
<1>3. \A f \in Field : /\ Edit(f, u, t[f]).kind = EditKind[f]
                       /\ Edit(f, u, t[f]).unit = u /\ Edit(f, u, t[f]).value = t[f]
  BY DEF Edit
<1>4. /\ \A f \in Field : EditKind[f] \in {"rename_unit", "update_content"}
      /\ \A f, g \in Field : EditKind[f] = EditKind[g] => f = g
  BY DEF Field, EditKind
<1>5. \A f \in Field : f \in effective <=> t[f] # published.text[u][f]
  OBVIOUS
<1>6. /\ kept \subseteq C
      /\ \A f \in Field, c \in kept : ~(c.kind = EditKind[f] /\ c.unit = u)
      /\ \A c \in C : c \notin kept => \E f \in Field : c \in EditsOf(C, f, u)
  BY DEF EditsOf, Kind
<1>7. /\ \A f \in effective : f \in Field
      /\ \A c \in D : c \in kept \/ \E f \in effective : c = Edit(f, u, t[f])
      /\ \A f \in effective : Edit(f, u, t[f]) \in D
      /\ kept \subseteq D
  OBVIOUS
<1> HIDE DEF kept, effective, D
<1>8. u \notin Created(D) /\ u \notin Deleted(D)
  BY <1>1, <1>3, <1>4, <1>6, <1>7 DEF Created, Deleted, Kind
<1>9. u \in ResultingUnits(published, D)
  BY <1>1, <1>8 DEF ResultingUnits
<1>10. ASSUME NEW f \in Field PROVE TextAfter(published, D, f, u) = t[f]
  <2>1. CASE f \in effective
    <3>1. EditsOf(D, f, u) = {Edit(f, u, t[f])}
      <4>1. Edit(f, u, t[f]) \in EditsOf(D, f, u)
        BY <1>3, <1>7, <2>1 DEF EditsOf, Kind
      <4>2. ASSUME NEW c \in EditsOf(D, f, u) PROVE c = Edit(f, u, t[f])
        <5>1. c \in D /\ c.kind = EditKind[f] /\ c.unit = u
          BY DEF EditsOf, Kind
        <5>2. PICK g \in effective : c = Edit(g, u, t[g])
          BY <1>6, <1>7, <5>1
        <5>3. g = f
          BY <1>3, <1>4, <1>7, <5>1, <5>2
        <5> QED BY <5>2, <5>3
      <4> QED BY <4>1, <4>2
    <3> QED BY <1>3, <3>1 DEF TextAfter
  <2>2. CASE f \notin effective
    <3>1. EditsOf(D, f, u) = {}
      BY <1>3, <1>4, <1>6, <1>7, <2>2 DEF EditsOf, Kind
    <3> QED BY <1>5, <1>8, <2>2, <3>1 DEF TextAfter, TextBefore
  <2> QED BY <2>1, <2>2
<1>11. Working(p)' = WithProposal(published, D)
  BY <1>1, <1>2, CommittedDraft
<1>12. u \in Working(p)'.units /\ Working(p)'.text[u] = t
  BY <1>9, <1>10, <1>11, TextsOfUnits DEF WithProposal
<1>13. ASSUME Working(p).text[u] = t PROVE SameDraft(p)
  <2>1. u \in ResultingUnits(published, C)
    BY <1>1 DEF ResultingUnits
  <2>2. \A f \in Field : TextAfter(published, C, f, u) = t[f]
    BY <1>13, <2>1, TextsOfUnits DEF Working
  <2>3. ASSUME NEW f \in Field, NEW c \in EditsOf(C, f, u)
        PROVE  c = Edit(f, u, t[f]) /\ f \in effective
    <3>1. c \in C /\ c.kind = EditKind[f] /\ c.unit = u
      BY DEF EditsOf, Kind
    <3>2. c.value # published.text[u][f] /\ \A d \in EditsOf(C, f, u) : d = c
      BY <1>2, <1>4, <3>1 DEF Diff, DiffOf, EditsOf, Kind
    <3>3. c.value = t[f]
      BY <2>2, <3>2 DEF TextAfter
    <3>4. c = [kind |-> EditKind[f], unit |-> u, value |-> t[f]]
      BY <1>2, <1>4, <3>1, <3>3 DEF Change
    <3> QED BY <1>5, <3>2, <3>3, <3>4 DEF Edit
  <2>4. ASSUME NEW f \in effective PROVE Edit(f, u, t[f]) \in C
    <3>1. f \in Field /\ t[f] # published.text[u][f]
      BY <1>5, <1>7
    <3>2. EditsOf(C, f, u) # {}
      BY <1>1, <2>2, <3>1 DEF TextAfter, TextBefore
    <3>3. PICK c : c \in EditsOf(C, f, u)
      BY <3>2
    <3>4. c \in C
      BY <3>3 DEF EditsOf, Kind
    <3> QED BY <2>3, <3>1, <3>3, <3>4
  <2>5. \A c \in C : c \in D
    BY <1>6, <1>7, <2>3
  <2>6. \A c \in D : c \in C
    BY <1>6, <1>7, <2>4
  <2>7. D = C
    BY <2>5, <2>6
  <2> QED BY <1>1, <1>2, <2>7, CommittedDraft
<1> QED BY <1>12, <1>13

\* A deleted unit is gone, and a unit can be deleted only once.
LEMMA DeletionsConverge ==
    ASSUME TypeOK, DraftsAreDiffs, NEW p \in Proposals, NEW a \in Authors, NEW u \in UnitId,
           DiscardCreatedUnit(p, a, u) \/ DeletePublishedUnit(p, a, u)
    PROVE  u \notin Working(p)'.units /\ u \in Working(p).units
<1> DEFINE C == proposal[p].changes
<1>1. CASE DiscardCreatedUnit(p, a, u)
  <2> DEFINE D == WithoutCreatedUnit(C, u)
  <2>1. BeginDraftMutation(p, a) /\ u \in Created(C) /\ CommitDraft(p, D)
    BY <1>1 DEF DiscardCreatedUnit
  <2>2. proposal[p].status = "draft" /\ Diff(C)
    BY <2>1, Begun
  <2>3. u \notin published.units
    BY <2>1, <2>2 DEF Diff, DiffOf, Created, Kind
  <2>4. u \notin Deleted(C)
    BY <2>2, <2>3 DEF Diff, DiffOf, Deleted, Kind
  <2>5. u \notin Created(D)
    BY DEF WithoutCreatedUnit, Created, Kind, ChangeUnits
  <2>6. Working(p)' = WithProposal(published, D)
    BY <2>1, <2>2, CommittedDraft
  <2> QED BY <2>1, <2>3, <2>4, <2>5, <2>6 DEF Working, WithProposal, ResultingUnits
<1>2. CASE DeletePublishedUnit(p, a, u)
  <2> DEFINE D == (C \ SupersededByDeletion(C, u)) \cup {Deletion(u)}
  <2>1. BeginDraftMutation(p, a) /\ u \in Working(p).units /\ CommitDraft(p, D)
    BY <1>2 DEF DeletePublishedUnit
  <2>2. u \in Deleted(D)
    <3>1. Deletion(u).kind = "delete_unit" /\ Deletion(u).unit = u /\ Deletion(u) \in D
      BY DEF Deletion
    <3> HIDE DEF D
    <3> QED BY <3>1 DEF Deleted, Kind
  <2>3. Working(p)' = WithProposal(published, D)
    BY <2>1, Begun, CommittedDraft
  <2> QED BY <2>1, <2>2, <2>3 DEF WithProposal, ResultingUnits
<1> QED BY <1>1, <1>2

\* A dependency is present, or absent, as asked.
LEMMA DependenciesConverge ==
    ASSUME TypeOK, DraftsAreDiffs, NEW p \in Proposals, NEW a \in Authors, NEW u \in UnitId,
           NEW q \in UnitId, NEW present \in BOOLEAN, SetUnitDependency(p, a, u, q, present)
    PROVE  /\ present <=> <<u, q>> \in Working(p)'.deps
           /\ (present <=> <<u, q>> \in Working(p).deps) => SameDraft(p)
<1> DEFINE C == proposal[p].changes
           others == C \ DependencyChanges(C, u, q)
<1>1. ASSUME NEW D, BeginDraftMutation(p, a), CommitDraft(p, D)
      PROVE  Working(p)' = WithProposal(published, D) /\ (D = C => SameDraft(p))
  BY <1>1, Begun, CommittedDraft
<1>2. <<u, q>> \notin Added(others) /\ <<u, q>> \notin Removed(others)
  BY DEF DependencyChanges, Added, Removed, Kind
<1>3. Deleted(others) = Deleted(C)
  BY DEF DependencyChanges, Deleted, Kind
<1>4. CASE present /\ AddUnitDependency(p, a, u, q)
  <2> DEFINE new == IF <<u, q>> \in published.deps THEN {} ELSE {Addition(u, q)}
             D == others \cup new
  <2>1. /\ BeginDraftMutation(p, a) /\ {u, q} \subseteq Working(p).units
        /\ <<u, q>> \notin Working(p).deps /\ CommitDraft(p, D)
    BY <1>4 DEF AddUnitDependency
  <2>2. u \notin Deleted(C) /\ q \notin Deleted(C)
    BY <2>1 DEF Working, WithProposal, ResultingUnits
  <2>3. \A c \in new : c.kind = "add_dependency" /\ c.unit = u /\ c.prerequisite = q
    BY DEF Addition
  <2>4. <<u, q>> \in published.deps \/ \E c \in new : TRUE
    OBVIOUS
  <2> HIDE DEF new, others
  <2>5. Deleted(D) = Deleted(C) /\ <<u, q>> \notin Removed(D)
    BY <1>2, <1>3, <2>3 DEF Deleted, Removed, Kind
  <2>6. <<u, q>> \in published.deps \/ <<u, q>> \in Added(D)
    BY <2>3, <2>4 DEF Added, Kind
  <2> HIDE DEF D
  <2>7. <<u, q>> \in WithProposal(published, D).deps
    BY <2>2, <2>5, <2>6 DEF WithProposal, EditedDependencies
  <2> QED BY <1>1, <1>4, <2>1, <2>7
<1>5. CASE ~present /\ RemoveUnitDependency(p, a, u, q)
  <2> DEFINE new == IF <<u, q>> \in published.deps THEN {Removal(u, q)} ELSE {}
             D == others \cup new
  <2>1. /\ BeginDraftMutation(p, a) /\ <<u, q>> \in Working(p).deps /\ CommitDraft(p, D)
    BY <1>5 DEF RemoveUnitDependency
  <2>2. \A c \in new : c.kind = "remove_dependency" /\ c.unit = u /\ c.prerequisite = q
    BY DEF Removal
  <2>3. <<u, q>> \notin published.deps \/ \E c \in new : TRUE
    OBVIOUS
  <2> HIDE DEF new, others
  <2>4. <<u, q>> \notin Added(D)
    BY <1>2, <2>2 DEF Added, Kind
  <2>5. <<u, q>> \notin published.deps \/ <<u, q>> \in Removed(D)
    BY <2>2, <2>3 DEF Removed, Kind
  <2> HIDE DEF D
  <2>6. <<u, q>> \notin WithProposal(published, D).deps
    BY <2>4, <2>5 DEF WithProposal, EditedDependencies
  <2> QED BY <1>1, <1>5, <2>1, <2>6
<1>6. CASE /\ present <=> (<<u, q>> \in Working(p).deps)
           /\ KeepUnitDependency(p, a, u, q)
  <2>1. Working(p)' = Working(p) /\ SameDraft(p)
    BY <1>1, <1>6 DEF KeepUnitDependency, Working
  <2> QED BY <1>6, <2>1
<1> QED BY <1>4, <1>5, <1>6 DEF SetUnitDependency

\* A recognition is there, and is added only if no copy of it was.
LEMMA RecognitionsConverge ==
    ASSUME TypeOK, DraftsAreDiffs, NEW p \in Proposals, NEW a \in Authors,
           NEW A, NEW B, EnsureCurriculumRecognition(p, a, A, B)
    PROVE  /\ Copies(proposal'[p].changes, A, B) # {}
           /\ Copies(proposal[p].changes, A, B) # {} => SameDraft(p)
<1> DEFINE C == proposal[p].changes
<1>1. ASSUME BeginDraftMutation(p, a), CommitDraft(p, C), Copies(C, A, B) # {}
      PROVE  Copies(proposal'[p].changes, A, B) # {} /\ SameDraft(p)
  <2>1. proposal[p].status = "draft"
    BY <1>1, Begun
  <2>2. proposal'[p].changes = C /\ SameDraft(p)
    BY <1>1, <2>1, CommittedDraft
  <2> QED BY <1>1, <2>2
<1>2. ASSUME NEW n, BeginDraftMutation(p, a), CommitDraft(p, C \cup {Recognition(A, B, n)})
      PROVE  Copies(proposal'[p].changes, A, B) # {}
  <2>1. proposal[p].status = "draft"
    BY <1>2, Begun
  <2> DEFINE x == Recognition(A, B, n)
             D == C \cup {x}
  <2>2. x.kind = "recognition" /\ x.sources = A /\ x.targets = B
    BY DEF Recognition
  <2>3. CommitDraft(p, D) /\ x \in D
    BY <1>2
  <2> HIDE DEF x, D
  <2>4. proposal'[p].changes = D
    BY <2>1, <2>3, CommittedDraft
  <2> QED BY <2>2, <2>3, <2>4 DEF Copies, Kind
<1> QED BY <1>1, <1>2 DEF EnsureCurriculumRecognition, AddCurriculumRecognition

\* A discarded change is gone, and can be discarded only once.
LEMMA ChangesConverge ==
    ASSUME TypeOK, DraftsAreDiffs, NEW p \in Proposals, NEW a \in Authors, NEW c,
           DeleteCurriculumProposalChange(p, a, c)
    PROVE  c \notin proposal'[p].changes /\ c \in proposal[p].changes
<1> DEFINE C == proposal[p].changes
           D == IF c.kind = "create_unit" THEN WithoutCreatedUnit(C, c.unit) ELSE C \ {c}
<1>1. BeginDraftMutation(p, a) /\ c \in C /\ CommitDraft(p, D)
  BY DEF DeleteCurriculumProposalChange
<1>2. proposal[p].status = "draft"
  BY <1>1, Begun
<1>3. c \notin D
  BY DEF WithoutCreatedUnit, ChangeUnits
<1> HIDE DEF D
<1>4. proposal'[p].changes = D
  BY <1>1, <1>2, CommittedDraft
<1> QED BY <1>1, <1>3, <1>4

\* What each tool asks, in this state and in the next.
LEMMA Asked ==
    ASSUME NEW p, NEW r
    PROVE  /\ r.tool = "update_proposal" =>
                 (Achieved(p, r) <=> title[p] = r.title)
           /\ r.tool = "update_proposal_unit" =>
                 (Achieved(p, r) <=> r.unit \in Working(p).units /\ Working(p).text[r.unit] = r.text)
           /\ r.tool = "delete_proposal_unit" =>
                 (Achieved(p, r) <=> r.unit \notin Working(p).units)
           /\ r.tool = "set_proposal_dependency" =>
                 (Achieved(p, r) <=> (r.present <=> <<r.unit, r.prerequisite>> \in Working(p).deps))
           /\ r.tool = "add_proposal_recognition" =>
                 (Achieved(p, r) <=> Copies(proposal[p].changes, r.sources, r.targets) # {})
           /\ r.tool = "delete_proposal_change" =>
                 (Achieved(p, r) <=> r.change \notin proposal[p].changes)
           /\ r.tool = "resolve_proposal_rebase" =>
                 (Achieved(p, r) <=> proposal[p].base = head)
           /\ r.tool = "submit_proposal" =>
                 (Achieved(p, r) <=> proposal[p].status = "submitted")
           /\ r.tool = "accept_proposal" =>
                 (Achieved(p, r) <=> proposal[p].status = "accepted")
           /\ r.tool = "reject_proposal" =>
                 (Achieved(p, r) <=> proposal[p].status = "rejected")
           /\ r.tool = "delete_proposal" =>
                 (Achieved(p, r) <=> proposal[p].status = "unused")
BY DEF Achieved

\* The same in the next state, where the request is the one of this state.
LEMMA AskedNext ==
    ASSUME NEW p, NEW r
    PROVE  /\ r.tool = "update_proposal" =>
                 (Achieved(p, r)' <=> title'[p] = r.title)
           /\ r.tool = "update_proposal_unit" =>
                 (Achieved(p, r)' <=> r.unit \in Working(p)'.units /\ Working(p)'.text[r.unit] = r.text)
           /\ r.tool = "delete_proposal_unit" =>
                 (Achieved(p, r)' <=> r.unit \notin Working(p)'.units)
           /\ r.tool = "set_proposal_dependency" =>
                 (Achieved(p, r)' <=> (r.present <=> <<r.unit, r.prerequisite>> \in Working(p)'.deps))
           /\ r.tool = "add_proposal_recognition" =>
                 (Achieved(p, r)' <=> Copies(proposal'[p].changes, r.sources, r.targets) # {})
           /\ r.tool = "delete_proposal_change" =>
                 (Achieved(p, r)' <=> r.change \notin proposal'[p].changes)
           /\ r.tool = "resolve_proposal_rebase" =>
                 (Achieved(p, r)' <=> proposal'[p].base = head')
           /\ r.tool = "submit_proposal" =>
                 (Achieved(p, r)' <=> proposal'[p].status = "submitted")
           /\ r.tool = "accept_proposal" =>
                 (Achieved(p, r)' <=> proposal'[p].status = "accepted")
           /\ r.tool = "reject_proposal" =>
                 (Achieved(p, r)' <=> proposal'[p].status = "rejected")
           /\ r.tool = "delete_proposal" =>
                 (Achieved(p, r)' <=> proposal'[p].status = "unused")
BY DEF Achieved

TitlesOK == title = [p \in Proposals |-> title[p]]

\* What each tool that a client may repeat achieves.
LEMMA CallConverges ==
    ASSUME TypeOK, DraftsAreDiffs, TitlesOK, NEW p \in Proposals, NEW a \in Authors,
           NEW r, RequestOK(r), r.tool \notin {"create_proposal", "create_proposal_unit"},
           Perform("mcp", p, a, r)
    PROVE  Achieved(p, r)' /\ (Achieved(p, r) => SameDraft(p) /\ title' = title)
<1>1. CASE r.tool = "update_proposal" /\ UpdateCurriculumProposal(p, a, r.title)
  <2>1. title' = [title EXCEPT ![p] = r.title] /\ proposal' = proposal
    BY <1>1 DEF UpdateCurriculumProposal, vars
  <2>2. title'[p] = r.title /\ (title[p] = r.title => title' = title)
    BY <2>1 DEF TitlesOK
  <2>3. SameDraft(p)
    BY <2>1 DEF SameDraft, TypeOK, ProposalRow
  <2> QED BY <1>1, <2>2, <2>3, Asked, AskedNext
<1>2. CASE r.tool = "delete_proposal" /\ DeleteCurriculumProposal(p, a)
  <2>1. proposal'[p].status = "unused" /\ proposal[p].status # "unused"
    BY <1>2 DEF DeleteCurriculumProposal, OwnDraft, Unused, TypeOK
  <2> QED BY <1>2, <2>1, Asked, AskedNext
<1>3. CASE PerformOnDraft("mcp", p, a, r) /\ UNCHANGED title
  <2>1. CASE /\ r.tool = "update_proposal_unit"
             /\ UpdateCreatedUnit(p, a, r.unit, r.text) \/ UpdatePublishedUnit(p, a, r.unit, r.text)
    <3>1. r.unit \in UnitId /\ r.text \in [Field -> Text]
      BY <2>1 DEF RequestOK
    <3>2. /\ r.unit \in Working(p)'.units /\ Working(p)'.text[r.unit] = r.text
          /\ Working(p).text[r.unit] = r.text => SameDraft(p)
      BY <2>1, <3>1, CreatedTextsConverge, PublishedTextsConverge
    <3>3. Achieved(p, r)'
      BY <2>1, <3>2, AskedNext
    <3>4. Achieved(p, r) => SameDraft(p)
      BY <2>1, <3>2, Asked
    <3> QED BY <1>3, <3>3, <3>4, Zenon
  <2>2. CASE /\ r.tool = "delete_proposal_unit"
             /\ DiscardCreatedUnit(p, a, r.unit) \/ DeletePublishedUnit(p, a, r.unit)
    <3>1. r.unit \notin Working(p)'.units /\ r.unit \in Working(p).units
      BY <2>2, DeletionsConverge DEF RequestOK
    <3> QED BY <2>2, <3>1, Asked, AskedNext
  <2>3. CASE /\ r.tool = "set_proposal_dependency"
             /\ SetUnitDependency(p, a, r.unit, r.prerequisite, r.present)
    <3>1. /\ r.present <=> <<r.unit, r.prerequisite>> \in Working(p)'.deps
          /\ (r.present <=> <<r.unit, r.prerequisite>> \in Working(p).deps) => SameDraft(p)
      BY <2>3, DependenciesConverge DEF RequestOK
    <3> QED BY <1>3, <2>3, <3>1, Asked, AskedNext
  <2>4. CASE AddProposalRecognition("mcp", p, a, r)
    <3>1. /\ r.tool = "add_proposal_recognition"
          /\ EnsureCurriculumRecognition(p, a, r.sources, r.targets)
      BY <2>4 DEF AddProposalRecognition
    <3>2. /\ Copies(proposal'[p].changes, r.sources, r.targets) # {}
          /\ Copies(proposal[p].changes, r.sources, r.targets) # {} => SameDraft(p)
      BY <3>1, RecognitionsConverge
    <3> QED BY <1>3, <3>1, <3>2, Asked, AskedNext
  <2>5. CASE /\ r.tool = "delete_proposal_change"
             /\ DeleteCurriculumProposalChange(p, a, r.change)
    <3>1. r.change \notin proposal'[p].changes /\ r.change \in proposal[p].changes
      BY <2>5, ChangesConverge
    <3> QED BY <2>5, <3>1, Asked, AskedNext
  <2>6. CASE /\ r.tool = "resolve_proposal_rebase"
             /\ ResolveCurriculumProposalRebase(p, a, r.drop, <<>>)
    <3>1. /\ proposal[p].status = "draft" /\ proposal[p].base # head
          /\ \E D : CommitDraft(p, D)
      BY <2>6 DEF ResolveCurriculumProposalRebase, OwnDraft, RebaseStatus
    <3>2. PICK D : CommitDraft(p, D)
      BY <3>1
    <3>3. proposal'[p].base = head
      BY <3>1, <3>2, CommittedDraft
    <3>4. head' = head
      BY <3>2 DEF CommitDraft
    <3> QED BY <2>6, <3>1, <3>3, <3>4, Asked, AskedNext
  <2>7. CASE r.tool = "submit_proposal" /\ SubmitCurriculumProposal(p, a)
    <3>1. proposal'[p].status = "submitted" /\ proposal[p].status # "submitted"
      BY <2>7 DEF SubmitCurriculumProposal, BeginDraftMutation, OwnDraft, TypeOK, ProposalRow
    <3> QED BY <2>7, <3>1, Asked, AskedNext
  <2>8. CASE r.tool = "accept_proposal" /\ AcceptCurriculumProposal(p)
    <3>1. proposal'[p].status = "accepted" /\ proposal[p].status # "accepted"
      BY <2>8 DEF AcceptCurriculumProposal, TypeOK, ProposalRow
    <3> QED BY <2>8, <3>1, Asked, AskedNext
  <2>9. CASE r.tool = "reject_proposal" /\ RejectCurriculumProposal(p)
    <3>1. proposal'[p].status = "rejected" /\ proposal[p].status # "rejected"
      BY <2>9 DEF RejectCurriculumProposal, TypeOK, ProposalRow
    <3> QED BY <2>9, <3>1, Asked, AskedNext
  <2> QED BY <1>3, <2>1, <2>2, <2>3, <2>4, <2>5, <2>6, <2>7, <2>8, <2>9 DEF PerformOnDraft
<1> QED BY <1>1, <1>2, <1>3 DEF Perform

\* Titles keep to their type.
LEMMA TitlesKept == ASSUME TitlesOK, [CallNext]_callVars PROVE TitlesOK'
<1>1. \A p, t : title' = [title EXCEPT ![p] = t] => TitlesOK'
  BY DEF TitlesOK
<1>2. CASE UNCHANGED title
  BY <1>2 DEF TitlesOK
<1>3. ASSUME NEW c \in Client, Commit(c) PROVE TitlesOK'
  BY <1>1, <1>2, <1>3 DEF Commit, Perform, UpdateCurriculumProposal
<1>4. CASE Elsewhere
  BY <1>1, <1>4 DEF Elsewhere, UpdateCurriculumProposal, TitlesOK
<1>5. ASSUME NEW c \in Client, NEW via, NEW a, NEW p, NEW t, CreateProposal(c, via, a, p, t)
      PROVE  TitlesOK'
  BY <1>1, <1>5 DEF CreateProposal
<1>6. ASSUME NEW c \in Client,
             \/ Inspect(c) \/ ReadRow(c) \/ ReadChanges(c) \/ ReadMembers(c)
             \/ Draw(c) \/ End(c) \/ Repeat(c)
             \/ \E via \in Via, a \in Authors, p \in Proposals :
                    \E r \in Requests(p) : Begin(c, via, a, p, r)
      PROVE  UNCHANGED title
  BY <1>6 DEF Inspect, ReadRow, ReadChanges, ReadMembers, Draw, End, Repeat, Begin
<1>7. CASE UNCHANGED callVars
  BY <1>2, <1>7 DEF callVars
<1> QED BY <1>2, <1>3, <1>4, <1>5, <1>6, <1>7 DEF CallNext

\* A call that was not committed, and is now, has run its transaction.
LEMMA CommitsOnly ==
    ASSUME CallsOK, [CallNext]_callVars, NEW c \in Client, call[c] # Idle,
           call[c].phase # "committed", call'[c].phase = "committed"
    PROVE  Commit(c)
<1>1. call = [d \in Client |-> call[d]] /\ CallOK(call[c])
  BY DEF CallsOK
<1>2. ASSUME NEW d \in Client, d # c,
             \/ Inspect(d) \/ Commit(d) \/ ReadRow(d) \/ ReadChanges(d) \/ ReadMembers(d)
             \/ Draw(d) \/ End(d) \/ Repeat(d)
             \/ \E via, a, p, r : Begin(d, via, a, p, r)
             \/ \E via, a, p, t : CreateProposal(d, via, a, p, t)
      PROVE  call'[c] = call[c]
  <2>1. \A t : call' = [call EXCEPT ![d] = t] => call'[c] = call[c]
    BY <1>1, <1>2
  <2>2. \A ph : call' = [call EXCEPT ![d].phase = ph] => call'[c] = call[c]
    BY <1>1, <1>2
  <2>3. \A ph, s : call' = [call EXCEPT ![d].phase = ph, ![d].seen = s] => call'[c] = call[c]
    BY <1>1, <1>2
  <2>4. \A ph, s : call' = [call EXCEPT ![d].phase = ph, ![d].seen.changes = s] => call'[c] = call[c]
    BY <1>1, <1>2
  <2> QED BY <1>1, <1>2, <2>1, <2>2, <2>3, <2>4
          DEF Inspect, Commit, ReadRow, ReadChanges, ReadMembers, Draw, End, Repeat, Begin,
              CreateProposal
<1>3. \A ph, s : Moved(c, Now(call[c], ph, s)) => call'[c].phase = ph
  BY DEF Moved, Now
<1>4. ~Inspect(c) /\ ~ReadRow(c) /\ ~ReadChanges(c)
  <2>1. ASSUME Inspect(c) PROVE FALSE
    BY <1>1, <2>1 DEF Inspect, CallOK
  <2>2. ASSUME ReadRow(c) PROVE FALSE
    <3>1. PICK s : call' = [call EXCEPT ![c].phase = "row", ![c].seen = s]
      BY <2>2 DEF ReadRow
    <3>2. Moved(c, Now(call[c], "row", s))
      BY <1>1, <3>1, CallsMove
    <3> QED BY <1>3, <3>2
  <2>3. ASSUME ReadChanges(c) PROVE FALSE
    <3>1. call[c].phase = "row"
      BY <2>3 DEF ReadChanges
    <3>2. PICK s : call' = [call EXCEPT ![c].phase = "members", ![c].seen.changes = s]
      BY <2>3 DEF ReadChanges
    <3>3. PICK y : Moved(c, Now(call[c], "members", y))
      BY <1>1, <3>1, <3>2, CallsMove
    <3> QED BY <1>3, <3>3
  <2> QED BY <2>1, <2>2, <2>3
<1>5. ~ReadMembers(c) /\ ~Draw(c)
  <2>1. ASSUME ReadMembers(c) PROVE FALSE
    BY <1>1, <2>1 DEF ReadMembers, CallOK
  <2>2. ASSUME Draw(c) PROVE FALSE
    BY <1>1, <2>2 DEF Draw, CallOK
  <2> QED BY <2>1, <2>2
<1>6. ~End(c) /\ ~Repeat(c)
  <2>1. ASSUME End(c) PROVE FALSE
    BY <1>1, <2>1 DEF End, Idle
  <2>2. ASSUME Repeat(c) PROVE FALSE
    BY <1>1, <2>2 DEF Repeat, CallOK
  <2> QED BY <2>1, <2>2
<1>7. \A via, a, p, r : ~Begin(c, via, a, p, r) /\ ~CreateProposal(c, via, a, p, r)
  BY DEF Begin, CreateProposal
<1>8. ~UNCHANGED call /\ ~Elsewhere
  BY DEF Elsewhere
<1>9. CallNext
  BY <1>8 DEF callVars
<1>10. PICK d \in Client :
         \/ Inspect(d) \/ Commit(d) \/ ReadRow(d) \/ ReadChanges(d) \/ ReadMembers(d)
         \/ Draw(d) \/ End(d) \/ Repeat(d)
         \/ \E via, a, p, r : Begin(d, via, a, p, r)
         \/ \E via, a, p, t : CreateProposal(d, via, a, p, t)
  BY <1>8, <1>9, Zenon DEF CallNext
<1>11. d = c
  BY <1>2, <1>10
<1> QED BY <1>4, <1>5, <1>6, <1>7, <1>10, <1>11, Zenon

(***************************************************************************)
(* The inductive invariant, and the theorems.                              *)
(***************************************************************************)
CallInv ==
    /\ IInv
    /\ DraftsAreDiffs
    /\ TitlesOK
    /\ RanksExist
    /\ PublishedIsReplayed
    /\ CallsOK
    /\ \A c \in Client : Faithful(call[c])

\* The inductive invariant of calls, initially and from step to step.
LEMMA CallInvInit == CallInit => CallInv
<1> SUFFICES ASSUME CallInit PROVE CallInv
  OBVIOUS
<1>1. IInv /\ RanksExist /\ PublishedIsReplayed /\ DraftsAreDiffs /\ TitlesOK
  BY InvInit, RanksInit, ReplayInit, DiffInit DEF CallInit, TitlesOK
<1>2. call = [c \in Client |-> Idle]
  BY DEF CallInit
<1>3. CallsOK
  BY <1>2 DEF CallsOK
<1>4. \A c \in Client : Faithful(call[c])
  BY <1>2 DEF Faithful, Idle
<1> QED BY <1>1, <1>3, <1>4 DEF CallInv

LEMMA CallInvStep == CallInv /\ [CallNext]_callVars => CallInv'
<1> SUFFICES ASSUME CallInv, [CallNext]_callVars PROVE CallInv'
  OBVIOUS
<1>1. [Transaction]_vars
  BY CallIsTransaction DEF CallInv, IInv
<1>2. IInv' /\ RanksExist' /\ PublishedIsReplayed' /\ DraftsAreDiffs' /\ TitlesOK'
  BY <1>1, InvTransaction, RanksStep, ReplayStep, CallIsOperation, DiffOperation, TitlesKept
     DEF CallInv, IInv
<1>3. ASSUME NEW x, x = Idle \/ CallOK(x), Faithful(x) PROVE Faithful(x)'
  BY <1>1, <1>2, <1>3, FaithfulStep DEF CallInv
<1>4. ASSUME NEW x, x = Idle \/ x.phase \in Early PROVE Faithful(x)'
  BY <1>4 DEF Faithful, Idle, Early
<1>5. ASSUME NEW x, Steady(x) PROVE (x = Idle \/ CallOK(x)) /\ Faithful(x)'
  BY <1>3, <1>4, <1>5 DEF Steady
<1>6. ASSUME NEW d \in Client, NEW x, call'[d] = x, Faithful(x)'
      PROVE  Faithful(call[d])'
  BY <1>6 DEF Faithful, GraphAt
<1>7. \A d \in Client : (call[d] = Idle \/ CallOK(call[d])) /\ Faithful(call[d])
  BY DEF CallInv, CallsOK
<1>8. CASE UNCHANGED call
  <2>1. ASSUME NEW d \in Client PROVE Faithful(call[d])'
    <3>1. PICK x : x = call[d]
      OBVIOUS
    <3>2. Faithful(x)'
      BY <1>3, <1>7, <3>1
    <3> QED BY <1>6, <1>8, <3>1, <3>2
  <2>2. CallsOK'
    BY <1>8 DEF CallInv, CallsOK, CallOK
  <2> QED BY <1>2, <2>1, <2>2 DEF CallInv
<1>9. ASSUME NEW c \in Client, NEW t, Moved(c, t), Steady(t)
      PROVE  CallInv'
  <2>1. call' = [d \in Client |-> IF d = c THEN t ELSE call[d]]
    BY <1>9 DEF Moved
  <2>2. ASSUME NEW d \in Client PROVE Faithful(call[d])'
    <3>1. PICK x : x = call'[d]
      OBVIOUS
    <3>2. x = t \/ x = call[d]
      BY <2>1, <3>1
    <3>3. Faithful(x)'
      BY <1>3, <1>5, <1>7, <1>9, <3>2
    <3> QED BY <1>6, <3>1, <3>3
  <2>3. \A d \in Client : call'[d] = Idle \/ CallOK(call'[d])
    BY <1>5, <1>7, <1>9, <2>1
  <2>4. CallsOK'
    BY <2>1, <2>3 DEF CallsOK, CallOK
  <2> QED BY <1>2, <2>2, <2>4 DEF CallInv
<1>10. CASE UNCHANGED callVars
  BY <1>8, <1>10 DEF callVars
<1>11. CASE CallNext
  <2>1. UNCHANGED call \/ \E c \in Client : \E t : Moved(c, t) /\ Steady(t)
    BY <1>11, CallMoves DEF CallInv, IInv
  <2> QED BY <1>8, <1>9, <2>1
<1> QED BY <1>10, <1>11

LEMMA CallInvariance == CallSpec => []CallInv
BY CallInvInit, CallInvStep, PTL DEF CallSpec

\* Calls ask for what was so when they were made, commit when it no longer is,
\* and are repeated: the published curriculum stays a directed acyclic graph,
\* what is submitted over it stays publishable and its history one line.
THEOREM CallsKeepTheCurriculum ==
    CallSpec => [](PublishedGraphIsSound /\ SubmittedIsPublishable /\ HistoryIsLinear)
<1>1. IInv => HistoryIsLinear
  BY LineageOfTheHead DEF IInv, Anchored, SingleLine, HistoryIsLinear, OnLineage
<1> QED BY <1>1, CallInvariance, PTL DEF CallInv, IInv

\* Nor does any sequence of calls, however often it is repeated, make a draft
\* anything but a normalized diff.
THEOREM CallsKeepDraftsNormalized == CallSpec => []DraftIsNormalizedDiff
<1>1. CallInv => DraftIsNormalizedDiff
  BY DraftsOfDiffs DEF CallInv, IInv
<1> QED BY <1>1, CallInvariance, PTL

\* No call writes a proposal that was submitted, whichever tool it is, and
\* however late it arrives.
THEOREM CallsLeaveSubmittedAlone == CallSpec => SubmissionFreezes
<1>1. CallInv /\ [CallNext]_callVars => [FrozenOnceSubmitted]_vars
  BY CallIsTransaction, FrozenTransaction DEF CallInv, IInv
<1> QED BY <1>1, CallInvariance, PTL DEF CallSpec, SubmissionFreezes

\* Remote calls and everyone else together keep the promise made to readers.
THEOREM CallsImplementPublishedCurriculum == CallSpec => ImplementsPublishedCurriculum
<1>1. CallInv /\ CallInv' /\ [CallNext]_callVars => [Publication!Publish]_Publication!pvars
  BY CallIsTransaction, PublicationStep DEF CallInv, IInv
<1>2. CallInit => Publication!Init
  BY PublicationInit DEF CallInit
<1> QED BY <1>1, <1>2, CallInvariance, PTL
        DEF CallSpec, ImplementsPublishedCurriculum, Publication!Spec

\* The published curriculum is what the replay of its lineage gives, in every
\* reachable state.
THEOREM PublishedCurriculumIsReplayed == CallSpec => []PublishedIsReplayed
BY CallInvariance, PTL DEF CallInv

\* The property of the run: whoever reads a proposal as submitted, one
\* statement after another while others edit, submit and publish, has what the
\* acceptance publishes, and so has the page that was drawn of it.
THEOREM ReviewersSeeIt == CallSpec => []ReviewersSeeWhatIsPublished
<1>1. CallInv => ReviewersSeeWhatIsPublished
  <2> SUFFICES ASSUME CallInv, NEW c \in Client, call[c] # Idle,
                      call[c].phase \in {"read", "drawn"}, call[c].seen.status # "draft"
               PROVE  /\ call[c].seen.changes = proposal[call[c].proposal].changes
                      /\ call[c].seen.base = proposal[call[c].proposal].base
                      /\ /\ call[c].phase = "drawn"
                         /\ proposal[call[c].proposal].status = "accepted"
                         => call[c].seen.graph = GraphAt(call[c].proposal)
                      /\ call[c].phase = "drawn" /\ head = call[c].proposal
                         => call[c].seen.graph = published
    BY DEF ReviewersSeeWhatIsPublished
  <2> DEFINE x == call[c]
             row == proposal[x.proposal]
  <2>1. /\ x.seen.base = row.base /\ x.seen.changes = row.changes
        /\ x.phase = "drawn" => x.seen.graph = WithProposal(GraphAt(row.base), row.changes)
    BY DEF CallInv, Faithful
  <2>2. x.proposal \in Proposals
    BY DEF CallInv, CallsOK, CallOK
  <2>3. PICK f : /\ \A q \in Place : f[q] = Replayed(f, proposal, q)
                 /\ \A b : GraphAt(b) = f[b]
    BY GraphsOfRows DEF CallInv
  <2>4. GraphAt(x.proposal) = WithProposal(GraphAt(row.base), row.changes)
    BY <2>2, <2>3 DEF Place, Replayed
  <2>5. head = x.proposal => published = GraphAt(x.proposal)
    BY DEF CallInv, PublishedIsReplayed
  <2> HIDE DEF x, row
  <2> QED BY <2>1, <2>4, <2>5 DEF x, row
<1> QED BY <1>1, CallInvariance, PTL

\* The property of the run: a client that repeats a call it has no answer of,
\* after others have edited and published, changes nothing that its first
\* attempt has done, and once a call has committed, what it asks for is so.
THEOREM RetriesAreSafe == CallSpec => RetriesConverge
<1>1. CallInv /\ [CallNext]_callVars => CallsConverge
  <2> SUFFICES ASSUME CallInv, [CallNext]_callVars, NEW c \in Client,
                      call[c] # Idle, Repeatable(call[c]), call[c].phase # "committed",
                      call'[c].phase = "committed"
               PROVE  /\ Achieved(call[c].proposal, call[c].request)'
                      /\ Achieved(call[c].proposal, call[c].request) =>
                           /\ SameDraft(call[c].proposal)
                           /\ title' = title
    BY DEF CallsConverge, SameDraft
  <2>1. CallOK(call[c]) /\ Commit(c)
    BY CommitsOnly DEF CallInv, CallsOK
  <2>2. PICK p, r : p = call[c].proposal /\ r = call[c].request
    OBVIOUS
  <2>3. Perform("mcp", p, call[c].author, r)
    BY <2>1, <2>2 DEF Commit, Repeatable
  <2>4. Achieved(p, r)' /\ (Achieved(p, r) => SameDraft(p) /\ title' = title)
    <3>1. /\ p \in Proposals /\ call[c].author \in Authors /\ RequestOK(r)
          /\ r.tool \notin {"create_proposal", "create_proposal_unit"}
      BY <2>1, <2>2 DEF CallOK, Repeatable
    <3> QED BY <2>3, <3>1, CallConverges DEF CallInv, IInv
  <2>5. call'[c].proposal = p /\ call'[c].request = r
    <3>1. call' = [call EXCEPT ![c].phase = "committed"]
      BY <2>1 DEF Commit
    <3>2. Moved(c, Now(call[c], "committed", call[c].seen))
      BY <2>1, <3>1, CallsMove DEF CallInv
    <3> QED BY <2>2, <3>2 DEF Moved, Now
  <2>6. Achieved(call[c].proposal, call[c].request)'
    BY <2>4, <2>5 DEF Achieved, Working, WithProposal, ResultingUnits, EditedDependencies, TextAfter, TextBefore, Copies
  <2> QED BY <2>2, <2>4, <2>6
<1> QED BY <1>1, CallInvariance, PTL DEF CallSpec, RetriesConverge
================================================================================
