----------------------- MODULE CurriculumProposals_proofs -----------------------
(***************************************************************************)
(* Proofs about CurriculumProposals, for every set of proposals, authors,  *)
(* texts, every seed and every bound.                                      *)
(*                                                                         *)
(* Fourteen of the actions of Next have the same effect: they replace the  *)
(* changes of one draft and bring its base to the head.  DraftMutated      *)
(* states that effect, EditIsMutation and RebaseIsMutation show it of      *)
(* every one of them, and the invariants of what is published are then     *)
(* proved of six kinds of step.  Operation is Next without the bounds of   *)
(* an instance, which ProposalCalls goes beyond.                           *)
(***************************************************************************)
EXTENDS CurriculumProposals, CurriculumGraph_proofs, FiniteSetTheorems

\* What an edit may give a unit: texts for fields.
LEMMA NewTextsHaveText ==
    ASSUME NEW new \in NewTexts
    PROVE  /\ DOMAIN new \subseteq Field
           /\ \A f \in DOMAIN new : new[f] \in Text
<1>1. PICK F \in {{"name"}, {"content"}, Field} : new \in [F -> Text]
  BY DEF NewTexts
<1> QED BY <1>1 DEF Field

(***************************************************************************)
(* Changes are changes.                                                    *)
(***************************************************************************)
LEMMA ConstructorsAreChanges ==
    /\ \A u \in UnitId, t \in [Field -> Text] : Creation(u, t) \in Change
    /\ \A f \in Field, u \in UnitId, v \in Text : Edit(f, u, v) \in Change
    /\ \A u, q \in UnitId : Addition(u, q) \in Change /\ Removal(u, q) \in Change
    /\ \A u \in UnitId : Deletion(u) \in Change
    /\ \A A, B \in SUBSET UnitId, n \in Nat : Recognition(A, B, n) \in Change
BY DEF Creation, Edit, EditKind, Field, Addition, Removal, Deletion, Recognition, Change

\* A unit that a draft creates has a text in each field.
LEMMA TextOfCreatedUnit ==
    ASSUME NEW H, NEW C \in SUBSET Change, NEW u \in Created(C), NEW f \in Field
    PROVE  TextAfter(H, C, f, u) \in Text
<1>1. CASE EditsOf(C, f, u) # {}
  BY <1>1 DEF TextAfter, EditsOf, EditKind, Field, Kind, Change
<1>2. CASE EditsOf(C, f, u) = {}
  <2> DEFINE c == CHOOSE c \in Kind(C, "create_unit") : c.unit = u
  <2>1. c \in Kind(C, "create_unit")
    BY DEF Created
  <2>2. c.text[f] \in Text
    BY <2>1 DEF Kind, Change
  <2> QED BY <2>2, <1>2 DEF TextAfter, TextBefore
<1> QED BY <1>1, <1>2

\* The shape of a draft mutation.
DraftMutated(p, C) ==
    /\ proposal[p].status = "draft"
    /\ C \in SUBSET Change
    /\ proposal' = [proposal EXCEPT ![p].base = head, ![p].changes = C]
    /\ UNCHANGED <<head, published>>
    /\ nextUnit' \in 1..(MaxUnit + 1)

\* The edits and the answers of an author, without the bound Calls.
AnyEdit(p, a) ==
    \/ \E t \in [Field -> Text] : CreateCurriculumUnit(p, a, t)
    \/ \E u \in UnitId, new \in NewTexts :
           UpdateCreatedUnit(p, a, u, new) \/ UpdatePublishedUnit(p, a, u, new)
    \/ \E u \in UnitId : DiscardCreatedUnit(p, a, u) \/ DeletePublishedUnit(p, a, u)
    \/ \E u, q \in UnitId : \/ AddUnitDependency(p, a, u, q)
                          \/ RemoveUnitDependency(p, a, u, q)
                          \/ KeepUnitDependency(p, a, u, q)
    \/ \E c \in proposal[p].changes : DeleteCurriculumProposalChange(p, a, c)
    \/ \E A, B \in SUBSET UnitId :
           AddCurriculumRecognition(p, a, A, B) \/ EnsureCurriculumRecognition(p, a, A, B)

\* Every edit begins with an open draft and commits changes of the right type.
LEMMA EditIsMutation ==
    ASSUME TypeOK, NEW p \in Proposals, NEW a \in Authors, AnyEdit(p, a)
    PROVE  \E C \in SUBSET Change : DraftMutated(p, C)
<1> DEFINE C == proposal[p].changes
<1> USE DEF CommitDraft, BeginDraftMutation, OwnDraft
<1>0. C \in SUBSET Change /\ nextUnit \in 1..(MaxUnit + 1) /\ MaxUnit \in Nat
  BY MaxUnitAssumption DEF TypeOK, ProposalRow
<1>1. ASSUME NEW t \in [Field -> Text], CreateCurriculumUnit(p, a, t)
      PROVE  \E D \in SUBSET Change : DraftMutated(p, D)
  <2>1. nextUnit \in UnitId /\ nextUnit' \in 1..(MaxUnit + 1)
    BY <1>0, <1>1 DEF CreateCurriculumUnit, UnitId
  <2>2. C \cup {Creation(nextUnit, t)} \in SUBSET Change
    BY <1>0, <2>1, ConstructorsAreChanges
  <2>3. DraftMutated(p, C \cup {Creation(nextUnit, t)})
    BY <1>1, <2>1, <2>2 DEF CreateCurriculumUnit, DraftMutated
  <2> QED BY <2>2, <2>3
<1>2. ASSUME NEW u \in UnitId, NEW new \in NewTexts, UpdateCreatedUnit(p, a, u, new)
      PROVE  \E D \in SUBSET Change : DraftMutated(p, D)
  <2> DEFINE text == [f \in Field |-> IF f \in DOMAIN new THEN new[f]
                                      ELSE TextAfter(published, C, f, u)]
             old == CHOOSE c \in Kind(C, "create_unit") : c.unit = u
             D == (C \ ({old} \cup EditsOf(C, "name", u) \cup EditsOf(C, "content", u)))
                  \cup {Creation(u, text)}
  <2>1. u \in Created(C)
    BY <1>2 DEF UpdateCreatedUnit
  <2>2. text \in [Field -> Text]
    BY <1>0, <2>1, NewTextsHaveText, TextOfCreatedUnit
  <2>3. D \in SUBSET Change
    BY <1>0, <2>2, ConstructorsAreChanges
  <2>4. DraftMutated(p, D)
    BY <1>0, <1>2, <2>3 DEF UpdateCreatedUnit, DraftMutated
  <2> QED BY <2>3, <2>4
<1>3. ASSUME NEW u \in UnitId, NEW new \in NewTexts, UpdatePublishedUnit(p, a, u, new)
      PROVE  \E D \in SUBSET Change : DraftMutated(p, D)
  <2> DEFINE kept == C \ UNION {EditsOf(C, f, u) : f \in DOMAIN new}
             effective == {f \in DOMAIN new : new[f] # published.text[u][f]}
             D == kept \cup {Edit(f, u, new[f]) : f \in effective}
  <2>1. D \in SUBSET Change
    BY <1>0, NewTextsHaveText, ConstructorsAreChanges
  <2>2. DraftMutated(p, D)
    BY <1>0, <1>3, <2>1 DEF UpdatePublishedUnit, DraftMutated
  <2> QED BY <2>1, <2>2
<1>4. ASSUME NEW u \in UnitId, DiscardCreatedUnit(p, a, u)
      PROVE  \E D \in SUBSET Change : DraftMutated(p, D)
  BY <1>0, <1>4 DEF DiscardCreatedUnit, WithoutCreatedUnit, DraftMutated
<1>5. ASSUME NEW u \in UnitId, DeletePublishedUnit(p, a, u)
      PROVE  \E D \in SUBSET Change : DraftMutated(p, D)
  <2> DEFINE D == (C \ SupersededByDeletion(C, u)) \cup {Deletion(u)}
  <2>1. D \in SUBSET Change
    BY <1>0, ConstructorsAreChanges
  <2>2. DraftMutated(p, D)
    BY <1>0, <1>5, <2>1 DEF DeletePublishedUnit, DraftMutated
  <2> QED BY <2>1, <2>2
<1>6. ASSUME NEW u \in UnitId, NEW q \in UnitId, AddUnitDependency(p, a, u, q)
      PROVE  \E D \in SUBSET Change : DraftMutated(p, D)
  <2> DEFINE D == (C \ DependencyChanges(C, u, q))
                  \cup (IF <<u, q>> \in published.deps THEN {} ELSE {Addition(u, q)})
  <2>1. D \in SUBSET Change
    BY <1>0, ConstructorsAreChanges
  <2>2. DraftMutated(p, D)
    BY <1>0, <1>6, <2>1 DEF AddUnitDependency, DraftMutated
  <2> QED BY <2>1, <2>2
<1>7. ASSUME NEW u \in UnitId, NEW q \in UnitId, RemoveUnitDependency(p, a, u, q)
      PROVE  \E D \in SUBSET Change : DraftMutated(p, D)
  <2> DEFINE D == (C \ DependencyChanges(C, u, q))
                  \cup (IF <<u, q>> \in published.deps THEN {Removal(u, q)} ELSE {})
  <2>1. D \in SUBSET Change
    BY <1>0, ConstructorsAreChanges
  <2>2. DraftMutated(p, D)
    BY <1>0, <1>7, <2>1 DEF RemoveUnitDependency, DraftMutated
  <2> QED BY <2>1, <2>2
<1>8. ASSUME NEW u \in UnitId, NEW q \in UnitId, KeepUnitDependency(p, a, u, q)
      PROVE  \E D \in SUBSET Change : DraftMutated(p, D)
  BY <1>0, <1>8 DEF KeepUnitDependency, DraftMutated
<1>9. ASSUME NEW c \in C, DeleteCurriculumProposalChange(p, a, c)
      PROVE  \E D \in SUBSET Change : DraftMutated(p, D)
  <2> DEFINE D == IF c.kind = "create_unit" THEN WithoutCreatedUnit(C, c.unit) ELSE C \ {c}
  <2>1. D \in SUBSET Change
    BY <1>0 DEF WithoutCreatedUnit
  <2>2. DraftMutated(p, D)
    BY <1>0, <1>9, <2>1 DEF DeleteCurriculumProposalChange, DraftMutated
  <2> QED BY <2>1, <2>2
<1>10. ASSUME NEW A \in SUBSET UnitId, NEW B \in SUBSET UnitId,
              AddCurriculumRecognition(p, a, A, B)
       PROVE  \E D \in SUBSET Change : DraftMutated(p, D)
  <2>1. PICK n \in 1..MaxCopies : CommitDraft(p, C \cup {Recognition(A, B, n)})
    BY <1>10 DEF AddCurriculumRecognition
  <2>2. C \cup {Recognition(A, B, n)} \in SUBSET Change
    BY <1>0, ConstructorsAreChanges, BoundsAssumption
  <2>3. DraftMutated(p, C \cup {Recognition(A, B, n)})
    BY <1>0, <1>10, <2>1, <2>2 DEF AddCurriculumRecognition, DraftMutated
  <2> QED BY <2>2, <2>3
<1>11. ASSUME NEW A \in SUBSET UnitId, NEW B \in SUBSET UnitId,
              EnsureCurriculumRecognition(p, a, A, B)
       PROVE  \E D \in SUBSET Change : DraftMutated(p, D)
  BY <1>0, <1>10, <1>11 DEF EnsureCurriculumRecognition, DraftMutated
<1> QED BY <1>1, <1>2, <1>3, <1>4, <1>5, <1>6, <1>7, <1>8, <1>9, <1>10, <1>11
        DEF AnyEdit

\* The one row that a mutation of a draft writes.
LEMMA MutatedRow ==
    ASSUME TypeOK, NEW p \in Proposals, NEW C, DraftMutated(p, C)
    PROVE  /\ proposal' \in [Proposals -> ProposalRow]
           /\ proposal'[p] = [status |-> "draft", base |-> head,
                              author |-> proposal[p].author, changes |-> C]
           /\ \A q \in Proposals \ {p} : proposal'[q] = proposal[q]
BY DEF TypeOK, ProposalRow, DraftMutated

\* So does the rebase that needs no answers,
LEMMA AutoRebaseIsMutation ==
    ASSUME TypeOK, NEW p \in Proposals, TryAutoRebaseCurriculumProposal(p)
    PROVE  \E C \in SUBSET Change : DraftMutated(p, C)
BY DEF TypeOK, ProposalRow, CommitDraft, TryAutoRebaseCurriculumProposal, DraftMutated

\* the one that answers conflicts,
LEMMA ResolutionIsMutation ==
    ASSUME TypeOK, NEW p \in Proposals, NEW a \in Authors, NEW drop,
           NEW edited, NEW merged \in [edited -> Text],
           ResolveCurriculumProposalRebase(p, a, drop, merged)
    PROVE  \E C \in SUBSET Change : DraftMutated(p, C)
<1> DEFINE C == proposal[p].changes
<1> USE DEF CommitDraft, OwnDraft
<1>0. C \in SUBSET Change /\ nextUnit \in 1..(MaxUnit + 1)
  BY DEF TypeOK, ProposalRow
<1>1. CASE CommitDraft(p, C)
  BY <1>0, <1>1 DEF ResolveCurriculumProposalRebase, DraftMutated
<1>2. CASE /\ edited \subseteq Kind(Conflicts(p) \ drop, "update_content")
           /\ CommitDraft(p, Resolved(p, drop, merged))
  <2>1. Conflicts(p) \subseteq C
    BY DEF Conflicts, Overlapping
  <2>2. \A c \in edited : c \in C /\ c.unit \in UnitId
    BY <1>0, <1>2, <2>1 DEF Kind, Change
  <2>3. \A c \in edited : Edit("content", c.unit, merged[c]) \in Change
    BY <2>2, ConstructorsAreChanges DEF Field
  <2>4. Resolved(p, drop, merged) \in SUBSET Change
    BY <1>0, <2>3 DEF Resolved, Normalized
  <2>5. DraftMutated(p, Resolved(p, drop, merged))
    BY <1>0, <1>2, <2>4 DEF ResolveCurriculumProposalRebase, DraftMutated
  <2> QED BY <2>4, <2>5
<1> QED BY <1>1, <1>2 DEF ResolveCurriculumProposalRebase

AnyRebase(p, a) ==
    \/ TryAutoRebaseCurriculumProposal(p)
    \/ \E drop, edited : \E merged \in [edited -> Text] :
           ResolveCurriculumProposalRebase(p, a, drop, merged)

\* and hence any rebase.
LEMMA RebaseIsMutation ==
    ASSUME TypeOK, NEW p \in Proposals, NEW a \in Authors, AnyRebase(p, a)
    PROVE  \E C \in SUBSET Change : DraftMutated(p, C)
BY AutoRebaseIsMutation, ResolutionIsMutation DEF AnyRebase

\* The actions of Next without the bounds of an instance.
Operation ==
    \E p \in Proposals :
        \/ \E a \in Authors :
              \/ CreateCurriculumProposal(p, a)
              \/ DeleteCurriculumProposal(p, a)
              \/ AnyEdit(p, a)
              \/ AnyRebase(p, a)
              \/ SubmitCurriculumProposal(p, a)
        \/ AcceptCurriculumProposal(p)
        \/ RejectCurriculumProposal(p)

\* The bounds of the runs only leave steps out.
LEMMA BoundsOnlyLimit ==
    /\ \A p, a : EditDraft(p, a) => AnyEdit(p, a)
    /\ \A p, a : RebaseDraft(p, a) => AnyRebase(p, a)
    /\ Next => Operation
<1>1. ASSUME NEW p, NEW a, EditDraft(p, a) PROVE AnyEdit(p, a)
  BY <1>1 DEF EditDraft, AnyEdit
<1>2. ASSUME NEW p, NEW a, RebaseDraft(p, a) PROVE AnyRebase(p, a)
  BY <1>2 DEF RebaseDraft, AnyRebase
<1> QED BY <1>1, <1>2 DEF Next, Operation

\* What the actions of Next, and the calls of ProposalCalls, make of one
\* proposal.
Transaction ==
    \E p \in Proposals :
        \/ \E a \in Authors : CreateCurriculumProposal(p, a)
        \/ \E a \in Authors : DeleteCurriculumProposal(p, a)
        \/ \E C \in SUBSET Change : DraftMutated(p, C)
        \/ \E a \in Authors : SubmitCurriculumProposal(p, a)
        \/ AcceptCurriculumProposal(p)
        \/ RejectCurriculumProposal(p)

\* What the invariants need to know of a step: it is a transaction, whatever the
\* tool or the form it came by,
LEMMA OperationCases ==
    ASSUME TypeOK, Operation
    PROVE  Transaction
BY EditIsMutation, RebaseIsMutation DEF Operation, Transaction

\* bounded or not.
LEMMA NextCases ==
    ASSUME TypeOK, Next
    PROVE  Transaction
BY OperationCases, BoundsOnlyLimit

(***************************************************************************)
(* Type correctness.                                                       *)
(***************************************************************************)
LEMMA CreatedBySeed ==
    /\ Cardinality(Created(Seed)) \in 0..MaxUnit
    /\ Seed \in SUBSET Change
<1>1. Created(Seed) \subseteq UnitId
  BY SeedAssumption DEF Created, Kind, Change
<1>2. IsFiniteSet(UnitId)
  BY FS_Interval, MaxUnitAssumption DEF UnitId
<1>3. Cardinality(Created(Seed)) \in Nat
  BY <1>1, <1>2, FS_Subset, FS_CardinalityType
<1>4. Cardinality(Created(Seed)) <= MaxUnit
  BY <1>1, <1>3, SeedAssumption, MaxUnitAssumption DEF UnitId
<1> QED BY <1>3, <1>4, SeedAssumption, MaxUnitAssumption

\* Types, initially and from step to step.
LEMMA TypeInit == Init => TypeOK
<1> SUFFICES ASSUME Init PROVE TypeOK
  OBVIOUS
<1>1. IsGraph(published) /\ nextUnit \in 1..(MaxUnit + 1)
  BY SeedAssumption, CreatedBySeed, MaxUnitAssumption DEF Init
<1>2. CASE Seed = {}
  BY <1>1, <1>2 DEF Init, TypeOK, ProposalRow, Unused
<1>3. CASE Seed # {}
  BY <1>1, <1>3, CreatedBySeed DEF Init, TypeOK, ProposalRow, Unused
<1> QED BY <1>2, <1>3

LEMMA TypeTransaction == TypeOK /\ [Transaction]_vars => TypeOK'
<1> SUFFICES ASSUME TypeOK, [Transaction]_vars PROVE TypeOK'
  OBVIOUS
<1> USE DEF TypeOK
<1>1. CASE UNCHANGED vars
  BY <1>1 DEF vars
<1>2. ASSUME NEW p \in Proposals, NEW a \in Authors, CreateCurriculumProposal(p, a)
      PROVE  TypeOK'
  BY <1>2 DEF CreateCurriculumProposal, ProposalRow
<1>3. ASSUME NEW p \in Proposals, NEW a \in Authors, DeleteCurriculumProposal(p, a)
      PROVE  TypeOK'
  BY <1>3 DEF DeleteCurriculumProposal, Unused, ProposalRow
<1>4. ASSUME NEW p \in Proposals, NEW C \in SUBSET Change, DraftMutated(p, C)
      PROVE  TypeOK'
  BY <1>4, MutatedRow DEF DraftMutated
<1>5. ASSUME NEW p \in Proposals, NEW a \in Authors, SubmitCurriculumProposal(p, a)
      PROVE  TypeOK'
  BY <1>5 DEF SubmitCurriculumProposal, ProposalRow
<1>6. ASSUME NEW p \in Proposals, AcceptCurriculumProposal(p)
      PROVE  TypeOK'
  <2>1. IsGraph(published')
    BY <1>6, WithProposalIsGraph DEF AcceptCurriculumProposal, ProposalRow
  <2> QED BY <1>6, <2>1 DEF AcceptCurriculumProposal, ProposalRow
<1>7. ASSUME NEW p \in Proposals, RejectCurriculumProposal(p)
      PROVE  TypeOK'
  BY <1>7 DEF RejectCurriculumProposal, ProposalRow
<1> QED BY <1>1, <1>2, <1>3, <1>4, <1>5, <1>6, <1>7 DEF Transaction

LEMMA TypeStep == TypeOK /\ [Next]_vars => TypeOK'
BY TypeTransaction, NextCases

\* In every reachable state the head is a proposal or NULL, the published
\* curriculum is a graph, and every row and every change has its type.
THEOREM TypeCorrect == Spec => []TypeOK
BY TypeInit, TypeStep, PTL DEF Spec

(***************************************************************************)
(* The inductive invariant.                                                *)
(***************************************************************************)

\* Every base, and the head, is an accepted proposal or NULL.
Anchored ==
    /\ head \in InStatus("accepted") \cup {None}
    /\ \A p \in Proposals : proposal[p].base \in InStatus("accepted") \cup {None}

\* The head begins a single line of bases through every accepted proposal:
\* nothing is accepted over the head yet, no two over the same base, and a set
\* of accepted proposals that holds the head and its members' bases holds all.
SingleLine ==
    /\ \A p \in InStatus("accepted") : proposal[p].base # head
    /\ \A p, q \in InStatus("accepted") :
           proposal[p].base = proposal[q].base => p = q
    /\ \A S \in SUBSET InStatus("accepted") :
           /\ head \in S \cup {None}
           /\ \A p \in S : proposal[p].base \in S \cup {None}
           => InStatus("accepted") \subseteq S

IInv ==
    /\ TypeOK
    /\ PublishedGraphIsSound
    /\ Anchored
    /\ SingleLine
    /\ SubmittedIsPublishable

\* A step that leaves the projection alone, accepts nothing, and gives the one
\* proposal it writes an accepted base or none.
LEMMA UnpublishedStep ==
    ASSUME IInv, TypeOK', UNCHANGED <<head, published>>,
           NEW p \in Proposals,
           proposal[p].status # "accepted", proposal'[p].status # "accepted",
           proposal'[p].base \in {proposal[p].base, head, None},
           \A q \in Proposals \ {p} : proposal'[q] = proposal[q],
           proposal'[p].status = "submitted" /\ proposal'[p].base = head =>
               ValidProposal(published, proposal'[p].changes)
    PROVE  IInv'
<1>1. InStatus("accepted")' = InStatus("accepted")
  BY DEF InStatus
<1>2. Anchored'
  BY <1>1 DEF IInv, Anchored, InStatus
<1>3. \A q \in InStatus("accepted") : proposal'[q].base = proposal[q].base
  BY DEF InStatus
<1>4. SingleLine'
  BY <1>1, <1>3 DEF IInv, SingleLine
<1>5. SubmittedIsPublishable'
  <2>1. SUFFICES ASSUME NEW q \in Proposals,
                        proposal'[q].status = "submitted", proposal'[q].base = head
                 PROVE  /\ ValidProposal(published, proposal'[q].changes)
                        /\ Projectable(published, proposal'[q].changes)
    BY DEF SubmittedIsPublishable
  <2>2. CASE q = p
    BY <2>1, <2>2, ValidIsProjectable
  <2>3. CASE q # p
    BY <2>1, <2>3 DEF IInv, SubmittedIsPublishable
  <2> QED BY <2>2, <2>3
<1> QED BY <1>2, <1>4, <1>5 DEF IInv, PublishedGraphIsSound

\* The only step that publishes: the accepted changes were checked against the very
\* graph they are applied to, as the base is the head.
LEMMA AcceptStep ==
    ASSUME IInv, TypeOK', NEW p \in Proposals, AcceptCurriculumProposal(p)
    PROVE  IInv'
<1> DEFINE A == InStatus("accepted")
<1>1. /\ proposal[p].status = "submitted" /\ proposal[p].base = head
      /\ head' = p
      /\ published' = WithProposal(published, proposal[p].changes)
      /\ proposal'[p].status = "accepted"
      /\ \A q \in Proposals : /\ proposal'[q].base = proposal[q].base
                              /\ q # p => proposal'[q] = proposal[q]
  BY DEF AcceptCurriculumProposal, IInv, TypeOK, ProposalRow
<1>2. p \notin A /\ InStatus("accepted")' = A \cup {p} /\ p # None
  BY <1>1, NoneAssumption DEF InStatus
<1>3. \A q \in Proposals : proposal[q].base # p
  BY <1>2 DEF IInv, Anchored
<1>4. SoundGraph(published')
  BY <1>1, ValidKeepsSound DEF IInv, SubmittedIsPublishable
<1>5. Anchored'
  BY <1>1, <1>2 DEF IInv, Anchored
<1>6. SubmittedIsPublishable'
  BY <1>1, <1>3 DEF SubmittedIsPublishable
<1>7. SingleLine'
  <2>1. \A q \in A \cup {p} : proposal'[q].base # head'
    BY <1>1, <1>3 DEF InStatus
  <2>2. \A q \in A : proposal[q].base # proposal[p].base
    BY <1>1 DEF IInv, SingleLine
  <2>3. \A q, r \in A \cup {p} : proposal'[q].base = proposal'[r].base => q = r
    BY <1>1, <2>2 DEF IInv, SingleLine, InStatus
  <2>4. ASSUME NEW S \in SUBSET (A \cup {p}),
               p \in S \cup {None},
               \A q \in S : proposal'[q].base \in S \cup {None}
        PROVE  A \cup {p} \subseteq S
    <3> DEFINE T == S \ {p}
    <3>1. p \in S /\ T \in SUBSET A
      BY <1>2, <2>4
    <3>2. \A q \in T : proposal[q].base \in T \cup {None}
      BY <1>1, <1>3, <2>4 DEF InStatus
    <3>3. head \in T \cup {None}
      BY <1>1, <1>3, <2>4, <3>1
    <3>4. A \subseteq T
      BY <3>1, <3>2, <3>3 DEF IInv, SingleLine
    <3> QED BY <3>1, <3>4
  <2> QED BY <1>1, <1>2, <2>1, <2>3, <2>4 DEF SingleLine
<1> QED BY <1>4, <1>5, <1>6, <1>7 DEF IInv, PublishedGraphIsSound

\* The inductive invariant, initially and from step to step.
LEMMA InvInit == Init => IInv
<1> SUFFICES ASSUME Init PROVE IInv
  OBVIOUS
<1>1. TypeOK
  BY TypeInit
<1>2. SoundGraph(published)
  <2>1. CASE Seed = {}
    BY <2>1 DEF Init, WithProposal, EditedDependencies, EmptyGraph, Added, Kind,
                SoundGraph, Endpoints, Acyclic
  <2>2. CASE Seed # {}
    BY <2>2, SeedAssumption, ValidKeepsSound DEF Init
  <2> QED BY <2>1, <2>2
<1>3. CASE Seed = {}
  <2>1. /\ head = None /\ InStatus("accepted") = {}
        /\ \A p \in Proposals : proposal[p].status = "unused" /\ proposal[p].base = None
    BY <1>3 DEF Init, Unused, InStatus
  <2> QED BY <1>1, <1>2, <2>1 DEF IInv, PublishedGraphIsSound, Anchored, SingleLine,
                                  SubmittedIsPublishable
<1>4. CASE Seed # {}
  <2>1. PICK g \in Proposals, a \in Authors :
            /\ head = g
            /\ proposal = [p \in Proposals |->
                   IF p = g
                   THEN [status |-> "accepted", base |-> None, author |-> a,
                         changes |-> Seed]
                   ELSE Unused]
    BY <1>4 DEF Init
  <2>2. /\ InStatus("accepted") = {g}
        /\ \A p \in Proposals : proposal[p].base = None /\ proposal[p].status # "submitted"
    BY <2>1 DEF Unused, InStatus
  <2> QED BY <1>1, <1>2, <2>1, <2>2, NoneAssumption
          DEF IInv, PublishedGraphIsSound, Anchored, SingleLine, SubmittedIsPublishable
<1> QED BY <1>3, <1>4

LEMMA InvTransaction == IInv /\ [Transaction]_vars => IInv'
<1> SUFFICES ASSUME IInv, [Transaction]_vars PROVE IInv'
  OBVIOUS
<1>0. TypeOK /\ TypeOK'
  BY TypeTransaction DEF IInv
<1>1. CASE UNCHANGED vars
  BY <1>1 DEF vars, IInv, TypeOK, PublishedGraphIsSound, Anchored, SingleLine,
              SubmittedIsPublishable, InStatus
<1>2. ASSUME NEW p \in Proposals, NEW a \in Authors, CreateCurriculumProposal(p, a)
      PROVE  IInv'
  BY <1>0, <1>2, UnpublishedStep DEF CreateCurriculumProposal, TypeOK
<1>3. ASSUME NEW p \in Proposals, NEW a \in Authors, DeleteCurriculumProposal(p, a)
      PROVE  IInv'
  BY <1>0, <1>3, UnpublishedStep DEF DeleteCurriculumProposal, OwnDraft, Unused, TypeOK
<1>4. ASSUME NEW p \in Proposals, NEW C \in SUBSET Change, DraftMutated(p, C)
      PROVE  IInv'
  <2>1. /\ proposal'[p].status = "draft" /\ proposal'[p].base = head
        /\ \A q \in Proposals \ {p} : proposal'[q] = proposal[q]
    <3>1. proposal'[p] = [status |-> "draft", base |-> head,
                          author |-> proposal[p].author, changes |-> C]
      BY <1>0, <1>4, MutatedRow
    <3>2. \A q \in Proposals \ {p} : proposal'[q] = proposal[q]
      BY <1>0, <1>4, MutatedRow
    <3> QED BY <3>1, <3>2
  <2>2. proposal[p].status = "draft" /\ UNCHANGED <<head, published>>
    BY <1>4 DEF DraftMutated
  <2> QED BY <1>0, <2>1, <2>2, UnpublishedStep
<1>5. ASSUME NEW p \in Proposals, NEW a \in Authors, SubmitCurriculumProposal(p, a)
      PROVE  IInv'
  <2>1. /\ proposal'[p].status = "submitted" /\ proposal'[p].base = head
        /\ proposal'[p].changes = proposal[p].changes
        /\ \A q \in Proposals \ {p} : proposal'[q] = proposal[q]
    BY <1>0, <1>5 DEF SubmitCurriculumProposal, TypeOK, ProposalRow
  <2> QED BY <1>0, <1>5, <2>1, UnpublishedStep
          DEF SubmitCurriculumProposal, BeginDraftMutation, OwnDraft
<1>6. ASSUME NEW p \in Proposals, AcceptCurriculumProposal(p)
      PROVE  IInv'
  BY <1>0, <1>6, AcceptStep
<1>7. ASSUME NEW p \in Proposals, RejectCurriculumProposal(p)
      PROVE  IInv'
  <2>1. /\ proposal'[p].status = "rejected" /\ proposal'[p].base = proposal[p].base
        /\ \A q \in Proposals \ {p} : proposal'[q] = proposal[q]
    BY <1>0, <1>7 DEF RejectCurriculumProposal, TypeOK, ProposalRow
  <2> QED BY <1>0, <1>7, <2>1, UnpublishedStep DEF RejectCurriculumProposal
<1> QED BY <1>1, <1>2, <1>3, <1>4, <1>5, <1>6, <1>7 DEF Transaction

LEMMA InvStep == IInv /\ [Next]_vars => IInv'
BY InvTransaction, NextCases DEF IInv

LEMMA Invariance == Spec => []IInv
BY InvInit, InvStep, PTL DEF Spec

(***************************************************************************)
(* The safety theorems.                                                    *)
(***************************************************************************)

\* Publication validates nothing, and the published curriculum is a directed
\* acyclic graph over its own units all the same, for ever.
THEOREM PublishedGraphStaysSound == Spec => []PublishedGraphIsSound
BY Invariance, PTL DEF IInv

\* Whenever the base check of AcceptCurriculumProposal lets a submitted proposal
\* through, the proposal is valid over what is published at that moment and no
\* row of it is refused.
THEOREM SubmittedStaysPublishable == Spec => []SubmittedIsPublishable
BY Invariance, PTL DEF IInv

\* The accepted proposals are those that the head goes back to.
LEMMA LineageOfTheHead ==
    ASSUME IInv
    PROVE  Lineage(head) = InStatus("accepted")
<1> DEFINE A == InStatus("accepted")
           Closed(S) == /\ head \in Proposals => head \in S
                        /\ \A x \in S : proposal[x].base \in S \cup {None}
<1>0. A \in SUBSET Proposals
  BY DEF InStatus
<1>1. Closed(A)
  BY <1>0, NoneAssumption DEF IInv, Anchored
<1>2. ASSUME NEW S \in SUBSET Proposals, Closed(S) PROVE A \subseteq S
  <2> DEFINE T == S \cap A
  <2>1. head \in T \cup {None}
    BY <1>0, <1>2 DEF IInv, Anchored
  <2>2. \A x \in T : proposal[x].base \in T \cup {None}
    BY <1>0, <1>2 DEF IInv, Anchored
  <2> QED BY <2>1, <2>2 DEF IInv, SingleLine
<1>3. Lineage(head) = {p \in Proposals : \A S \in SUBSET Proposals : Closed(S) => p \in S}
  BY DEF Lineage
<1> QED BY <1>0, <1>1, <1>2, <1>3

\* The accepted proposals are the lineage of the head, without a fork, and every
\* base lies on it, so acceptedCurriculumProposalsSince finds every stale
\* draft's base however many publications it has missed.
THEOREM HistoryStaysLinear == Spec => []HistoryIsLinear
<1>1. IInv => HistoryIsLinear
  BY LineageOfTheHead DEF IInv, Anchored, SingleLine, HistoryIsLinear, OnLineage
<1> QED BY <1>1, Invariance, PTL

\* No transaction rewrites what was submitted, but for its status.
LEMMA FrozenTransaction == TypeOK /\ [Transaction]_vars => [FrozenOnceSubmitted]_vars
<1> SUFFICES ASSUME TypeOK, Transaction PROVE FrozenOnceSubmitted
  OBVIOUS
<1> USE DEF TypeOK, ProposalRow, FrozenOnceSubmitted
<1>2. ASSUME NEW p \in Proposals, NEW a \in Authors, CreateCurriculumProposal(p, a)
      PROVE  FrozenOnceSubmitted
  BY <1>2 DEF CreateCurriculumProposal
<1>3. ASSUME NEW p \in Proposals, NEW a \in Authors, DeleteCurriculumProposal(p, a)
      PROVE  FrozenOnceSubmitted
  BY <1>3 DEF DeleteCurriculumProposal, OwnDraft
<1>4. ASSUME NEW p \in Proposals, NEW C \in SUBSET Change, DraftMutated(p, C)
      PROVE  FrozenOnceSubmitted
  BY <1>4 DEF DraftMutated
<1>5. ASSUME NEW p \in Proposals, NEW a \in Authors, SubmitCurriculumProposal(p, a)
      PROVE  FrozenOnceSubmitted
  BY <1>5 DEF SubmitCurriculumProposal, BeginDraftMutation, OwnDraft
<1>6. ASSUME NEW p \in Proposals, AcceptCurriculumProposal(p)
      PROVE  FrozenOnceSubmitted
  BY <1>6 DEF AcceptCurriculumProposal
<1>7. ASSUME NEW p \in Proposals, RejectCurriculumProposal(p)
      PROVE  FrozenOnceSubmitted
  BY <1>7 DEF RejectCurriculumProposal
<1> QED BY <1>2, <1>3, <1>4, <1>5, <1>6, <1>7 DEF Transaction

\* No operation of any client writes the changes, the base or the author of a
\* proposal once it was submitted, nor moves it anywhere but to its review.
THEOREM SubmittedStaysFrozen == Spec => SubmissionFreezes
<1>1. TypeOK /\ [Next]_vars => [FrozenOnceSubmitted]_vars
  BY FrozenTransaction, NextCases
<1> QED BY <1>1, TypeCorrect, PTL DEF Spec, SubmissionFreezes

(***************************************************************************)
(* The refinement of PublishedCurriculum.                                  *)
(***************************************************************************)
LEMMA SameGraphs ==
    ASSUME NEW H
    PROVE  /\ IsGraph(H) <=> Publication!IsGraph(H)
           /\ SoundGraph(H) <=> Publication!SoundGraph(H)
<1>1. IsGraph(H) <=> Publication!IsGraph(H)
  BY DEF IsGraph, Publication!IsGraph, UnitId, Publication!UnitId, Field, Publication!Field
<1>2. SoundGraph(H) <=> Publication!SoundGraph(H)
  BY DEF SoundGraph, Publication!SoundGraph, Endpoints, Publication!Endpoints,
         Acyclic, Publication!Acyclic
<1> QED BY <1>1, <1>2

\* The abstract curriculum starts where this one does,
LEMMA PublicationInit == Init => Publication!Init
<1> SUFFICES ASSUME Init PROVE Publication!Init
  OBVIOUS
<1>1. IsGraph(published) /\ SoundGraph(published)
  BY InvInit DEF IInv, TypeOK, PublishedGraphIsSound
<1>2. CASE Seed = {}
  <2>1. published.units = {}
    BY <1>2 DEF Init, WithProposal, ResultingUnits, Created, Kind, EmptyGraph
  <2>2. head = None /\ InStatus("accepted") = {}
    BY <1>2 DEF Init, InStatus, Unused
  <2> QED BY <1>1, <2>1, <2>2, SameGraphs DEF Publication!Init
<1>3. CASE Seed # {}
  <2>1. head \in Proposals /\ InStatus("accepted") = {head}
    BY <1>3 DEF Init, InStatus, Unused
  <2> QED BY <1>1, <2>1, SameGraphs DEF Publication!Init
<1> QED BY <1>2, <1>3

\* and an acceptance is a publication there, every other step a stutter.
LEMMA PublicationStep ==
    IInv /\ IInv' /\ [Transaction]_vars => [Publication!Publish]_Publication!pvars
<1> SUFFICES ASSUME IInv, IInv', [Transaction]_vars
             PROVE  [Publication!Publish]_Publication!pvars
  OBVIOUS
<1>0. TypeOK /\ IsGraph(published') /\ SoundGraph(published')
  BY DEF IInv, TypeOK, PublishedGraphIsSound
<1>1. ASSUME NEW p \in Proposals, proposal[p].status # "accepted",
             proposal'[p].status # "accepted", UNCHANGED <<head, published>>,
             \A q \in Proposals \ {p} : proposal'[q] = proposal[q]
      PROVE  UNCHANGED Publication!pvars
  <2>1. InStatus("accepted")' = InStatus("accepted")
    BY <1>1 DEF InStatus
  <2> QED BY <1>1, <2>1 DEF Publication!pvars
<1>2. CASE UNCHANGED vars
  BY <1>2 DEF vars, Publication!pvars, InStatus
<1>3. ASSUME NEW p \in Proposals, NEW a \in Authors, CreateCurriculumProposal(p, a)
      PROVE  UNCHANGED Publication!pvars
  BY <1>0, <1>1, <1>3 DEF CreateCurriculumProposal, TypeOK
<1>4. ASSUME NEW p \in Proposals, NEW a \in Authors, DeleteCurriculumProposal(p, a)
      PROVE  UNCHANGED Publication!pvars
  BY <1>0, <1>1, <1>4 DEF DeleteCurriculumProposal, OwnDraft, Unused, TypeOK
<1>5. ASSUME NEW p \in Proposals, NEW C \in SUBSET Change, DraftMutated(p, C)
      PROVE  UNCHANGED Publication!pvars
  <2>1. /\ proposal'[p].status = "draft"
        /\ \A q \in Proposals \ {p} : proposal'[q] = proposal[q]
    <3>1. proposal'[p] = [status |-> "draft", base |-> head,
                          author |-> proposal[p].author, changes |-> C]
      BY <1>0, <1>5, MutatedRow
    <3>2. \A q \in Proposals \ {p} : proposal'[q] = proposal[q]
      BY <1>0, <1>5, MutatedRow
    <3> QED BY <3>1, <3>2
  <2> QED BY <1>1, <1>5, <2>1 DEF DraftMutated
<1>6. ASSUME NEW p \in Proposals, NEW a \in Authors, SubmitCurriculumProposal(p, a)
      PROVE  UNCHANGED Publication!pvars
  <2>1. /\ proposal'[p].status = "submitted"
        /\ \A q \in Proposals \ {p} : proposal'[q] = proposal[q]
    BY <1>0, <1>6 DEF SubmitCurriculumProposal, TypeOK, ProposalRow
  <2> QED BY <1>1, <1>6, <2>1 DEF SubmitCurriculumProposal, BeginDraftMutation, OwnDraft
<1>7. ASSUME NEW p \in Proposals, AcceptCurriculumProposal(p)
      PROVE  Publication!Publish
  <2>1. /\ head' = p /\ p \notin InStatus("accepted")
        /\ InStatus("accepted")' = InStatus("accepted") \cup {p}
    BY <1>0, <1>7 DEF AcceptCurriculumProposal, TypeOK, ProposalRow, InStatus
  <2> QED BY <1>0, <2>1, SameGraphs DEF Publication!Publish
<1>8. ASSUME NEW p \in Proposals, RejectCurriculumProposal(p)
      PROVE  UNCHANGED Publication!pvars
  <2>1. /\ proposal'[p].status = "rejected"
        /\ \A q \in Proposals \ {p} : proposal'[q] = proposal[q]
    BY <1>0, <1>8 DEF RejectCurriculumProposal, TypeOK, ProposalRow
  <2> QED BY <1>1, <1>8, <2>1 DEF RejectCurriculumProposal
<1> QED BY <1>2, <1>3, <1>4, <1>5, <1>6, <1>7, <1>8 DEF Transaction

\* Drafting, rebasing, review and publication together implement the promise of
\* PublishedCurriculum: readers see sound graphs that change only by the
\* publication of one new proposal after another.
THEOREM ProposalsImplementPublishedCurriculum == Spec => ImplementsPublishedCurriculum
<1>1. IInv /\ IInv' /\ [Next]_vars => [Publication!Publish]_Publication!pvars
  BY PublicationStep, NextCases DEF IInv
<1> QED BY <1>1, PublicationInit, Invariance, PTL
        DEF Spec, ImplementsPublishedCurriculum, Publication!Spec

(***************************************************************************)
(* The refinement of ProposalLifecycle.                                    *)
(***************************************************************************)
\* A step that writes one proposal writes one row.
LEMMA LifecycleWrite ==
    ASSUME TypeOK, TypeOK', NEW p \in Proposals,
           \A q \in Proposals \ {p} : proposal'[q] = proposal[q]
    PROVE  Lifecycle!Write(p, proposal'[p].status, proposal'[p].base, proposal'[p].changes)
<1> DEFINE x == [status |-> proposal'[p].status, base |-> proposal'[p].base,
                 work |-> proposal'[p].changes]
<1>1. LifecycleRow' = [q \in Proposals |-> IF q = p THEN x ELSE LifecycleRow[q]]
  BY DEF LifecycleRow
<1>2. LifecycleRow' = [LifecycleRow EXCEPT ![p] = x]
  BY <1>1 DEF LifecycleRow
<1> QED BY <1>2 DEF Lifecycle!Write

\* The life of proposals begins where this one does,
LEMMA LifecycleInit == Init => Lifecycle!Init
<1> SUFFICES ASSUME Init PROVE Lifecycle!Init
  OBVIOUS
<1>1. Seed \in SUBSET Change
  BY CreatedBySeed
<1>2. CASE Seed = {}
  <2>1. LifecycleRow = [p \in Proposals |-> [status |-> "unused", base |-> None, work |-> {}]]
    BY <1>2 DEF Init, LifecycleRow, Unused
  <2> QED BY <1>2, <2>1 DEF Init, Lifecycle!Init, Lifecycle!InStatus
<1>3. CASE Seed # {}
  <2>1. PICK g \in Proposals, a \in Authors :
          /\ head = g
          /\ proposal = [p \in Proposals |->
                 IF p = g
                 THEN [status |-> "accepted", base |-> None, author |-> a, changes |-> Seed]
                 ELSE Unused]
    BY <1>3 DEF Init
  <2>2. /\ LifecycleRow[g] = [status |-> "accepted", base |-> None, work |-> Seed]
        /\ \A p \in Proposals \ {g} :
             LifecycleRow[p] = [status |-> "unused", base |-> None, work |-> {}]
    BY <2>1 DEF LifecycleRow, Unused
  <2>3. LifecycleRow = [p \in Proposals |-> LifecycleRow[p]]
    BY DEF LifecycleRow
  <2>4. LifecycleRow \in [Proposals -> [status : {"unused", "draft", "submitted", "accepted"},
                                       base : {None}, work : SUBSET Change]]
    BY <1>1, <2>2, <2>3
  <2>5. \A p \in Proposals : LifecycleRow[p].status = "accepted" <=> p = g
    BY <2>2
  <2>6. Lifecycle!InStatus("accepted") = {g}
    BY <2>5 DEF Lifecycle!InStatus
  <2>7. {head} \ {None} = {g}
    BY <2>1, NoneAssumption
  <2> QED BY <2>1, <2>4, <2>6, <2>7 DEF Lifecycle!Init
<1> QED BY <1>2, <1>3

\* and every transaction is one step of one of them.
LEMMA LifecycleStep ==
    IInv /\ TypeOK' /\ [Transaction]_vars => [Lifecycle!Next]_Lifecycle!lvars
<1> SUFFICES ASSUME IInv, TypeOK', [Transaction]_vars
             PROVE  [Lifecycle!Next]_Lifecycle!lvars
  OBVIOUS
<1>0. /\ TypeOK /\ Anchored
      /\ \A p \in Proposals :
           /\ proposal[p] \in ProposalRow /\ proposal'[p] \in ProposalRow
           /\ LifecycleRow[p].status = proposal[p].status
           /\ LifecycleRow[p].base = proposal[p].base
           /\ LifecycleRow[p].work = proposal[p].changes
  BY DEF IInv, TypeOK, LifecycleRow
<1>1. CASE UNCHANGED vars
  BY <1>1 DEF vars, Lifecycle!lvars, LifecycleRow
<1>2. ASSUME NEW p \in Proposals, NEW a \in Authors, CreateCurriculumProposal(p, a)
      PROVE  Lifecycle!Start(p)
  <2>1. proposal'[p] = [status |-> "draft", base |-> head, author |-> a, changes |-> {}]
    BY <1>0, <1>2 DEF CreateCurriculumProposal, TypeOK
  <2>2. Lifecycle!Write(p, "draft", head, {})
    BY <1>0, <1>2, <2>1, LifecycleWrite DEF CreateCurriculumProposal, TypeOK
  <2>3. head \in Lifecycle!InStatus("accepted") \cup {None}
    BY <1>0 DEF Anchored, InStatus, Lifecycle!InStatus
  <2> QED BY <1>0, <1>2, <2>2, <2>3 DEF Lifecycle!Start, CreateCurriculumProposal
<1>3. ASSUME NEW p \in Proposals, NEW a \in Authors, DeleteCurriculumProposal(p, a)
      PROVE  Lifecycle!Discard(p)
  <2>1. proposal'[p] = Unused
    BY <1>0, <1>3 DEF DeleteCurriculumProposal, TypeOK
  <2>2. Lifecycle!Write(p, "unused", None, {})
    BY <1>0, <1>3, <2>1, LifecycleWrite DEF DeleteCurriculumProposal, TypeOK, Unused
  <2> QED BY <1>0, <1>3, <2>2 DEF Lifecycle!Discard, DeleteCurriculumProposal, OwnDraft
<1>4. ASSUME NEW p \in Proposals, NEW C \in SUBSET Change, DraftMutated(p, C)
      PROVE  Lifecycle!Change(p)
  <2>1. /\ proposal'[p] = [status |-> "draft", base |-> head,
                           author |-> proposal[p].author, changes |-> C]
        /\ \A q \in Proposals \ {p} : proposal'[q] = proposal[q]
    BY <1>0, <1>4, MutatedRow
  <2>2. Lifecycle!Write(p, "draft", head, C)
    BY <1>0, <2>1, LifecycleWrite
  <2> QED BY <1>0, <1>4, <2>2 DEF Lifecycle!Change, DraftMutated
<1>5. ASSUME NEW p \in Proposals, NEW a \in Authors, SubmitCurriculumProposal(p, a)
      PROVE  Lifecycle!Submit(p)
  <2>1. /\ proposal[p].status = "draft" /\ head' = head
        /\ proposal'[p].status = "submitted" /\ proposal'[p].base = head
        /\ proposal'[p].changes = proposal[p].changes
        /\ \A q \in Proposals \ {p} : proposal'[q] = proposal[q]
    BY <1>0, <1>5 DEF SubmitCurriculumProposal, BeginDraftMutation, OwnDraft, TypeOK, ProposalRow
  <2>2. Lifecycle!Write(p, "submitted", head, proposal[p].changes)
    BY <1>0, <2>1, LifecycleWrite
  <2> QED BY <1>0, <2>1, <2>2 DEF Lifecycle!Submit
<1>6. ASSUME NEW p \in Proposals, NEW s, proposal[p].status = "submitted",
             proposal' = [proposal EXCEPT ![p].status = s]
      PROVE  LifecycleRow' = [LifecycleRow EXCEPT ![p].status = s]
  <2>1. /\ proposal'[p].status = s /\ proposal'[p].base = proposal[p].base
        /\ proposal'[p].changes = proposal[p].changes
        /\ \A q \in Proposals \ {p} : proposal'[q] = proposal[q]
    BY <1>0, <1>6 DEF TypeOK, ProposalRow
  <2>2. Lifecycle!Write(p, s, proposal[p].base, proposal[p].changes)
    BY <1>0, <2>1, LifecycleWrite
  <2> QED BY <1>0, <2>2 DEF Lifecycle!Write, LifecycleRow
<1>7. ASSUME NEW p \in Proposals, AcceptCurriculumProposal(p)
      PROVE  Lifecycle!Accept(p)
  BY <1>0, <1>6, <1>7 DEF Lifecycle!Accept, AcceptCurriculumProposal
<1>8. ASSUME NEW p \in Proposals, RejectCurriculumProposal(p)
      PROVE  Lifecycle!Reject(p)
  BY <1>0, <1>6, <1>8 DEF Lifecycle!Reject, RejectCurriculumProposal
<1> QED BY <1>1, <1>2, <1>3, <1>4, <1>5, <1>7, <1>8 DEF Transaction, Lifecycle!Next

\* What the operations on proposals do, taken as atomic transactions, are the
\* steps that their locks make atomic: both this module and PublicationLocking
\* implement ProposalLifecycle.
THEOREM ProposalsImplementLifecycle == Spec => ImplementsProposalLifecycle
<1>1. IInv /\ IInv' /\ [Next]_vars => [Lifecycle!Next]_Lifecycle!lvars
  BY LifecycleStep, NextCases DEF IInv
<1> QED BY <1>1, LifecycleInit, Invariance, PTL
        DEF Spec, ImplementsProposalLifecycle, Lifecycle!Spec

(***************************************************************************)
(* Review of overlapping work.                                             *)
(***************************************************************************)
LEMMA MutationKeepsBase ==
    ASSUME NEW p, NEW a, BeginDraftMutation(p, a), Overlapping(p) # {}
    PROVE  proposal[p].base = head
BY DEF BeginDraftMutation, RebaseStatus

\* Edits start with the row of the draft, owned and at the head.
LEMMA EditBegins ==
    ASSUME NEW p, NEW a, EditDraft(p, a)
    PROVE  BeginDraftMutation(p, a)
BY DEF EditDraft, CreateCurriculumUnit, UpdateCreatedUnit, UpdatePublishedUnit,
       DiscardCreatedUnit, DeletePublishedUnit, AddUnitDependency,
       RemoveUnitDependency, KeepUnitDependency, DeleteCurriculumProposalChange,
       AddCurriculumRecognition, EnsureCurriculumRecognition

\* A change that survives the review undropped and unmerged is lost only when
\* the accepted work already did what it asks for.
LEMMA ResolvedFollowsReview ==
    ASSUME NEW p, Overlapping(p) # {}, NEW drop \in SUBSET Conflicts(p),
           NEW merged, DOMAIN merged \subseteq Kind(Conflicts(p) \ drop, "update_content")
    PROVE  LET C == proposal[p].changes
               D == Resolved(p, drop, merged)
           IN /\ \A c \in D \ C :
                     /\ c.kind = "update_content"
                     /\ EditsOf(Conflicts(p), "content", c.unit) # {}
              /\ \A c \in C \ D : c \in Conflicts(p) \/ AlreadyPublished(c, C)
<1> DEFINE C == proposal[p].changes
           M == {IF c \in DOMAIN merged THEN Edit("content", c.unit, merged[c]) ELSE c :
                    c \in C \ drop}
<1>1. Conflicts(p) = {c \in C : ChangeUnits(c) \cap UpstreamUnits(p) # {}}
  BY DEF Conflicts, Overlapping
<1>2. Resolved(p, drop, merged) = {c \in M : ~AlreadyPublished(c, M)}
  BY DEF Resolved, Normalized
<1>3. ASSUME NEW c \in M, c \notin C
      PROVE  c.kind = "update_content" /\ EditsOf(Conflicts(p), "content", c.unit) # {}
  <2>1. PICK x \in C \ drop :
            c = IF x \in DOMAIN merged THEN Edit("content", x.unit, merged[x]) ELSE x
    OBVIOUS
  <2>2. x \in DOMAIN merged /\ c = Edit("content", x.unit, merged[x])
    BY <1>3, <2>1
  <2>3. x \in Conflicts(p) /\ x.kind = "update_content"
    BY <2>2 DEF Kind
  <2>4. c.kind = "update_content" /\ c.unit = x.unit
    BY <2>2 DEF Edit, EditKind
  <2>5. x \in EditsOf(Conflicts(p), "content", c.unit)
    BY <2>3, <2>4 DEF EditsOf, EditKind, Kind
  <2> QED BY <2>4, <2>5
<1>4. ASSUME NEW c \in C, c \notin Conflicts(p), AlreadyPublished(c, M)
      PROVE  AlreadyPublished(c, C)
  <2>1. CASE ~(c \in Edits(M) /\ c.unit \in published.units \ Created(M))
    BY <1>4, <2>1 DEF AlreadyPublished
  <2>2. CASE c \in Edits(M) /\ c.unit \in published.units \ Created(M)
    <3>1. c \in Edits(C) /\ ChangeUnits(c) = {c.unit}
      BY <2>2 DEF Edits, Kind, ChangeUnits
    <3>2. ASSUME NEW d \in Kind(C, "create_unit"), d.unit = c.unit PROVE FALSE
      <4>1. ChangeUnits(d) = {c.unit}
        BY <3>2 DEF Kind, ChangeUnits
      <4>2. d \notin Conflicts(p)
        BY <1>1, <1>4, <3>1, <4>1
      <4>3. d \notin drop /\ d \notin DOMAIN merged /\ d \in C
        BY <4>2 DEF Kind
      <4>4. d \in Kind(M, "create_unit")
        BY <4>3 DEF Kind
      <4> QED BY <2>2, <3>2, <4>4 DEF Created
    <3>3. c.unit \notin Created(C)
      BY <3>2 DEF Created
    <3> QED BY <1>4, <2>2, <3>1, <3>3 DEF AlreadyPublished, Edits, Kind
  <2> QED BY <2>1, <2>2
<1>5. ASSUME NEW c \in C, c \notin Conflicts(p), c \notin Resolved(p, drop, merged)
      PROVE  AlreadyPublished(c, C)
  <2>1. c \in M
    BY <1>5 DEF Kind
  <2> QED BY <1>2, <1>4, <1>5, <2>1
<1> QED BY <1>2, <1>3, <1>5

\* No operation but the author's review moves a draft whose changes meet work
\* accepted since its base, and the review changes it only as it was decided.
THEOREM OverlapStaysReviewed == Spec => OverlapIsReviewed
<1>1. ASSUME TypeOK, [Next]_vars PROVE [RebasedByReview]_vars
  <2>1. SUFFICES ASSUME Next, NEW p \in InStatus("draft"), Overlapping(p) # {},
                        proposal'[p].status # "unused",
                        proposal'[p].base # proposal[p].base
                 PROVE  /\ proposal'[p].status = "draft"
                        /\ Replayable(proposal'[p].changes)
                        /\ \A c \in proposal'[p].changes \ proposal[p].changes :
                              /\ c.kind = "update_content"
                              /\ EditsOf(Conflicts(p), "content", c.unit) # {}
                        /\ \A c \in proposal[p].changes \ proposal'[p].changes :
                              c \in Conflicts(p)
                                \/ AlreadyPublished(c, proposal[p].changes)
    BY <1>1 DEF RebasedByReview
  <2>2. p \in Proposals /\ proposal[p].status = "draft"
    BY <2>1 DEF InStatus
  <2>4. ASSUME NEW a \in Authors, CreateCurriculumProposal(p, a) PROVE FALSE
    BY <2>2, <2>4 DEF CreateCurriculumProposal
  <2>5. ASSUME NEW a \in Authors, DeleteCurriculumProposal(p, a) PROVE FALSE
    BY <1>1, <2>1, <2>2, <2>5 DEF DeleteCurriculumProposal, Unused, TypeOK
  <2>6. ASSUME NEW a \in Authors, EditDraft(p, a) PROVE FALSE
    <3>1. proposal[p].base = head
      BY <2>1, <2>6, EditBegins, MutationKeepsBase
    <3>2. PICK C \in SUBSET Change : DraftMutated(p, C)
      BY <1>1, <2>2, <2>6, BoundsOnlyLimit, EditIsMutation
    <3>3. proposal'[p] = [status |-> "draft", base |-> head,
                          author |-> proposal[p].author, changes |-> C]
      BY <1>1, <2>2, <3>2, MutatedRow
    <3> QED BY <2>1, <3>1, <3>3
  <2>7. ASSUME NEW a \in Authors, SubmitCurriculumProposal(p, a) PROVE FALSE
    <3>1. proposal[p].base = head
      BY <2>1, <2>7, MutationKeepsBase DEF SubmitCurriculumProposal
    <3> QED BY <1>1, <2>1, <2>2, <2>7, <3>1 DEF SubmitCurriculumProposal, TypeOK, ProposalRow
  <2>8. ~AcceptCurriculumProposal(p) /\ ~RejectCurriculumProposal(p)
    BY <2>2 DEF AcceptCurriculumProposal, RejectCurriculumProposal
  <2>9. RebaseStatus(p) # "automatic"
    BY <2>1 DEF RebaseStatus
  <2>10. ~TryAutoRebaseCurriculumProposal(p)
    BY <2>9 DEF TryAutoRebaseCurriculumProposal
  <2>11. ASSUME NEW a \in Authors,
                NEW drop \in SUBSET Conflicts(p),
                NEW edited \in SUBSET Kind(Conflicts(p) \ drop, "update_content"),
                NEW merged \in [edited -> Text],
                ResolveCurriculumProposalRebase(p, a, drop, merged)
         PROVE  /\ proposal'[p].status = "draft"
                /\ Replayable(proposal'[p].changes)
                /\ \A c \in proposal'[p].changes \ proposal[p].changes :
                      /\ c.kind = "update_content"
                      /\ EditsOf(Conflicts(p), "content", c.unit) # {}
                /\ \A c \in proposal[p].changes \ proposal'[p].changes :
                      c \in Conflicts(p) \/ AlreadyPublished(c, proposal[p].changes)
    <3>1. /\ Replayable(Resolved(p, drop, merged))
          /\ CommitDraft(p, Resolved(p, drop, merged))
      BY <2>9, <2>11 DEF ResolveCurriculumProposalRebase
    <3>2. /\ proposal'[p].status = "draft"
          /\ proposal'[p].changes = Resolved(p, drop, merged)
      BY <1>1, <2>2, <3>1 DEF CommitDraft, TypeOK, ProposalRow
    <3>3. DOMAIN merged \subseteq Kind(Conflicts(p) \ drop, "update_content")
      OBVIOUS
    <3> QED BY <2>1, <3>1, <3>2, <3>3, ResolvedFollowsReview
  <2>12. PICK q \in Proposals :
            \/ \E a \in Authors : CreateCurriculumProposal(q, a)
            \/ \E a \in Authors : DeleteCurriculumProposal(q, a)
            \/ \E a \in Authors : EditDraft(q, a)
            \/ \E a \in Authors : RebaseDraft(q, a)
            \/ \E a \in Authors : SubmitCurriculumProposal(q, a)
            \/ AcceptCurriculumProposal(q)
            \/ RejectCurriculumProposal(q)
    BY <2>1 DEF Next
  <2>13. q = p
    <3>1. SUFFICES ASSUME q # p PROVE proposal'[p] = proposal[p]
      BY <2>1
    <3>2. ASSUME NEW a \in Authors, EditDraft(q, a) \/ RebaseDraft(q, a)
          PROVE  proposal'[p] = proposal[p]
      <4>1. PICK C : DraftMutated(q, C)
        BY <1>1, <3>2, BoundsOnlyLimit, EditIsMutation, RebaseIsMutation
      <4> QED BY <1>1, <2>2, <3>1, <4>1, MutatedRow
    <3> QED BY <1>1, <2>2, <2>12, <3>1, <3>2
            DEF TypeOK, CreateCurriculumProposal, DeleteCurriculumProposal,
                SubmitCurriculumProposal, AcceptCurriculumProposal,
                RejectCurriculumProposal
  <2> QED BY <2>4, <2>5, <2>6, <2>7, <2>8, <2>10, <2>11, <2>12, <2>13 DEF RebaseDraft
<1> QED BY <1>1, TypeCorrect, PTL DEF Spec, OverlapIsReviewed

(***************************************************************************)
(* Drafts are normalized diffs.  A draft whose base is the head keeps the  *)
(* form of a diff under every edit; one that is brought to the head takes  *)
(* it from validation, provided that no draft edits a unit it creates,     *)
(* which holds because identities are issued once.                         *)
(***************************************************************************)
DiffOf(c, C) ==
    /\ c.kind = "create_unit" =>
          /\ c.unit \notin published.units
          /\ \A d \in C : d.kind = c.kind /\ d.unit = c.unit => d = c
    /\ c.kind = "delete_unit" => c.unit \in published.units
    /\ c.kind \in {"rename_unit", "update_content"} =>
          /\ c.unit \in published.units /\ c.unit \notin Deleted(C)
          /\ \A f \in Field : c.kind = EditKind[f] => c.value # published.text[c.unit][f]
          /\ \A d \in C : d.kind = c.kind /\ d.unit = c.unit => d = c
    /\ c.kind = "add_dependency" =>
          /\ <<c.unit, c.prerequisite>> \notin published.deps
          /\ {c.unit, c.prerequisite} \subseteq ResultingUnits(published, C)
    /\ c.kind = "remove_dependency" => <<c.unit, c.prerequisite>> \in published.deps
    /\ c.kind = "recognition" => c.targets \subseteq ResultingUnits(published, C)

Diff(C) == \A c \in C : DiffOf(c, C)

UnitsSoFar == 1..(nextUnit - 1)

\* A draft edits units that were published, not those it creates.
Separate(C) ==
    \A c \in C : c.kind \in {"rename_unit", "update_content"} =>
        c.unit \in UnitsSoFar /\ c.unit \notin Created(C)

DraftsAreDiffs ==
    /\ published.units \subseteq UnitsSoFar
    /\ \A p \in Proposals : Created(proposal[p].changes) \subseteq UnitsSoFar
    /\ \A p \in InStatus("draft") :
          /\ Separate(proposal[p].changes)
          /\ proposal[p].base = head => Diff(proposal[p].changes)

\* The property says of a whole draft what a diff says of each change.
LEMMA DiffsAreNormalized ==
    ASSUME NEW C \in SUBSET Change, Diff(C)
    PROVE  /\ Normalized(C) = C
           /\ Created(C) \cap published.units = {}
           /\ Deleted(C) \subseteq published.units
           /\ \A f \in Field, u \in UnitId : Cardinality(EditsOf(C, f, u)) <= 1
           /\ \A c \in Edits(C) : c.unit \in published.units \ Deleted(C)
           /\ \A d \in Added(C) : {d[1], d[2]} \subseteq ResultingUnits(published, C)
           /\ \A c \in Kind(C, "recognition") :
                  c.targets \subseteq ResultingUnits(published, C)
<1>1. ASSUME NEW c \in C
      PROVE  ~AlreadyPublished(c, C)
  <2>1. DiffOf(c, C)
    BY DEF Diff
  <2> QED BY <2>1 DEF DiffOf, AlreadyPublished, Edits, Kind
<1>2. ASSUME NEW f \in Field, NEW u \in UnitId
      PROVE  Cardinality(EditsOf(C, f, u)) <= 1
  <2>1. ASSUME NEW c \in EditsOf(C, f, u), NEW d \in EditsOf(C, f, u)
        PROVE  c = d
    <3>1. EditKind[f] \in {"rename_unit", "update_content"}
      BY DEF EditKind, Field
    <3>2. c \in C /\ d \in C /\ c.kind = EditKind[f] /\ d.kind = c.kind /\ d.unit = c.unit
      BY DEF EditsOf, Kind
    <3>3. DiffOf(c, C)
      BY <3>2 DEF Diff
    <3> QED BY <3>1, <3>2, <3>3 DEF DiffOf
  <2>2. CASE EditsOf(C, f, u) = {}
    BY <2>2, FS_EmptySet
  <2>3. ASSUME NEW c \in EditsOf(C, f, u)
        PROVE  Cardinality(EditsOf(C, f, u)) <= 1
    <3>1. EditsOf(C, f, u) = {c}
      BY <2>1
    <3> QED BY <3>1, FS_Singleton
  <2> QED BY <2>2, <2>3
<1>3. \A d \in Added(C) : {d[1], d[2]} \subseteq ResultingUnits(published, C)
  BY DEF Added, Kind, Diff, DiffOf
<1> QED BY <1>1, <1>2, <1>3 DEF Normalized, Created, Deleted, Edits, Kind, Diff, DiffOf

\* What may be published may be brought to the head.
LEMMA ValidIsDiff ==
    ASSUME NEW C \in SUBSET Change, Separate(C), Replayable(C)
    PROVE  Diff(C)
<1> SUFFICES ASSUME NEW c \in C PROVE DiffOf(c, C)
  BY DEF Diff
<1>1. ValidProposal(published, C)
  BY DEF Replayable
<1>2. c.kind = "create_unit" =>
        /\ c.unit \notin published.units
        /\ \A d \in C : d.kind = c.kind /\ d.unit = c.unit => d = c
  BY <1>1 DEF ValidProposal, ValidCreations, Created, Kind
<1>3. c.kind = "delete_unit" => c.unit \in published.units
  BY <1>1 DEF ValidProposal, ValidDeletions, Deleted, Kind
<1>4. ASSUME c.kind \in {"rename_unit", "update_content"}
      PROVE  /\ c.unit \in published.units /\ c.unit \notin Deleted(C)
             /\ \A f \in Field : c.kind = EditKind[f] => c.value # published.text[c.unit][f]
             /\ \A d \in C : d.kind = c.kind /\ d.unit = c.unit => d = c
  <2>1. c \in Edits(C) /\ c.unit \notin Created(C)
    BY <1>4 DEF Edits, Kind, Separate
  <2>2. PICK g \in Field : c.kind = EditKind[g]
    BY <1>4 DEF Field, EditKind
  <2>3. c \in Kind(C, EditKind[g])
    BY <2>2 DEF Kind
  <2>4. /\ c.unit \in published.units \cup Created(C)
        /\ c.value # TextBefore(published, C, g, c.unit)
        /\ EditsOf(C, g, c.unit) = {c}
    BY <1>1, <2>3 DEF ValidProposal, ValidEdits
  <2>5. c.value # published.text[c.unit][g]
    BY <2>1, <2>4 DEF TextBefore
  <2>6. \A f \in Field : c.kind = EditKind[f] => f = g
    BY <2>2 DEF Field, EditKind
  <2>7. \A d \in C : d.kind = c.kind /\ d.unit = c.unit => d \in EditsOf(C, g, c.unit)
    BY <2>2 DEF EditsOf, Kind
  <2>8. c.unit \notin Deleted(C)
    BY <1>1, <2>1 DEF ValidProposal, ValidDeletions
  <2> QED BY <2>1, <2>4, <2>5, <2>6, <2>7, <2>8
<1>5. ASSUME c.kind = "add_dependency"
      PROVE  /\ <<c.unit, c.prerequisite>> \notin published.deps
             /\ {c.unit, c.prerequisite} \subseteq ResultingUnits(published, C)
  <2> DEFINE d == <<c.unit, c.prerequisite>>
  <2>1. d \in Added(C) /\ d \in EditedDependencies(published, C)
    BY <1>5 DEF Added, Kind, EditedDependencies
  <2>2. d \notin published.deps /\ {d[1], d[2]} \subseteq published.units \cup Created(C)
    BY <1>1, <2>1 DEF ValidProposal, ValidDependencies
  <2>3. d[1] \notin Deleted(C) /\ d[2] \notin Deleted(C)
    BY <1>1, <2>1 DEF ValidProposal, ValidDeletions
  <2> QED BY <2>2, <2>3 DEF ResultingUnits
<1>6. c.kind = "remove_dependency" => <<c.unit, c.prerequisite>> \in published.deps
  BY <1>1 DEF ValidProposal, ValidDependencies, Removed, Kind
<1>7. c.kind = "recognition" => c.targets \subseteq ResultingUnits(published, C)
  BY <1>1 DEF ValidProposal, ValidRecognitions, Kind
<1> QED BY <1>2, <1>3, <1>4, <1>5, <1>6, <1>7 DEF DiffOf

\* Beginning a draft mutation leaves it a diff from the head.
LEMMA BegunIsDiff ==
    ASSUME TypeOK, DraftsAreDiffs, NEW p \in Proposals, NEW a, BeginDraftMutation(p, a)
    PROVE  Diff(proposal[p].changes)
<1>1. proposal[p].changes \in SUBSET Change /\ p \in InStatus("draft")
  BY DEF TypeOK, ProposalRow, BeginDraftMutation, OwnDraft, InStatus
<1>2. CASE RebaseStatus(p) = "current"
  BY <1>1, <1>2 DEF RebaseStatus, DraftsAreDiffs
<1>3. CASE RebaseStatus(p) = "automatic"
  <2>1. Replayable(proposal[p].changes)
    BY <1>3 DEF RebaseStatus
  <2> QED BY <1>1, <2>1, ValidIsDiff DEF DraftsAreDiffs
<1> QED BY <1>2, <1>3 DEF BeginDraftMutation

\* A diff that keeps its creations and deletes no more is as good as what is
\* added to it.
LEMMA GrownDiff ==
    ASSUME NEW C \in SUBSET Change, NEW D \in SUBSET Change, Diff(C),
           Created(C) \subseteq Created(D), Deleted(D) \subseteq Deleted(C),
           \A c \in D \ C : DiffOf(c, D)
    PROVE  Diff(D)
<1>1. ResultingUnits(published, C) \subseteq ResultingUnits(published, D)
  BY DEF ResultingUnits
<1>2. ASSUME NEW c \in C, c \in D
      PROVE  DiffOf(c, D)
  <2>1. DiffOf(c, C)
    BY DEF Diff
  <2>2. ASSUME c.kind \in {"create_unit", "rename_unit", "update_content"}, NEW d \in D,
               d.kind = c.kind, d.unit = c.unit
        PROVE  d = c
    <3>1. CASE d \in C
      BY <2>1, <2>2, <3>1 DEF DiffOf
    <3>2. CASE d \notin C
      BY <1>2, <2>2, <3>2 DEF DiffOf
    <3> QED BY <3>1, <3>2
  <2> QED BY <1>1, <2>1, <2>2 DEF DiffOf
<1> QED BY <1>2 DEF Diff

\* Without a unit it has created, and all that refers to it, a diff is a diff.
LEMMA DiffWithoutCreated ==
    ASSUME NEW C \in SUBSET Change, Diff(C), NEW u \in Created(C)
    PROVE  Diff(WithoutCreatedUnit(C, u))
<1> DEFINE D == WithoutCreatedUnit(C, u)
<1>1. D \subseteq C /\ \A c \in D : u \notin ChangeUnits(c)
  BY DEF WithoutCreatedUnit
<1>2. \A x \in Created(C) : x # u => x \in Created(D)
  BY DEF WithoutCreatedUnit, Created, Kind, ChangeUnits
<1>3. Deleted(D) \subseteq Deleted(C)
  BY <1>1 DEF Deleted, Kind
<1>4. \A x \in ResultingUnits(published, C) : x # u => x \in ResultingUnits(published, D)
  BY <1>2, <1>3 DEF ResultingUnits
<1> SUFFICES ASSUME NEW c \in D PROVE DiffOf(c, D)
  BY DEF Diff
<1>5. DiffOf(c, C) /\ c \in Change /\ u \notin ChangeUnits(c)
  BY <1>1 DEF Diff
<1>6. c.kind = "add_dependency" => c.unit # u /\ c.prerequisite # u
  BY <1>5 DEF ChangeUnits
<1>7. c.kind = "recognition" => u \notin c.targets
  BY <1>5 DEF ChangeUnits
<1> HIDE DEF D
<1> QED BY <1>1, <1>3, <1>4, <1>5, <1>6, <1>7 DEF DiffOf

\* What an edit makes of a draft.
Improved(p, D) ==
    /\ D \in SUBSET Change /\ Diff(D)
    /\ proposal' = [proposal EXCEPT ![p].base = head, ![p].changes = D]
    /\ UNCHANGED <<head, published>>
    /\ Created(D) \subseteq UnitsSoFar' /\ UnitsSoFar \subseteq UnitsSoFar'

\* Edits of units leave a diff: the changes of a draft and what it changes.
LEMMA UnitEditsImprove ==
    ASSUME TypeOK, DraftsAreDiffs, NEW p \in Proposals, NEW a \in Authors,
           \/ \E t \in [Field -> Text] : CreateCurriculumUnit(p, a, t)
           \/ \E u \in UnitId, new \in NewTexts :
                 UpdateCreatedUnit(p, a, u, new) \/ UpdatePublishedUnit(p, a, u, new)
    PROVE  \E D : Improved(p, D)
<1> DEFINE C == proposal[p].changes
<1>1. /\ C \in SUBSET Change /\ nextUnit \in 1..(MaxUnit + 1) /\ MaxUnit \in Nat
      /\ Created(C) \subseteq UnitsSoFar /\ published.units \subseteq UnitsSoFar
  BY MaxUnitAssumption DEF TypeOK, ProposalRow, DraftsAreDiffs
<1>2. ASSUME NEW t \in [Field -> Text], CreateCurriculumUnit(p, a, t)
      PROVE  \E D : Improved(p, D)
  <2> DEFINE n == nextUnit
             D == C \cup {Creation(n, t)}
  <2>1. /\ BeginDraftMutation(p, a) /\ n \in UnitId /\ nextUnit' = n + 1
        /\ proposal' = [proposal EXCEPT ![p].base = head, ![p].changes = D]
        /\ UNCHANGED <<head, published>>
    BY <1>1, <1>2 DEF CreateCurriculumUnit, CommitDraft, UnitId
  <2>2. Diff(C)
    BY <2>1, BegunIsDiff
  <2>3. Creation(n, t) \in Change /\ Creation(n, t).kind = "create_unit" /\ Creation(n, t).unit = n
    BY <2>1, ConstructorsAreChanges DEF Creation
  <2>4. Created(D) = Created(C) \cup {n} /\ Deleted(D) = Deleted(C)
    BY <2>3 DEF Created, Deleted, Kind
  <2>5. n \notin published.units /\ UnitsSoFar' = UnitsSoFar \cup {n}
    BY <1>1, <2>1 DEF UnitsSoFar
  <2>6. DiffOf(Creation(n, t), D)
    <3>1. n \notin Created(C)
      BY <1>1 DEF UnitsSoFar
    <3>2. \A d \in C : d.kind = "create_unit" => d.unit # n
      BY <3>1 DEF Created, Kind
    <3> QED BY <2>3, <2>5, <3>2 DEF DiffOf
  <2>7. D \in SUBSET Change
    BY <1>1, <2>3
  <2>8. \A c \in D \ C : DiffOf(c, D)
    BY <2>6
  <2> HIDE DEF D
  <2>9. Diff(D)
    BY <1>1, <2>2, <2>4, <2>7, <2>8, GrownDiff
  <2> QED BY <1>1, <2>1, <2>4, <2>5, <2>7, <2>9 DEF Improved
<1>3. ASSUME NEW u \in UnitId, NEW new \in NewTexts, UpdateCreatedUnit(p, a, u, new)
      PROVE  \E D : Improved(p, D)
  <2> DEFINE text == [f \in Field |-> IF f \in DOMAIN new THEN new[f]
                                      ELSE TextAfter(published, C, f, u)]
             old == CHOOSE c \in Kind(C, "create_unit") : c.unit = u
             edits == EditsOf(C, "name", u) \cup EditsOf(C, "content", u)
             D == (C \ ({old} \cup EditsOf(C, "name", u) \cup EditsOf(C, "content", u)))
                  \cup {Creation(u, text)}
  <2>1. /\ BeginDraftMutation(p, a) /\ u \in Created(C) /\ nextUnit' = nextUnit
        /\ proposal' = [proposal EXCEPT ![p].base = head, ![p].changes = D]
        /\ UNCHANGED <<head, published>>
    BY <1>3 DEF UpdateCreatedUnit, CommitDraft
  <2>2. Diff(C)
    BY <2>1, BegunIsDiff
  <2>3. text \in [Field -> Text]
    BY <1>1, <2>1, NewTextsHaveText, TextOfCreatedUnit
  <2>4. /\ Creation(u, text) \in Change /\ Creation(u, text).kind = "create_unit"
        /\ Creation(u, text).unit = u
    BY <2>3, ConstructorsAreChanges DEF Creation
  <2>5. old \in C /\ old.kind = "create_unit" /\ old.unit = u
    BY <2>1 DEF Created, Kind
  <2>6. \A c \in edits : c.kind # "create_unit" /\ c.kind # "delete_unit"
    BY DEF EditsOf, Kind, EditKind
  <2>7. u \notin published.units
    BY <2>2, <2>5 DEF Diff, DiffOf
  <2> DEFINE x == Creation(u, text)
  <2> HIDE DEF old, x
  <2>8. D = (C \ ({old} \cup edits)) \cup {x}
    BY DEF x
  <2> HIDE DEF edits, D
  <2>9. Created(D) = Created(C)
    BY <2>4, <2>5, <2>6, <2>8 DEF Created, Kind, x
  <2>10. Deleted(D) \subseteq Deleted(C)
    BY <2>4, <2>8 DEF Deleted, Kind, x
  <2>11. DiffOf(x, D)
    <3>1. ASSUME NEW d \in C, d.kind = "create_unit", d.unit = u PROVE d = old
      BY <2>2, <2>5, <3>1 DEF Diff, DiffOf
    <3>2. x.kind = "create_unit" /\ x.unit = u
      BY <2>4 DEF x
    <3> QED BY <2>7, <2>8, <3>1, <3>2 DEF DiffOf
  <2>12. D \in SUBSET Change
    BY <1>1, <2>4, <2>8 DEF x
  <2>13. \A c \in D \ C : DiffOf(c, D)
    BY <2>8, <2>11
  <2>14. Diff(D)
    BY <1>1, <2>2, <2>9, <2>10, <2>12, <2>13, GrownDiff
  <2> QED BY <1>1, <2>1, <2>9, <2>12, <2>14 DEF Improved, UnitsSoFar
<1>4. ASSUME NEW u \in UnitId, NEW new \in NewTexts, UpdatePublishedUnit(p, a, u, new)
      PROVE  \E D : Improved(p, D)
  <2> DEFINE kept == C \ UNION {EditsOf(C, f, u) : f \in DOMAIN new}
             effective == {f \in DOMAIN new : new[f] # published.text[u][f]}
             D == kept \cup {Edit(f, u, new[f]) : f \in effective}
  <2>1. /\ BeginDraftMutation(p, a) /\ u \in published.units /\ u \notin Deleted(C)
        /\ nextUnit' = nextUnit
        /\ proposal' = [proposal EXCEPT ![p].base = head, ![p].changes = D]
        /\ UNCHANGED <<head, published>>
    BY <1>4 DEF UpdatePublishedUnit, CommitDraft
  <2>2. Diff(C)
    BY <2>1, BegunIsDiff
  <2>3. \A f \in effective :
          /\ f \in Field /\ f \in DOMAIN new /\ new[f] # published.text[u][f]
          /\ Edit(f, u, new[f]) \in Change
          /\ Edit(f, u, new[f]).kind = EditKind[f] /\ Edit(f, u, new[f]).unit = u
          /\ Edit(f, u, new[f]).value = new[f]
    BY NewTextsHaveText, ConstructorsAreChanges DEF Edit
  <2>4. \A f \in Field : EditKind[f] \in {"rename_unit", "update_content"}
    BY DEF Field, EditKind
  <2>5. \A f, g \in Field : EditKind[f] = EditKind[g] => f = g
    BY DEF Field, EditKind
  <2>6. \A c \in kept, f \in DOMAIN new : ~(c.kind = EditKind[f] /\ c.unit = u)
    BY DEF EditsOf, Kind
  <2>7. D \in SUBSET Change
    BY <1>1, <2>3
  <2> HIDE DEF kept, effective
  <2>8. Created(D) \subseteq Created(kept) /\ Deleted(D) \subseteq Deleted(kept)
    BY <2>3, <2>4 DEF Created, Deleted, Kind
  <2>9. /\ Created(kept) = Created(C) /\ Deleted(kept) = Deleted(C)
        /\ Created(C) \subseteq Created(D)
    <3>1. kept \subseteq C /\ \A c \in C : c.kind \in {"create_unit", "delete_unit"} => c \in kept
      BY <2>4, NewTextsHaveText DEF kept, EditsOf, Kind
    <3> QED BY <3>1 DEF Created, Deleted, Kind
  <2>10. ASSUME NEW c \in D \ C PROVE DiffOf(c, D)
    <3>1. PICK f \in effective : c = Edit(f, u, new[f])
      BY <2>10 DEF kept
    <3>2. c.kind = EditKind[f] /\ c.unit = u /\ c.value = new[f] /\ f \in Field /\ f \in DOMAIN new
      BY <2>3, <3>1
    <3>3. c.kind \in {"rename_unit", "update_content"}
      BY <2>4, <3>2
    <3>4. ASSUME NEW g \in Field, c.kind = EditKind[g] PROVE c.value # published.text[u][g]
      <4>1. g = f
        BY <2>5, <3>2, <3>4
      <4> QED BY <2>3, <3>2, <4>1
    <3>5. ASSUME NEW d \in D, d.kind = c.kind, d.unit = c.unit PROVE d = c
      <4>1. PICK g \in effective : d = Edit(g, u, new[g])
        BY <2>6, <3>2, <3>5
      <4>2. g = f
        BY <2>3, <2>5, <3>2, <3>5, <4>1
      <4> QED BY <3>1, <4>1, <4>2
    <3>6. c.unit \in published.units /\ c.unit \notin Deleted(D)
      BY <2>1, <2>8, <2>9, <3>2
    <3> QED BY <3>2, <3>3, <3>4, <3>5, <3>6 DEF DiffOf
  <2> HIDE DEF D
  <2>11. Diff(D)
    BY <1>1, <2>2, <2>7, <2>8, <2>9, <2>10, GrownDiff
  <2> QED BY <1>1, <2>1, <2>7, <2>8, <2>9, <2>11 DEF Improved, UnitsSoFar
<1> QED BY <1>2, <1>3, <1>4

\* An edit that issues no identity and declares no unit.
LEMMA CommitImproves ==
    ASSUME TypeOK, DraftsAreDiffs, NEW p \in Proposals, NEW D \in SUBSET Change, Diff(D),
           CommitDraft(p, D), UNCHANGED nextUnit,
           Created(D) \subseteq Created(proposal[p].changes)
    PROVE  \E E : Improved(p, E)
<1>1. Created(D) \subseteq UnitsSoFar' /\ UnitsSoFar \subseteq UnitsSoFar'
  BY DEF DraftsAreDiffs, UnitsSoFar
<1> QED BY <1>1 DEF CommitDraft, Improved

\* So do deletions, of units and of single changes,
LEMMA DeletionsImprove ==
    ASSUME TypeOK, DraftsAreDiffs, NEW p \in Proposals, NEW a \in Authors,
           \/ \E u \in UnitId : DiscardCreatedUnit(p, a, u) \/ DeletePublishedUnit(p, a, u)
           \/ \E c \in proposal[p].changes : DeleteCurriculumProposalChange(p, a, c)
    PROVE  \E D : Improved(p, D)
<1> DEFINE C == proposal[p].changes
<1>1. C \in SUBSET Change
  BY DEF TypeOK, ProposalRow
<1>2. ASSUME NEW u \in Created(C), BeginDraftMutation(p, a),
             CommitDraft(p, WithoutCreatedUnit(C, u)), UNCHANGED nextUnit
      PROVE  \E D : Improved(p, D)
  <2>1. Diff(WithoutCreatedUnit(C, u))
    BY <1>1, <1>2, BegunIsDiff, DiffWithoutCreated
  <2>2. WithoutCreatedUnit(C, u) \subseteq C
    BY DEF WithoutCreatedUnit
  <2>3. Created(WithoutCreatedUnit(C, u)) \subseteq Created(C)
    BY <2>2 DEF Created, Kind
  <2>4. WithoutCreatedUnit(C, u) \in SUBSET Change
    BY <1>1, <2>2
  <2> QED BY <1>2, <2>1, <2>3, <2>4, CommitImproves
<1>3. ASSUME NEW u \in UnitId, DiscardCreatedUnit(p, a, u)
      PROVE  \E D : Improved(p, D)
  BY <1>2, <1>3 DEF DiscardCreatedUnit
<1>4. ASSUME NEW u \in UnitId, DeletePublishedUnit(p, a, u)
      PROVE  \E D : Improved(p, D)
  <2> DEFINE x == Deletion(u)
             kept == C \ SupersededByDeletion(C, u)
             D == kept \cup {x}
  <2>1. /\ BeginDraftMutation(p, a) /\ u \in Working(p).units /\ u \in published.units
        /\ \A d \in Working(p).deps : d[2] # u
        /\ CommitDraft(p, D) /\ UNCHANGED nextUnit
    BY <1>4 DEF DeletePublishedUnit
  <2>2. Diff(C)
    BY <2>1, BegunIsDiff
  <2>3. x \in Change /\ x.kind = "delete_unit" /\ x.unit = u
    BY ConstructorsAreChanges DEF Deletion
  <2>4. \A c \in kept : /\ c \in C
                        /\ c.kind = "recognition" => u \notin c.targets
                        /\ c.kind # "recognition" => c.unit # u
    BY DEF SupersededByDeletion
  <2>5. u \notin Created(C)
    BY <2>1, <2>2 DEF Created, Kind, Diff, DiffOf
  <2>6. \A c \in C : c.kind = "create_unit" => c \in kept
    BY <2>5 DEF SupersededByDeletion, Created, Kind
  <2> HIDE DEF x, kept
  <2>7. D \in SUBSET Change
    BY <1>1, <2>3, <2>4
  <2>8. Created(D) = Created(C) /\ Deleted(D) \subseteq Deleted(C) \cup {u}
    BY <2>3, <2>4, <2>6 DEF Created, Deleted, Kind
  <2>9. \A v \in ResultingUnits(published, C) : v # u => v \in ResultingUnits(published, D)
    BY <2>8 DEF ResultingUnits
  <2>10. ASSUME NEW c \in kept, c.kind = "add_dependency"
         PROVE  c.prerequisite # u
    <3> DEFINE d == <<c.unit, c.prerequisite>>
    <3>1. c \in C /\ {c.unit, c.prerequisite} \subseteq ResultingUnits(published, C)
      BY <2>2, <2>4, <2>10 DEF Diff, DiffOf
    <3>2. d \in EditedDependencies(published, C)
      BY <2>10, <3>1 DEF EditedDependencies, Added, Kind
    <3>3. {d[1], d[2]} \cap Deleted(C) = {}
      BY <3>1 DEF ResultingUnits
    <3>4. d \in Working(p).deps
      BY <3>2, <3>3 DEF Working, WithProposal
    <3> QED BY <2>1, <3>4
  <2>11. ASSUME NEW c \in kept
         PROVE  DiffOf(c, D)
    <3>1. DiffOf(c, C)
      BY <2>2, <2>4 DEF Diff
    <3>2. /\ c.kind \in {"rename_unit", "update_content"} => c.unit \notin Deleted(D)
          /\ c.kind \in {"create_unit", "rename_unit", "update_content"} =>
                \A d \in D : d.kind = c.kind /\ d.unit = c.unit => d = c
      BY <2>3, <2>4, <2>8, <3>1 DEF DiffOf
    <3>3. c.kind = "add_dependency" => {c.unit, c.prerequisite} \subseteq ResultingUnits(published, D)
      BY <2>4, <2>9, <2>10, <3>1 DEF DiffOf
    <3>4. c.kind = "recognition" => c.targets \subseteq ResultingUnits(published, D)
      BY <2>4, <2>9, <3>1 DEF DiffOf
    <3> HIDE DEF D
    <3> QED BY <3>1, <3>2, <3>3, <3>4 DEF DiffOf
  <2>12. DiffOf(x, D)
    BY <2>1, <2>3 DEF DiffOf
  <2>13. Diff(D)
    BY <2>11, <2>12 DEF Diff
  <2> HIDE DEF D
  <2> QED BY <2>1, <2>7, <2>8, <2>13, CommitImproves
<1>5. ASSUME NEW c \in C, DeleteCurriculumProposalChange(p, a, c)
      PROVE  \E D : Improved(p, D)
  <2>1. CASE c.kind = "create_unit"
    <3>1. c.unit \in Created(C)
      BY <2>1 DEF Created, Kind
    <3> QED BY <1>2, <1>5, <2>1, <3>1 DEF DeleteCurriculumProposalChange
  <2>2. CASE c.kind # "create_unit"
    <3> DEFINE D == C \ {c}
    <3>1. BeginDraftMutation(p, a) /\ CommitDraft(p, D) /\ UNCHANGED nextUnit
      BY <1>5, <2>2 DEF DeleteCurriculumProposalChange
    <3>2. Created(D) = Created(C) /\ Deleted(D) \subseteq Deleted(C) /\ D \in SUBSET Change
      BY <1>1, <2>2 DEF Created, Deleted, Kind
    <3>3. Diff(C) /\ D \ C = {}
      BY <3>1, BegunIsDiff
    <3> HIDE DEF D
    <3>4. Diff(D)
      BY <1>1, <3>2, <3>3, GrownDiff
    <3> QED BY <3>1, <3>2, <3>4, CommitImproves
  <2> QED BY <2>1, <2>2
<1> QED BY <1>3, <1>4, <1>5

\* Dependencies and recognitions add at most one change, of units of the
\* working graph.
LEMMA OneMoreChange ==
    ASSUME TypeOK, DraftsAreDiffs, NEW p \in Proposals, NEW a, BeginDraftMutation(p, a),
           NEW kept \in SUBSET proposal[p].changes, NEW new \in SUBSET Change,
           \A c \in proposal[p].changes :
               c.kind \in {"create_unit", "delete_unit"} => c \in kept,
           \A c \in new :
               /\ c.kind \in {"add_dependency", "remove_dependency", "recognition"}
               /\ c.kind = "add_dependency" =>
                     /\ <<c.unit, c.prerequisite>> \notin published.deps
                     /\ {c.unit, c.prerequisite} \subseteq Working(p).units
               /\ c.kind = "remove_dependency" => <<c.unit, c.prerequisite>> \in published.deps
               /\ c.kind = "recognition" => c.targets \subseteq Working(p).units,
           CommitDraft(p, kept \cup new), UNCHANGED nextUnit
    PROVE  \E D : Improved(p, D)
<1> DEFINE C == proposal[p].changes
           D == kept \cup new
<1>1. C \in SUBSET Change /\ D \in SUBSET Change
  BY DEF TypeOK, ProposalRow
<1>2. Diff(C)
  BY BegunIsDiff
<1>3. Created(D) = Created(C) /\ Deleted(D) = Deleted(C)
  BY DEF Created, Deleted, Kind
<1>4. Working(p).units = ResultingUnits(published, D)
  BY <1>3 DEF Working, WithProposal, ResultingUnits
<1>5. ASSUME NEW c \in new
      PROVE  DiffOf(c, D)
  BY <1>4 DEF DiffOf
<1>6. \A c \in D \ C : DiffOf(c, D)
  BY <1>5
<1>7. CommitDraft(p, D)
  OBVIOUS
<1> HIDE DEF D
<1>8. Diff(D)
  BY <1>1, <1>2, <1>3, <1>6, GrownDiff
<1> QED BY <1>1, <1>3, <1>7, <1>8, CommitImproves

\* and dependencies and recognitions.
LEMMA RelationsImprove ==
    ASSUME TypeOK, DraftsAreDiffs, NEW p \in Proposals, NEW a \in Authors,
           \/ \E u, q \in UnitId : \/ AddUnitDependency(p, a, u, q)
                                 \/ RemoveUnitDependency(p, a, u, q)
                                 \/ KeepUnitDependency(p, a, u, q)
           \/ \E A, B \in SUBSET UnitId : \/ AddCurriculumRecognition(p, a, A, B)
                                        \/ EnsureCurriculumRecognition(p, a, A, B)
    PROVE  \E D : Improved(p, D)
<1> DEFINE C == proposal[p].changes
<1>1. ASSUME BeginDraftMutation(p, a), CommitDraft(p, C), UNCHANGED nextUnit
      PROVE  \E D : Improved(p, D)
  <2>1. Diff(C) /\ C \in SUBSET Change
    BY <1>1, BegunIsDiff DEF TypeOK, ProposalRow
  <2> QED BY <1>1, <2>1, CommitImproves
<1>2. ASSUME NEW u \in UnitId, NEW q \in UnitId, AddUnitDependency(p, a, u, q)
      PROVE  \E D : Improved(p, D)
  <2> DEFINE kept == C \ DependencyChanges(C, u, q)
             new == IF <<u, q>> \in published.deps THEN {} ELSE {Addition(u, q)}
  <2>1. /\ BeginDraftMutation(p, a) /\ {u, q} \subseteq Working(p).units
        /\ CommitDraft(p, kept \cup new) /\ UNCHANGED nextUnit
    BY <1>2 DEF AddUnitDependency
  <2>2. /\ Addition(u, q) \in Change /\ Addition(u, q).kind = "add_dependency"
        /\ Addition(u, q).unit = u /\ Addition(u, q).prerequisite = q
    BY ConstructorsAreChanges DEF Addition
  <2>3. \A c \in C : c.kind \in {"create_unit", "delete_unit"} => c \in kept
    BY DEF DependencyChanges
  <2>4. /\ new \in SUBSET Change
        /\ \A c \in new : /\ c.kind = "add_dependency"
                          /\ <<c.unit, c.prerequisite>> \notin published.deps
                          /\ {c.unit, c.prerequisite} \subseteq Working(p).units
    BY <2>1, <2>2
  <2>5. kept \in SUBSET C
    OBVIOUS
  <2> HIDE DEF kept, new
  <2> QED BY <2>1, <2>2, <2>3, <2>4, <2>5, OneMoreChange
<1>3. ASSUME NEW u \in UnitId, NEW q \in UnitId, RemoveUnitDependency(p, a, u, q)
      PROVE  \E D : Improved(p, D)
  <2> DEFINE kept == C \ DependencyChanges(C, u, q)
             new == IF <<u, q>> \in published.deps THEN {Removal(u, q)} ELSE {}
  <2>1. /\ BeginDraftMutation(p, a)
        /\ CommitDraft(p, kept \cup new) /\ UNCHANGED nextUnit
    BY <1>3 DEF RemoveUnitDependency
  <2>2. /\ Removal(u, q) \in Change /\ Removal(u, q).kind = "remove_dependency"
        /\ Removal(u, q).unit = u /\ Removal(u, q).prerequisite = q
    BY ConstructorsAreChanges DEF Removal
  <2>3. \A c \in C : c.kind \in {"create_unit", "delete_unit"} => c \in kept
    BY DEF DependencyChanges
  <2>4. /\ new \in SUBSET Change
        /\ \A c \in new : /\ c.kind = "remove_dependency"
                          /\ <<c.unit, c.prerequisite>> \in published.deps
    BY <2>2
  <2>5. kept \in SUBSET C
    OBVIOUS
  <2> HIDE DEF kept, new
  <2> QED BY <2>1, <2>2, <2>3, <2>4, <2>5, OneMoreChange
<1>4. ASSUME NEW u \in UnitId, NEW q \in UnitId, KeepUnitDependency(p, a, u, q)
      PROVE  \E D : Improved(p, D)
  BY <1>1, <1>4 DEF KeepUnitDependency
<1>5. ASSUME NEW A \in SUBSET UnitId, NEW B \in SUBSET UnitId, AddCurriculumRecognition(p, a, A, B)
      PROVE  \E D : Improved(p, D)
  <2>1. PICK n \in 1..MaxCopies : CommitDraft(p, C \cup {Recognition(A, B, n)})
    BY <1>5 DEF AddCurriculumRecognition
  <2>2. BeginDraftMutation(p, a) /\ B \subseteq Working(p).units /\ UNCHANGED nextUnit
    BY <1>5 DEF AddCurriculumRecognition
  <2> DEFINE x == Recognition(A, B, n)
  <2>3. x \in Change /\ x.kind = "recognition" /\ x.targets = B
    BY ConstructorsAreChanges, BoundsAssumption DEF Recognition
  <2> HIDE DEF x
  <2>4. CommitDraft(p, C \cup {x})
    BY <2>1 DEF x
  <2> DEFINE new == {x}
  <2>5. C \in SUBSET C /\ new \in SUBSET Change
    BY <2>3
  <2>6. \A c \in new : c.kind = "recognition" /\ c.targets \subseteq Working(p).units
    BY <2>2, <2>3
  <2>7. CommitDraft(p, C \cup new)
    BY <2>4
  <2> HIDE DEF new
  <2> QED BY <2>2, <2>5, <2>6, <2>7, OneMoreChange
<1>6. ASSUME NEW A \in SUBSET UnitId, NEW B \in SUBSET UnitId, EnsureCurriculumRecognition(p, a, A, B)
      PROVE  \E D : Improved(p, D)
  BY <1>1, <1>5, <1>6 DEF EnsureCurriculumRecognition
<1> QED BY <1>2, <1>3, <1>4, <1>5, <1>6

\* Hence any edit.
LEMMA EditImproves ==
    ASSUME TypeOK, DraftsAreDiffs, NEW p \in Proposals, NEW a \in Authors, AnyEdit(p, a)
    PROVE  \E D : Improved(p, D)
BY UnitEditsImprove, DeletionsImprove, RelationsImprove DEF AnyEdit

\* A review leaves the draft empty or valid, and edits no unit it creates.
LEMMA RebaseImproves ==
    ASSUME TypeOK, DraftsAreDiffs, NEW p \in Proposals, NEW a \in Authors, AnyRebase(p, a)
    PROVE  \E D : Improved(p, D)
<1> DEFINE C == proposal[p].changes
<1>1. C \in SUBSET Change
  BY DEF TypeOK, ProposalRow
<1>2. ASSUME NEW D \in SUBSET Change, proposal[p].status = "draft", CommitDraft(p, D),
             UNCHANGED nextUnit, Replayable(D), Created(D) \subseteq Created(C),
             \A d \in D : d.kind \in {"rename_unit", "update_content"} =>
                 \E c \in C : c.kind \in {"rename_unit", "update_content"} /\ c.unit = d.unit
      PROVE  \E E : Improved(p, E)
  <2>1. Separate(C)
    BY <1>2 DEF DraftsAreDiffs, InStatus
  <2>2. Separate(D)
    BY <1>2, <2>1 DEF Separate
  <2>3. Diff(D)
    BY <1>2, <2>2, ValidIsDiff
  <2> QED BY <1>2, <2>3, CommitImproves
<1>3. ASSUME proposal[p].status = "draft", RebaseStatus(p) = "automatic", CommitDraft(p, C),
             UNCHANGED nextUnit
      PROVE  \E E : Improved(p, E)
  <2>1. Replayable(C)
    BY <1>3 DEF RebaseStatus
  <2> QED BY <1>1, <1>2, <1>3, <2>1
<1>4. CASE TryAutoRebaseCurriculumProposal(p)
  BY <1>3, <1>4 DEF TryAutoRebaseCurriculumProposal
<1>5. ASSUME NEW drop, NEW edited, NEW merged \in [edited -> Text],
             ResolveCurriculumProposalRebase(p, a, drop, merged)
      PROVE  \E E : Improved(p, E)
  <2> DEFINE D == Resolved(p, drop, merged)
             M == {IF c \in DOMAIN merged THEN Edit("content", c.unit, merged[c]) ELSE c :
                      c \in C \ drop}
  <2>1. proposal[p].status = "draft" /\ UNCHANGED nextUnit
    BY <1>5 DEF ResolveCurriculumProposalRebase, OwnDraft
  <2>2. CASE RebaseStatus(p) = "automatic" /\ CommitDraft(p, C)
    BY <1>3, <2>1, <2>2
  <2>3. CASE /\ edited \subseteq Kind(Conflicts(p) \ drop, "update_content")
             /\ Replayable(D) /\ CommitDraft(p, D)
    <3>1. D \subseteq M
      BY DEF Resolved, Normalized
    <3>2. Conflicts(p) \subseteq C
      BY DEF Conflicts, Overlapping
    <3>3. \A c \in edited : c \in C /\ c.kind = "update_content" /\ c.unit \in UnitId
      BY <1>1, <2>3, <3>2 DEF Kind, Change
    <3>4. \A c \in edited : /\ Edit("content", c.unit, merged[c]) \in Change
                           /\ Edit("content", c.unit, merged[c]).kind = "update_content"
                           /\ Edit("content", c.unit, merged[c]).unit = c.unit
      BY <3>3, ConstructorsAreChanges DEF Field, Edit, EditKind
    <3>5. ASSUME NEW d \in M
          PROVE  /\ d \in Change
                 /\ d \notin C =>
                      /\ d.kind = "update_content"
                      /\ \E c \in C : c.kind = "update_content" /\ c.unit = d.unit
      <4>1. PICK c \in C \ drop :
              d = IF c \in DOMAIN merged THEN Edit("content", c.unit, merged[c]) ELSE c
        OBVIOUS
      <4>2. CASE c \in edited
        BY <3>3, <3>4, <4>1, <4>2
      <4>3. CASE c \notin edited
        BY <1>1, <4>1, <4>3
      <4> QED BY <4>2, <4>3
    <3> HIDE DEF D, M
    <3>6. Created(D) \subseteq Created(C)
      BY <3>1, <3>5 DEF Created, Kind
    <3>7. D \in SUBSET Change
      BY <3>1, <3>5
    <3>8. \A d \in D : d.kind \in {"rename_unit", "update_content"} =>
             \E c \in C : c.kind \in {"rename_unit", "update_content"} /\ c.unit = d.unit
      BY <3>1, <3>5
    <3> QED BY <1>2, <2>1, <2>3, <3>6, <3>7, <3>8
  <2> QED BY <1>5, <2>2, <2>3 DEF ResolveCurriculumProposalRebase
<1> QED BY <1>4, <1>5 DEF AnyRebase

\* The invariant of drafts, initially, when a draft is improved and at any step.
LEMMA DiffInit == Init => DraftsAreDiffs
<1> SUFFICES ASSUME Init PROVE DraftsAreDiffs
  OBVIOUS
<1>1. TypeOK
  BY TypeInit
<1>2. \A p \in Proposals : \/ proposal[p].changes = {} /\ proposal[p].status = "unused"
                           \/ proposal[p].changes = Seed /\ proposal[p].status = "accepted"
  BY DEF Init, Unused
<1>3. Created(Seed) \subseteq UnitsSoFar
  BY SeedAssumption, CreatedBySeed DEF Init, UnitsSoFar
<1>4. Created({}) = {}
  BY DEF Created, Kind
<1>5. published.units \subseteq Created(Seed)
  BY DEF Init, WithProposal, ResultingUnits, EmptyGraph
<1>6. InStatus("draft") = {}
  BY <1>2 DEF InStatus
<1> QED BY <1>2, <1>3, <1>4, <1>5, <1>6 DEF DraftsAreDiffs

\* A proposal that is no draft, or an empty one, takes nothing from the drafts.
LEMMA OtherStep ==
    ASSUME TypeOK, DraftsAreDiffs, UNCHANGED <<head, published, nextUnit>>, NEW p \in Proposals,
           \A q \in Proposals \ {p} : proposal'[q] = proposal[q],
           \/ proposal'[p].changes = {}
           \/ proposal'[p].changes = proposal[p].changes /\ proposal'[p].status # "draft"
    PROVE  DraftsAreDiffs'
<1>1. UnitsSoFar' = UnitsSoFar
  BY DEF UnitsSoFar
<1>2. \A C : Diff(C)' = Diff(C) /\ Separate(C)' = Separate(C)
  BY <1>1 DEF Diff, DiffOf, Separate
<1>3. Created({}) = {} /\ Diff({}) /\ Separate({})
  BY DEF Created, Kind, Diff, Separate
<1>4. ASSUME NEW q \in InStatus("draft")'
      PROVE  /\ Separate(proposal'[q].changes)
             /\ proposal'[q].base = head => Diff(proposal'[q].changes)
  BY <1>3, <1>4 DEF DraftsAreDiffs, InStatus
<1> QED BY <1>1, <1>2, <1>3, <1>4 DEF DraftsAreDiffs

LEMMA ImprovedStep ==
    ASSUME TypeOK, DraftsAreDiffs, NEW p \in Proposals, NEW D, Improved(p, D)
    PROVE  DraftsAreDiffs'
<1>1. /\ proposal'[p].changes = D
      /\ \A q \in Proposals \ {p} : proposal'[q] = proposal[q]
  BY DEF Improved, TypeOK, ProposalRow
<1>2. /\ UNCHANGED <<head, published>> /\ Diff(D) /\ Created(D) \subseteq UnitsSoFar'
      /\ UnitsSoFar \subseteq UnitsSoFar'
  BY DEF Improved
<1>3. \A C : Diff(C)' = Diff(C)
  BY <1>2 DEF Diff, DiffOf
<1>4. Separate(D)'
  <2> SUFFICES ASSUME NEW c \in D, c.kind \in {"rename_unit", "update_content"}
               PROVE  c.unit \in UnitsSoFar' /\ c.unit \notin Created(D)
    BY DEF Separate
  <2>1. c.unit \in published.units
    BY <1>2 DEF Diff, DiffOf
  <2>2. c.unit \notin Created(D)
    BY <1>2, <2>1 DEF Created, Kind, Diff, DiffOf
  <2> QED BY <1>2, <2>1, <2>2 DEF DraftsAreDiffs
<1>5. \A C : Separate(C) => Separate(C)'
  BY <1>2 DEF Separate
<1>6. ASSUME NEW q \in InStatus("draft")'
      PROVE  /\ Separate(proposal[q].changes)'
             /\ proposal'[q].base = head' => Diff(proposal[q].changes)'
  <2>1. CASE q = p
    BY <1>1, <1>2, <1>3, <1>4, <2>1
  <2>2. CASE q # p
    BY <1>1, <1>2, <1>3, <1>5, <1>6, <2>2 DEF DraftsAreDiffs, InStatus
  <2> QED BY <2>1, <2>2
<1> QED BY <1>1, <1>2, <1>6 DEF DraftsAreDiffs

LEMMA DiffOperation == IInv /\ DraftsAreDiffs /\ [Operation]_vars => DraftsAreDiffs'
<1> SUFFICES ASSUME IInv, DraftsAreDiffs, [Operation]_vars PROVE DraftsAreDiffs'
  OBVIOUS
<1>0. TypeOK
  BY DEF IInv
<1>1. CASE UNCHANGED vars
  BY <1>1 DEF vars, DraftsAreDiffs, InStatus, Separate, UnitsSoFar, Diff, DiffOf
<1>2. ASSUME NEW p \in Proposals, NEW a \in Authors,
             CreateCurriculumProposal(p, a) \/ DeleteCurriculumProposal(p, a)
      PROVE  DraftsAreDiffs'
  BY <1>0, <1>2, OtherStep DEF CreateCurriculumProposal, DeleteCurriculumProposal, Unused, TypeOK
<1>3. ASSUME NEW p \in Proposals, NEW a \in Authors, AnyEdit(p, a) \/ AnyRebase(p, a)
      PROVE  DraftsAreDiffs'
  BY <1>0, <1>3, EditImproves, RebaseImproves, ImprovedStep
<1>4. ASSUME NEW p \in Proposals, NEW a \in Authors,
             SubmitCurriculumProposal(p, a) \/ RejectCurriculumProposal(p)
      PROVE  DraftsAreDiffs'
  <2>1. /\ proposal'[p].status # "draft" /\ proposal'[p].changes = proposal[p].changes
        /\ \A q \in Proposals \ {p} : proposal'[q] = proposal[q]
    BY <1>0, <1>4 DEF SubmitCurriculumProposal, RejectCurriculumProposal, TypeOK, ProposalRow
  <2> QED BY <1>0, <1>4, <2>1, OtherStep DEF SubmitCurriculumProposal, RejectCurriculumProposal
<1>5. ASSUME NEW p \in Proposals, AcceptCurriculumProposal(p)
      PROVE  DraftsAreDiffs'
  <2>1. /\ head' = p /\ proposal[p].status = "submitted" /\ UNCHANGED nextUnit
        /\ published' = WithProposal(published, proposal[p].changes)
        /\ proposal'[p].status = "accepted" /\ proposal'[p].changes = proposal[p].changes
        /\ \A q \in Proposals \ {p} : proposal'[q] = proposal[q]
    BY <1>0, <1>5 DEF AcceptCurriculumProposal, TypeOK, ProposalRow
  <2>2. \A q \in Proposals : proposal[q].base # p
    BY <2>1, NoneAssumption DEF IInv, Anchored, InStatus
  <2>3. published'.units \subseteq UnitsSoFar
    BY <2>1 DEF WithProposal, ResultingUnits, DraftsAreDiffs
  <2>4. UnitsSoFar' = UnitsSoFar /\ \A C : Separate(C)' = Separate(C)
    BY <2>1 DEF UnitsSoFar, Separate
  <2>5. \A q \in InStatus("draft")' : q # p /\ q \in InStatus("draft") /\ proposal'[q] = proposal[q]
    BY <2>1 DEF InStatus
  <2>6. \A q \in Proposals : proposal'[q].changes = proposal[q].changes
    BY <2>1
  <2>7. \A q \in InStatus("draft")' : Separate(proposal[q].changes)' /\ proposal'[q].base # head'
    BY <2>1, <2>2, <2>4, <2>5 DEF DraftsAreDiffs, InStatus
  <2> QED BY <2>3, <2>4, <2>6, <2>7 DEF DraftsAreDiffs
<1> QED BY <1>1, <1>2, <1>3, <1>4, <1>5, ProposalsAssumption DEF Operation

\* A diff names no dependency twice and changes nothing that is so already.
LEMMA DraftsOfDiffs == TypeOK /\ DraftsAreDiffs => DraftIsNormalizedDiff
<1> SUFFICES ASSUME TypeOK, DraftsAreDiffs, NEW p \in InStatus("draft"), proposal[p].base = head
             PROVE  Diff(proposal[p].changes) /\ proposal[p].changes \in SUBSET Change
  BY DiffsAreNormalized DEF DraftIsNormalizedDiff
<1> QED BY DEF DraftsAreDiffs, InStatus, TypeOK, ProposalRow

\* A current draft declares nothing the published curriculum already has and at
\* most one thing about each part of it, however edits, deletions, reversals and
\* rebases were interleaved.
THEOREM DraftsStayNormalized == Spec => []DraftIsNormalizedDiff
<1>1. IInv /\ DraftsAreDiffs /\ [Next]_vars => DraftsAreDiffs'
  BY DiffOperation, BoundsOnlyLimit
<1> QED BY <1>1, DiffInit, DraftsOfDiffs, Invariance, TypeCorrect, PTL DEF Spec

================================================================================
