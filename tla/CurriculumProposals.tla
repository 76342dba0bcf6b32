-------------------------- MODULE CurriculumProposals --------------------------
(***************************************************************************)
(* The life of curriculum proposals: drafting, rebasing, submission,       *)
(* review and publication (internal/services/curriculum*.go over           *)
(* internal/db/proposals.go and internal/db/curriculum_projection.go).     *)
(*                                                                         *)
(* An action is one committed transaction.  Draft mutations hold the       *)
(* projection row shared and their proposal row exclusively, publication   *)
(* holds both exclusively; that this locking makes the transactions atomic *)
(* is the subject of PublicationLocking, not assumed anywhere else.        *)
(* Transactions that roll back change nothing and are not actions.         *)
(*                                                                         *)
(* A proposal's identity and the identities of changes are opaque here: an *)
(* "unused" identity stands for one the sequence has not issued yet, and a *)
(* deleted draft returns its identity to that pool, since nothing can      *)
(* refer to it any more.  Unit identities do matter (deletions are         *)
(* replayed in their order) and are issued in increasing order, once.      *)
(***************************************************************************)
EXTENDS CurriculumGraph

CONSTANTS Proposals,   \* proposal identities
          Authors,     \* contributors
          None,        \* SQL NULL, as a base or as the projection head
          Seed,        \* changes of an already accepted first proposal, or {}
          MaxChanges,  \* bound: changes in one draft
          MaxCopies,   \* bound: identical recognitions in one draft
          Calls        \* bound: the operations clients call in an instance

AllCalls ==
    {"create_unit", "update_fields", "delete_unit", "set_dependency",
     "delete_change", "recognition", "ensure_recognition", "auto_rebase",
     "resolve", "delete_proposal", "reject"}

ASSUME MaxUnitAssumption == MaxUnit \in Nat
ASSUME NoneAssumption == None \notin Proposals
ASSUME ProposalsAssumption == Proposals # {} /\ Authors # {}
ASSUME SeedAssumption ==
    /\ Seed \in SUBSET Change
    /\ Seed # {} => ValidProposal(EmptyGraph, Seed)
    /\ Created(Seed) = 1..Cardinality(Created(Seed))
    /\ IsGraph(WithProposal(EmptyGraph, Seed))
ASSUME BoundsAssumption ==
    MaxChanges \in Nat /\ MaxCopies \in Nat /\ Calls \subseteq AllCalls

VARIABLES
    head,        \* curriculum_projection_state.proposal_id
    published,   \* units and unit_dependencies
    proposal,    \* curriculum_proposals with their authors and changes
    nextUnit     \* next identity of the change sequence a creation receives

vars == <<head, published, proposal, nextUnit>>

Unused == [status |-> "unused", base |-> None, author |-> None, changes |-> {}]

ProposalRow ==
    [status  : {"unused", "draft", "submitted", "accepted", "rejected"},
     base    : Proposals \cup {None},
     author  : Authors \cup {None},
     changes : SUBSET Change]

TypeOK ==
    /\ head \in Proposals \cup {None}
    /\ IsGraph(published)
    /\ proposal \in [Proposals -> ProposalRow]
    /\ nextUnit \in 1..(MaxUnit + 1)

\* A fresh installation, or one that has accepted a first proposal.
Init ==
    /\ published = WithProposal(EmptyGraph, Seed)
    /\ nextUnit = Cardinality(Created(Seed)) + 1
    /\ IF Seed = {}
       THEN /\ head = None
            /\ proposal = [p \in Proposals |-> Unused]
       ELSE \E g \in Proposals, a \in Authors :
            /\ head = g
            /\ proposal = [p \in Proposals |->
                   IF p = g
                   THEN [status |-> "accepted", base |-> None, author |-> a,
                         changes |-> Seed]
                   ELSE Unused]

--------------------------------------------------------------------------------
(***************************************************************************)
(* Lineage and rebase planning.                                            *)
(***************************************************************************)
InStatus(s) == {p \in Proposals : proposal[p].status = s}

\* q and the proposals behind it along their bases.
Lineage(q) ==
    {p \in Proposals :
        \A S \in SUBSET Proposals :
            /\ q \in Proposals => q \in S
            /\ \A x \in S : proposal[x].base \in S \cup {None}
            => p \in S}

\* acceptedCurriculumProposalsSince: what was published after the base b.
AcceptedSince(b) == Lineage(head) \ Lineage(b)

UpstreamUnits(p) ==
    UNION {ChangeUnits(c) :
              c \in UNION {proposal[q].changes :
                              q \in AcceptedSince(proposal[p].base)}}

\* The draft's changes that affect a unit the accepted work affects too.
Overlapping(p) ==
    LET upstream == UpstreamUnits(p)
    IN {c \in proposal[p].changes : ChangeUnits(c) \cap upstream # {}}

Replayable(C) == C = {} \/ ValidProposal(published, C)

\* Mutant: overlapping work is ignored when the replay is valid.
RebaseStatusIgnoringOverlap(p) ==
    IF proposal[p].base = head THEN "current"
    ELSE IF Replayable(proposal[p].changes) THEN "automatic" ELSE "needs_review"

\* planCurriculumProposalRebase: the status of the plan ...
RebaseStatus(p) ==
    IF proposal[p].base = head THEN "current"
    ELSE IF Overlapping(p) = {} /\ Replayable(proposal[p].changes)
         THEN "automatic" ELSE "needs_review"

\* ... and the conflicts it asks the author to resolve.
Conflicts(p) ==
    IF Overlapping(p) # {} THEN Overlapping(p) ELSE proposal[p].changes

OnLineage(p) == proposal[p].base \in Lineage(head) \cup {None}

--------------------------------------------------------------------------------
(***************************************************************************)
(* Draft editing.                                                          *)
(***************************************************************************)
\* Mutant: the status of the draft is not checked.
OwnDraftOfAnyStatus(p, a) ==
    proposal[p].status \in {"draft", "submitted"} /\ proposal[p].author = a

OwnDraft(p, a) == proposal[p].status = "draft" /\ proposal[p].author = a

\* beginDraftMutation: the draft is its author's and is current, or its base
\* can be moved to the head without review.
BeginDraftMutation(p, a) ==
    /\ OwnDraft(p, a)
    /\ OnLineage(p)
    /\ RebaseStatus(p) \in {"current", "automatic"}

\* Commit the mutation together with the base its transaction moved.
CommitDraft(p, C) ==
    /\ proposal' = [proposal EXCEPT ![p].base = head, ![p].changes = C]
    /\ UNCHANGED <<head, published>>

Room(C) == Cardinality(C) <= MaxChanges

Working(p) == WithProposal(published, proposal[p].changes)

CreateCurriculumProposal(p, a) ==
    /\ proposal[p].status = "unused"
    /\ proposal' = [proposal EXCEPT ![p] =
           [status |-> "draft", base |-> head, author |-> a, changes |-> {}]]
    /\ UNCHANGED <<head, published, nextUnit>>

\* Needs neither a current base nor the projection lock.
DeleteCurriculumProposal(p, a) ==
    /\ OwnDraft(p, a)
    /\ proposal' = [proposal EXCEPT ![p] = Unused]
    /\ UNCHANGED <<head, published, nextUnit>>

CreateCurriculumUnit(p, a, t) ==
    /\ BeginDraftMutation(p, a)
    /\ nextUnit <= MaxUnit
    /\ LET C == proposal[p].changes \cup {Creation(nextUnit, t)}
       IN Room(C) /\ CommitDraft(p, C)
    /\ nextUnit' = nextUnit + 1

\* The fields given in new replace those of u: in its creation when the draft
\* created it, as rename and content changes over the published row otherwise.
UpdateCreatedUnit(p, a, u, new) ==
    LET C == proposal[p].changes IN
    /\ BeginDraftMutation(p, a)
    /\ u \in Created(C) \ Deleted(C)
    /\ LET old == CHOOSE c \in Kind(C, "create_unit") : c.unit = u
           text == [f \in Field |->
                       IF f \in DOMAIN new THEN new[f]
                       ELSE TextAfter(published, C, f, u)]
       IN CommitDraft(p, (C \ ({old} \cup EditsOf(C, "name", u)
                                     \cup EditsOf(C, "content", u)))
                         \cup {Creation(u, text)})
    /\ UNCHANGED nextUnit

\* Mutant: the new edits do not replace the earlier ones.
UpdatePublishedUnitTwice(p, a, u, new) ==
    LET C == proposal[p].changes
        effective == {f \in DOMAIN new : new[f] # published.text[u][f]}
        edited == C \cup {Edit(f, u, new[f]) : f \in effective}
    IN /\ BeginDraftMutation(p, a)
       /\ u \in published.units \ (Created(C) \cup Deleted(C))
       /\ Room(edited)
       /\ CommitDraft(p, edited)
       /\ UNCHANGED nextUnit

UpdatePublishedUnit(p, a, u, new) ==
    LET C == proposal[p].changes
        kept == C \ UNION {EditsOf(C, f, u) : f \in DOMAIN new}
        effective == {f \in DOMAIN new : new[f] # published.text[u][f]}
        edited == kept \cup {Edit(f, u, new[f]) : f \in effective}
    IN /\ BeginDraftMutation(p, a)
       /\ u \in published.units \ (Created(C) \cup Deleted(C))
       /\ Room(edited)
       /\ CommitDraft(p, edited)
       /\ UNCHANGED nextUnit

\* deleteDraftCreatedUnit
WithoutCreatedUnit(C, u) == {c \in C : u \notin ChangeUnits(c)}

DiscardCreatedUnit(p, a, u) ==
    /\ BeginDraftMutation(p, a)
    /\ u \in Created(proposal[p].changes)
    /\ CommitDraft(p, WithoutCreatedUnit(proposal[p].changes, u))
    /\ UNCHANGED nextUnit

\* Mutant: recognitions of the deleted unit stay in the draft.
SupersededKeepingTargets(C, u) ==
    {c \in C : c.kind # "recognition" /\ c.unit = u}

\* The draft's changes that the deletion of the published unit u replaces.
SupersededByDeletion(C, u) ==
    {c \in C : IF c.kind = "recognition" THEN u \in c.targets ELSE c.unit = u}

DeletePublishedUnit(p, a, u) ==
    LET C == proposal[p].changes
        replaced == (C \ SupersededByDeletion(C, u)) \cup {Deletion(u)}
    IN /\ BeginDraftMutation(p, a)
       /\ u \in Working(p).units
       /\ \A d \in Working(p).deps : d[2] # u
       /\ u \in published.units
       /\ Room(replaced)
       /\ CommitDraft(p, replaced)
       /\ UNCHANGED nextUnit

\* setUnitDependency, when the working graph is not yet as desired.
DependencyChanges(C, u, q) ==
    {c \in C : /\ c.kind \in {"add_dependency", "remove_dependency"}
               /\ c.unit = u /\ c.prerequisite = q}

AddUnitDependency(p, a, u, q) ==
    LET C == proposal[p].changes
        others == C \ DependencyChanges(C, u, q)
        recorded == IF <<u, q>> \in published.deps THEN {} ELSE {Addition(u, q)}
    IN /\ BeginDraftMutation(p, a)
       /\ u # q
       /\ {u, q} \subseteq Working(p).units
       /\ <<u, q>> \notin Working(p).deps
       /\ ~CreatesCycle(Working(p).deps, u, q)
       /\ Room(others \cup recorded)
       /\ CommitDraft(p, others \cup recorded)
       /\ UNCHANGED nextUnit

RemoveUnitDependency(p, a, u, q) ==
    LET C == proposal[p].changes
        others == C \ DependencyChanges(C, u, q)
        recorded == IF <<u, q>> \in published.deps THEN {Removal(u, q)} ELSE {}
    IN /\ BeginDraftMutation(p, a)
       /\ {u, q} \subseteq Working(p).units
       /\ <<u, q>> \in Working(p).deps
       /\ Room(others \cup recorded)
       /\ CommitDraft(p, others \cup recorded)
       /\ UNCHANGED nextUnit

\* The dependency is already as desired: the base still moves.
KeepUnitDependency(p, a, u, q) ==
    /\ BeginDraftMutation(p, a)
    /\ {u, q} \subseteq Working(p).units
    /\ CommitDraft(p, proposal[p].changes)
    /\ UNCHANGED nextUnit

DeleteCurriculumProposalChange(p, a, c) ==
    /\ BeginDraftMutation(p, a)
    /\ c \in proposal[p].changes
    /\ CommitDraft(p, IF c.kind = "create_unit"
                      THEN WithoutCreatedUnit(proposal[p].changes, c.unit)
                      ELSE proposal[p].changes \ {c})
    /\ UNCHANGED nextUnit

Copies(C, S, T) ==
    {c \in Kind(C, "recognition") : c.sources = S /\ c.targets = T}

\* Adds a recognition even when the draft already has an equal one.
AddCurriculumRecognition(p, a, S, T) ==
    LET C == proposal[p].changes
        fresh == {n \in 1..MaxCopies : Recognition(S, T, n) \notin C}
    IN /\ S # {} /\ T # {}
       /\ BeginDraftMutation(p, a)
       /\ S \subseteq published.units
       /\ T \subseteq Working(p).units
       /\ \E n \in fresh :
              /\ \A k \in fresh : n <= k
              /\ Room(C \cup {Recognition(S, T, n)})
              /\ CommitDraft(p, C \cup {Recognition(S, T, n)})
       /\ UNCHANGED nextUnit

EnsureCurriculumRecognition(p, a, S, T) ==
    \/ /\ S # {} /\ T # {}
       /\ BeginDraftMutation(p, a)
       /\ Copies(proposal[p].changes, S, T) # {}
       /\ CommitDraft(p, proposal[p].changes)
       /\ UNCHANGED nextUnit
    \/ /\ Copies(proposal[p].changes, S, T) = {}
       /\ AddCurriculumRecognition(p, a, S, T)

--------------------------------------------------------------------------------
(***************************************************************************)
(* Rebasing.                                                               *)
(***************************************************************************)
TryAutoRebaseCurriculumProposal(p) ==
    /\ proposal[p].status = "draft"
    /\ OnLineage(p)
    /\ RebaseStatus(p) = "automatic"
    /\ CommitDraft(p, proposal[p].changes)
    /\ UNCHANGED nextUnit

\* A change that asks for what the published curriculum already has.
AlreadyPublished(c, C) ==
    \/ /\ c \in Edits(C)
       /\ c.unit \in published.units \ Created(C)
       /\ \E f \in Field : /\ c.kind = EditKind[f]
                           /\ c.value = published.text[c.unit][f]
    \/ c.kind = "add_dependency" /\ <<c.unit, c.prerequisite>> \in published.deps
    \/ c.kind = "remove_dependency" /\ <<c.unit, c.prerequisite>> \notin published.deps

\* normalizeProposalForRebase
Normalized(C) == {c \in C : ~AlreadyPublished(c, C)}

\* What the author's answers make of the draft: drop removes a conflict, merged
\* gives the content a conflicting content change is edited to.
Resolved(p, drop, merged) ==
    Normalized({IF c \in DOMAIN merged THEN Edit("content", c.unit, merged[c]) ELSE c :
                   c \in proposal[p].changes \ drop})

\* Mutant: the resolved draft is not validated as a whole.
ResolveWithoutValidation(p, a, drop, merged) ==
    /\ OwnDraft(p, a)
    /\ RebaseStatus(p) = "needs_review"
    /\ drop \subseteq Conflicts(p)
    /\ DOMAIN merged \subseteq Kind(Conflicts(p) \ drop, "update_content")
    /\ CommitDraft(p, Resolved(p, drop, merged))
    /\ UNCHANGED nextUnit

ResolveCurriculumProposalRebase(p, a, drop, merged) ==
    /\ OwnDraft(p, a)
    /\ OnLineage(p)
    /\ \/ /\ RebaseStatus(p) = "automatic"
          /\ CommitDraft(p, proposal[p].changes)
       \/ /\ RebaseStatus(p) = "needs_review"
          /\ drop \subseteq Conflicts(p)
          /\ DOMAIN merged \subseteq Kind(Conflicts(p) \ drop, "update_content")
          /\ Replayable(Resolved(p, drop, merged))
          /\ CommitDraft(p, Resolved(p, drop, merged))
    /\ UNCHANGED nextUnit

--------------------------------------------------------------------------------
(***************************************************************************)
(* Submission, review and publication.                                     *)
(***************************************************************************)
\* Mutant: submission leaves validation to the reviewer.
SubmitWithoutValidation(p, a) ==
    /\ BeginDraftMutation(p, a)
    /\ proposal[p].changes # {}
    /\ proposal' = [proposal EXCEPT ![p].base = head, ![p].status = "submitted"]
    /\ UNCHANGED <<head, published, nextUnit>>

SubmitCurriculumProposal(p, a) ==
    /\ BeginDraftMutation(p, a)
    /\ ValidProposal(published, proposal[p].changes)
    /\ proposal' = [proposal EXCEPT ![p].base = head, ![p].status = "submitted"]
    /\ UNCHANGED <<head, published, nextUnit>>

\* Mutant: an outdated proposal is accepted when its rows can be written.
AcceptOutdated(p) ==
    /\ proposal[p].status = "submitted"
    /\ Projectable(published, proposal[p].changes)
    /\ proposal' = [proposal EXCEPT ![p].status = "accepted"]
    /\ published' = WithProposal(published, proposal[p].changes)
    /\ head' = p
    /\ UNCHANGED nextUnit

\* Mutant: the projection is written but its head is not advanced.
AcceptWithoutAdvancing(p) ==
    /\ proposal[p].status = "submitted"
    /\ proposal[p].base = head
    /\ Projectable(published, proposal[p].changes)
    /\ proposal' = [proposal EXCEPT ![p].status = "accepted"]
    /\ published' = WithProposal(published, proposal[p].changes)
    /\ UNCHANGED <<head, nextUnit>>

\* Publication does not validate again: it relies on the base being the head.
AcceptCurriculumProposal(p) ==
    /\ proposal[p].status = "submitted"
    /\ proposal[p].base = head
    /\ Projectable(published, proposal[p].changes)
    /\ proposal' = [proposal EXCEPT ![p].status = "accepted"]
    /\ published' = WithProposal(published, proposal[p].changes)
    /\ head' = p
    /\ UNCHANGED nextUnit

RejectCurriculumProposal(p) ==
    /\ proposal[p].status = "submitted"
    /\ proposal' = [proposal EXCEPT ![p].status = "rejected"]
    /\ UNCHANGED <<head, published, nextUnit>>

--------------------------------------------------------------------------------
NewTexts == UNION {[F -> Text] : F \in {{"name"}, {"content"}, Field}}

EditDraft(p, a) ==
    \/ /\ "create_unit" \in Calls
       /\ \E t \in [Field -> Text] : CreateCurriculumUnit(p, a, t)
    \/ /\ "update_fields" \in Calls
       /\ \E u \in UnitId, new \in NewTexts :
              UpdateCreatedUnit(p, a, u, new) \/ UpdatePublishedUnit(p, a, u, new)
    \/ /\ "delete_unit" \in Calls
       /\ \E u \in UnitId : DiscardCreatedUnit(p, a, u) \/ DeletePublishedUnit(p, a, u)
    \/ /\ "set_dependency" \in Calls
       /\ \E u, q \in UnitId : \/ AddUnitDependency(p, a, u, q)
                             \/ RemoveUnitDependency(p, a, u, q)
                             \/ KeepUnitDependency(p, a, u, q)
    \/ /\ "delete_change" \in Calls
       /\ \E c \in proposal[p].changes : DeleteCurriculumProposalChange(p, a, c)
    \/ /\ "recognition" \in Calls
       /\ \E S, T \in SUBSET UnitId : AddCurriculumRecognition(p, a, S, T)
    \/ /\ "ensure_recognition" \in Calls
       /\ \E S, T \in SUBSET UnitId : EnsureCurriculumRecognition(p, a, S, T)

RebaseDraft(p, a) ==
    \/ "auto_rebase" \in Calls /\ TryAutoRebaseCurriculumProposal(p)
    \/ /\ "resolve" \in Calls
       /\ \E drop \in SUBSET Conflicts(p) :
          \E edited \in SUBSET Kind(Conflicts(p) \ drop, "update_content") :
          \E merged \in [edited -> Text] :
              ResolveCurriculumProposalRebase(p, a, drop, merged)

Next ==
    \E p \in Proposals :
        \/ \E a \in Authors :
              \/ CreateCurriculumProposal(p, a)
              \/ "delete_proposal" \in Calls /\ DeleteCurriculumProposal(p, a)
              \/ EditDraft(p, a)
              \/ RebaseDraft(p, a)
              \/ SubmitCurriculumProposal(p, a)
        \/ AcceptCurriculumProposal(p)
        \/ "reject" \in Calls /\ RejectCurriculumProposal(p)

Spec == Init /\ [][Next]_vars

--------------------------------------------------------------------------------
(***************************************************************************)
(* Properties.                                                             *)
(***************************************************************************)

\* The published curriculum is a directed acyclic graph over its own units,
\* although AcceptCurriculumProposal writes the changes without validating
\* them and the schema only excludes self and duplicate dependencies.
PublishedGraphIsSound == SoundGraph(published)

\* A submitted proposal whose base is the head is valid over the published
\* curriculum and no row of it is refused by the database: what makes it right
\* that AcceptCurriculumProposal checks the base and validates nothing.
SubmittedIsPublishable ==
    \A p \in Proposals :
        proposal[p].status = "submitted" /\ proposal[p].base = head =>
            /\ ValidProposal(published, proposal[p].changes)
            /\ Projectable(published, proposal[p].changes)

\* The accepted proposals are exactly the head's lineage, in a single line
\* that begins at NULL, and every proposal was drafted or rebased on it: a
\* stale draft can always be planned, never refused as being off the line.
HistoryIsLinear ==
    /\ InStatus("accepted") = Lineage(head)
    /\ \A p, q \in InStatus("accepted") :
           proposal[p].base = proposal[q].base => p = q
    /\ \A p \in Proposals : OnLineage(p)

\* A current draft is a normalized diff from its base: it declares nothing the
\* published curriculum already has, and at most one thing about each part of
\* it, however edits, deletions, reversals and rebases were interleaved.
DraftIsNormalizedDiff ==
    \A p \in InStatus("draft") :
        LET C == proposal[p].changes IN
        proposal[p].base = head =>
            /\ Normalized(C) = C
            /\ Created(C) \cap published.units = {}
            /\ Deleted(C) \subseteq published.units
            /\ \A f \in Field, u \in UnitId : Cardinality(EditsOf(C, f, u)) <= 1
            /\ \A c \in Edits(C) : c.unit \in published.units \ Deleted(C)
            /\ \A d \in Added(C) : {d[1], d[2]} \subseteq ResultingUnits(published, C)
            /\ \A c \in Kind(C, "recognition") :
                   c.targets \subseteq ResultingUnits(published, C)

\* Submission freezes a proposal: afterwards its changes, base and authors stay
\* as they were reviewed, and its status moves once, to accepted or rejected.
FrozenOnceSubmitted ==
    \A p \in Proposals :
        LET now == proposal[p]
            next == proposal'[p]
        IN now.status \in {"submitted", "accepted", "rejected"} =>
              /\ next.changes = now.changes
              /\ next.base = now.base
              /\ next.author = now.author
              /\ \/ next.status = now.status
                 \/ /\ now.status = "submitted"
                    /\ next.status \in {"accepted", "rejected"}

SubmissionFreezes == [][FrozenOnceSubmitted]_vars

\* A draft that overlaps work accepted since its base leaves that base only as
\* its author's review decided: nothing is added to it on the way but the merged
\* text of a conflicting content change, nothing but conflicts and what the
\* accepted work already did is lost, and as a whole it is empty or valid over
\* the new head.
RebasedByReview ==
    \A p \in InStatus("draft") :
        LET C == proposal[p].changes
            next == proposal'[p]
        IN (/\ Overlapping(p) # {}
            /\ next.status # "unused"
            /\ next.base # proposal[p].base)
           => /\ next.status = "draft"
              /\ Replayable(next.changes)
              /\ \A c \in next.changes \ C :
                    /\ c.kind = "update_content"
                    /\ EditsOf(Conflicts(p), "content", c.unit) # {}
              /\ \A c \in C \ next.changes :
                    c \in Conflicts(p) \/ AlreadyPublished(c, C)

OverlapIsReviewed == [][RebasedByReview]_vars

\* The abstract promise: see PublishedCurriculum.
Publication ==
    INSTANCE PublishedCurriculum
        WITH Id <- Proposals,
             graph <- published,
             lineage <- InStatus("accepted")

ImplementsPublishedCurriculum == Publication!Spec

\* The abstract promise to whoever writes proposals: see ProposalLifecycle, which
\* the transactions of PublicationLocking implement as well.
LifecycleRow ==
    [p \in Proposals |-> [status |-> proposal[p].status, base |-> proposal[p].base,
                          work |-> proposal[p].changes]]

Lifecycle ==
    INSTANCE ProposalLifecycle
        WITH Id <- Proposals, Work <- SUBSET Change, Gone <- "unused", row <- LifecycleRow

ImplementsProposalLifecycle == Lifecycle!Spec

\* What the product specification says of stale drafts: the author can always
\* bring the draft forward by keeping, dropping or editing its conflicts.
ReviewCanSucceed ==
    \A p \in InStatus("draft") :
        RebaseStatus(p) = "needs_review" =>
            \E drop \in SUBSET Conflicts(p) :
            \E edited \in SUBSET Kind(Conflicts(p) \ drop, "update_content") :
            \E merged \in [edited -> Text] : Replayable(Resolved(p, drop, merged))

\* What the product specification says of deletions: a unit can be removed once
\* every dependency that has it as its prerequisite is resolved.  A current
\* draft that only deletes units, and leaves nothing that depends on one of
\* them, can be submitted.
ResolvedDeletionsAreValid ==
    \A p \in InStatus("draft") :
        LET C == proposal[p].changes IN
        /\ proposal[p].base = head
        /\ C # {} /\ C = Kind(C, "delete_unit")
        /\ \A d \in published.deps : d[2] \in Deleted(C) => d[1] \in Deleted(C)
        => ValidProposal(published, C)

================================================================================
