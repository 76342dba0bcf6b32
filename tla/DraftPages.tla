------------------------------- MODULE DraftPages -------------------------------
(***************************************************************************)
(* The page of a proposal: renderCurriculumModification                    *)
(* (internal/server/curriculum_modification.go).  It draws what the        *)
(* proposal makes of the published curriculum together with what the       *)
(* proposal takes away, and its overview shows every unit that a change    *)
(* touches.  The limits are those of the code.                             *)
(***************************************************************************)
EXTENDS CurriculumProposals

Layout == INSTANCE CurriculumLayout
    WITH DirectLimit <- 4, SecondLimit <- 4, CoPrerequisiteLimit <- 3,
         SearchLimit <- 128, NodeLimit <- 60, Scale <- 1

\* curriculumGraphWithRemovedDependencies: deleted units with the dependencies
\* they had, and removed dependencies, are drawn again.
WithRemovals(G, C) ==
    [units |-> G.units \cup (Deleted(C) \cap published.units),
     deps  |-> G.deps \cup Removed(C)
                 \cup {d \in published.deps : {d[1], d[2]} \cap Deleted(C) # {}}]

\* proposalAffectedUnitIDs
AffectedUnits(C) == UNION {ChangeUnits(c) : c \in C}

\* What the overview of p shows, when p is drawn over the published curriculum.
Overview(p) ==
    LET C == proposal[p].changes
    IN Layout!VisibleGraph(WithRemovals(Working(p), C), AffectedUnits(C), Layout!NoFocus)

\* A draft that needs review is drawn over its old base instead.
DrawnOverPublished(p) ==
    \/ proposal[p].status = "draft" /\ RebaseStatus(p) # "needs_review"
    \/ proposal[p].status = "submitted" /\ proposal[p].base = head

--------------------------------------------------------------------------------
(***************************************************************************)
(* An open proposal starts in an overview that includes every unit that    *)
(* one of its changes touches.  Violated: a proposal that turns a          *)
(* dependency round has the old one drawn beside the new one, the overview *)
(* is circular, topologicallyOrderCurriculum refuses it, and the page      *)
(* answers with an internal error instead.                                 *)
(***************************************************************************)
OpenProposalsHaveAnOverview ==
    \A p \in Proposals : DrawnOverPublished(p) =>
        /\ Layout!CanBeOrdered(Overview(p))
        /\ AffectedUnits(proposal[p].changes) \subseteq Overview(p).units

================================================================================
