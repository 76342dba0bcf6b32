------------------------- MODULE CurriculumNeighborhood -------------------------
(***************************************************************************)
(* The part of a curriculum graph that one page shows                      *)
(* (internal/services/curriculum_graph.go): the neighbourhood of the unit  *)
(* in focus, the entry points when there is none, and the units that an    *)
(* open proposal affects.                                                  *)
(*                                                                         *)
(* A graph has the units and deps of CurriculumGraph; a dependency is a    *)
(* pair <<unit, prerequisite>>.  The code lists units and dependencies by  *)
(* name, so a name is abstracted to the order of the identities.           *)
(***************************************************************************)
EXTENDS Integers, FiniteSetsExt

CONSTANTS DirectLimit,           \* curriculumDirectNeighborLimit
          SecondLimit,           \* curriculumSecondNeighborLimit
          CoPrerequisiteLimit    \* curriculumCoPrerequisiteLimit

\* The page of no unit in particular.
NoFocus == 0

Prerequisites(G, u) == {d[2] : d \in {e \in G.deps : e[1] = u}}
Dependents(G, u) == {d[1] : d \in {e \in G.deps : e[2] = u}}

FirstOf(S, n) == {u \in S : Cardinality({v \in S : v < u}) < n}

\* includeSecondCurriculumNeighbors: found through the first direct dependent
\* that leads there.
SecondDependents(G, direct, included) ==
    LET found == UNION {Dependents(G, u) : u \in direct} \ included
        via == [u \in found |-> Min(direct \cap Prerequisites(G, u))]
        before(u, v) == via[u] < via[v] \/ (via[u] = via[v] /\ u < v)
    IN {u \in found : Cardinality({v \in found : before(v, u)}) < SecondLimit}

EntryPoints(G) == {u \in G.units : Prerequisites(G, u) = {}}

AroundFocus(G, f) ==
    LET direct == FirstOf(Dependents(G, f), DirectLimit)
        near == {f} \cup FirstOf(Prerequisites(G, f), DirectLimit) \cup direct
        included == near \cup SecondDependents(G, direct, near)
        others == UNION {Prerequisites(G, u) : u \in direct} \ included
    IN IF Cardinality(others) <= CoPrerequisiteLimit THEN included \cup others ELSE included

Neighborhood(G, f) == IF f = NoFocus THEN EntryPoints(G) ELSE AroundFocus(G, f)

\* CurriculumProposalNeighborhood: the overview of a proposal adds both ends of
\* every dependency of an affected unit, a focus only its own neighbourhood.
ProposalNeighborhood(G, affected, f) ==
    affected \cup
        IF affected = {} \/ f # NoFocus
        THEN Neighborhood(G, f)
        ELSE UNION {{d[1], d[2]} : d \in {e \in G.deps : {e[1], e[2]} \cap affected # {}}}

\* curriculumSubgraph
Subgraph(G, included) ==
    [units |-> G.units \cap included,
     deps  |-> {d \in G.deps : {d[1], d[2]} \subseteq included}]

VisibleGraph(G, affected, f) == Subgraph(G, ProposalNeighborhood(G, affected, f))

\* CurriculumGraphBoundaries: how many neighbours of each unit are left out.
Boundaries(G, V) ==
    [u \in V.units |-> [prerequisites |-> Cardinality(Prerequisites(G, u) \ V.units),
                        dependents    |-> Cardinality(Dependents(G, u) \ V.units)]]

================================================================================
