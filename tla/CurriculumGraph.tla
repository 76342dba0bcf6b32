---------------------------- MODULE CurriculumGraph ----------------------------
(***************************************************************************)
(* Curriculum graphs, proposal changes and the rules that relate them:     *)
(* what a set of changes makes of a graph (the working graph a draft shows *)
(* and the projection a publication writes), which changes are valid over  *)
(* a graph, and which units a change touches.                              *)
(*                                                                         *)
(* A graph is a record                                                     *)
(*   units : the identities of its units,                                  *)
(*   deps  : pairs <<unit, prerequisite>>,                                 *)
(*   text  : the name and the content of each unit.                        *)
(* A proposal's changes are a set of records.  The code stores them as     *)
(* rows and reads them back in a canonical order; CurriculumReplay         *)
(* relates that sequential reading to the definitions of this module.      *)
(***************************************************************************)
EXTENDS Integers, FiniteSets

CONSTANTS Text,      \* the texts a name or a content may be
          MaxUnit    \* unit identities are 1..MaxUnit

UnitId == 1..MaxUnit
Field == {"name", "content"}

(***************************************************************************)
(* Graphs.                                                                 *)
(***************************************************************************)
Endpoints(deps) == {d[1] : d \in deps} \cup {d[2] : d \in deps}

\* No set of units keeps every one of its members waiting for another of them.
Acyclic(deps) ==
    \A S \in SUBSET {d[1] : d \in deps} :
        S # {} => \E u \in S : \A d \in deps : d[1] = u => d[2] \notin S

\* The units reached from u along dependents are in every such set.
ClosedUnderDependents(D, deps) ==
    \A d \in deps : d[2] \in D => d[1] \in D

\* Would <<u, q>> close a cycle: q is u, or is reached from u along dependents.
CreatesCycle(deps, u, q) ==
    \A D \in SUBSET (Endpoints(deps) \cup {u, q}) :
        u \in D /\ ClosedUnderDependents(D, deps) => q \in D

SoundGraph(G) ==
    /\ Endpoints(G.deps) \subseteq G.units
    /\ Acyclic(G.deps)

IsGraph(G) ==
    /\ G = [units |-> G.units, deps |-> G.deps, text |-> G.text]
    /\ G.units \in SUBSET UnitId
    /\ G.deps \in SUBSET (UnitId \X UnitId)
    /\ G.text \in [G.units -> [Field -> Text]]

EmptyGraph == [units |-> {}, deps |-> {}, text |-> [u \in {} |-> <<>>]]

(***************************************************************************)
(* Changes.                                                                *)
(***************************************************************************)
EditKind == [name |-> "rename_unit", content |-> "update_content"]

Creation(u, t) == [kind |-> "create_unit", unit |-> u, text |-> t]
Edit(f, u, v) == [kind |-> EditKind[f], unit |-> u, value |-> v]
Addition(u, q) == [kind |-> "add_dependency", unit |-> u, prerequisite |-> q]
Removal(u, q) == [kind |-> "remove_dependency", unit |-> u, prerequisite |-> q]
Deletion(u) == [kind |-> "delete_unit", unit |-> u]

\* The stored change has an identity of its own: copy tells apart two
\* recognitions that declare the same sources and targets.
Recognition(S, T, n) ==
    [kind |-> "recognition", sources |-> S, targets |-> T, copy |-> n]

Change ==
    [kind : {"create_unit"}, unit : UnitId, text : [Field -> Text]]
      \cup [kind : {"rename_unit", "update_content"}, unit : UnitId, value : Text]
      \cup [kind : {"add_dependency", "remove_dependency"},
            unit : UnitId, prerequisite : UnitId]
      \cup [kind : {"delete_unit"}, unit : UnitId]
      \cup [kind : {"recognition"}, sources : SUBSET UnitId,
            targets : SUBSET UnitId, copy : Nat]

Kind(C, k) == {c \in C : c.kind = k}
Edits(C) == Kind(C, "rename_unit") \cup Kind(C, "update_content")
EditsOf(C, f, u) == {c \in Kind(C, EditKind[f]) : c.unit = u}

Created(C) == {c.unit : c \in Kind(C, "create_unit")}
Deleted(C) == {c.unit : c \in Kind(C, "delete_unit")}
Added(C) == {<<c.unit, c.prerequisite>> : c \in Kind(C, "add_dependency")}
Removed(C) == {<<c.unit, c.prerequisite>> : c \in Kind(C, "remove_dependency")}

\* curriculumChangeUnitIDs: the units a change counts as affecting.
ChangeUnits(c) ==
    CASE c.kind = "recognition" -> c.sources \cup c.targets
      [] c.kind \in {"add_dependency", "remove_dependency"} ->
             {c.unit, c.prerequisite}
      [] OTHER -> {c.unit}

(***************************************************************************)
(* The result of applying the changes C to the graph G: creations, edits,  *)
(* removals, additions, then deletions, which take with them every         *)
(* dependency at either end.                                               *)
(***************************************************************************)
TextBefore(G, C, f, u) ==
    IF u \in Created(C)
    THEN (CHOOSE c \in Kind(C, "create_unit") : c.unit = u).text[f]
    ELSE G.text[u][f]

TextAfter(G, C, f, u) ==
    IF EditsOf(C, f, u) = {}
    THEN TextBefore(G, C, f, u)
    ELSE (CHOOSE c \in EditsOf(C, f, u) : TRUE).value

EditedDependencies(G, C) == (G.deps \ Removed(C)) \cup Added(C)

ResultingUnits(G, C) == (G.units \cup Created(C)) \ Deleted(C)

\* Mutant: deleted units keep their text.
WithProposalKeepingText(G, C) ==
    [units |-> ResultingUnits(G, C),
     deps  |-> {d \in EditedDependencies(G, C) :
                   {d[1], d[2]} \cap Deleted(C) = {}},
     text  |-> [u \in G.units \cup Created(C) |->
                   [f \in Field |-> TextAfter(G, C, f, u)]]]

WithProposal(G, C) ==
    [units |-> ResultingUnits(G, C),
     deps  |-> {d \in EditedDependencies(G, C) :
                   {d[1], d[2]} \cap Deleted(C) = {}},
     text  |-> [u \in ResultingUnits(G, C) |->
                   [f \in Field |-> TextAfter(G, C, f, u)]]]

\* What the database refuses while the rows of C are written over G: a second
\* row for a unit or a dependency, a dependency of a unit that is not there.
Projectable(G, C) ==
    /\ Created(C) \cap G.units = {}
    /\ Added(C) \cap (G.deps \ Removed(C)) = {}
    /\ \A d \in Added(C) : d[1] # d[2] /\ {d[1], d[2]} \subseteq G.units \cup Created(C)

(***************************************************************************)
(* Validation of a whole proposal over a base graph.                       *)
(***************************************************************************)
ValidCreations(G, C) ==
    /\ Created(C) \cap G.units = {}
    /\ \A c, d \in Kind(C, "create_unit") : c.unit = d.unit => c = d

ValidEdits(G, C) ==
    \A f \in Field : \A c \in Kind(C, EditKind[f]) :
        /\ c.unit \in G.units \cup Created(C)
        /\ c.value # TextBefore(G, C, f, c.unit)
        /\ EditsOf(C, f, c.unit) = {c}

\* Mutant: the edited graph is not searched for cycles.
ValidDependenciesWithCycles(G, C) ==
    /\ \A d \in Added(C) \cup Removed(C) :
           d[1] # d[2] /\ {d[1], d[2]} \subseteq G.units \cup Created(C)
    /\ Removed(C) \subseteq G.deps
    /\ Added(C) \cap G.deps = {}

ValidDependencies(G, C) ==
    /\ \A d \in Added(C) \cup Removed(C) :
           d[1] # d[2] /\ {d[1], d[2]} \subseteq G.units \cup Created(C)
    /\ Removed(C) \subseteq G.deps
    /\ Added(C) \cap G.deps = {}
    /\ Acyclic(EditedDependencies(G, C))

\* Deletions are replayed by ascending identity, so when u goes only the
\* dependents with a smaller identity can have gone before it.
ValidDeletions(G, C) ==
    /\ Deleted(C) \subseteq G.units
    /\ \A c \in Edits(C) : c.unit \notin Deleted(C)
    /\ \A d \in Added(C) : d[1] \notin Deleted(C)
    /\ \A d \in EditedDependencies(G, C) :
           d[2] \in Deleted(C) => d[1] \in Deleted(C) /\ d[1] < d[2]

ValidRecognitions(G, C) ==
    \A c \in Kind(C, "recognition") :
        /\ c.sources # {} /\ c.sources \subseteq G.units
        /\ c.targets # {} /\ c.targets \subseteq ResultingUnits(G, C)
        /\ \A d \in Kind(C, "recognition") :
               d.sources = c.sources /\ d.targets = c.targets => d = c

\* validateCurriculumProposal
ValidProposal(G, C) ==
    /\ C # {}
    /\ SoundGraph(G)
    /\ ValidCreations(G, C)
    /\ ValidEdits(G, C)
    /\ ValidDependencies(G, C)
    /\ ValidDeletions(G, C)
    /\ ValidRecognitions(G, C)

================================================================================
