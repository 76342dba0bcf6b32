---------------------------- MODULE CurriculumReplay ----------------------------
(***************************************************************************)
(* The sequential algorithms over the rows of a proposal.  CurriculumGraph *)
(* speaks of a proposal as a set of changes; the program reads rows in a   *)
(* canonical order and walks them one by one, in six places: the           *)
(* validation, the preview of a draft, the projection, and three           *)
(* historical reads.  This module states all six, so that TLC relates them *)
(* to each other and to the definitions of CurriculumGraph, for rows in    *)
(* every order of insertion.                                               *)
(*                                                                         *)
(* A row is a change; its identity is its position in the proposal, but    *)
(* for creations, whose identity is the identity of the unit.              *)
(***************************************************************************)
EXTENDS CurriculumGraph, SequencesExt, TLC

CONSTANTS Seed,            \* rows of the first publication
          Rows,            \* bound: the changes that proposals are made of
          MaxRows,         \* bound: rows in one proposal
          MaxTotal         \* bound: rows in all proposals after the first

VARIABLES published,   \* units and unit_dependencies
          lineage,     \* the rows of each accepted proposal, oldest first
          graphs,      \* what was published with each of them (for the properties)
          rows         \* the proposal that is being written

vars == <<published, lineage, graphs, rows>>

--------------------------------------------------------------------------------
(***************************************************************************)
(* The canonical order of the rows of one proposal.                        *)
(***************************************************************************)
Rank ==
    [create_unit |-> 1, rename_unit |-> 2, update_content |-> 2,
     remove_dependency |-> 3, add_dependency |-> 4, recognition |-> 5,
     delete_unit |-> 6]

UnitKey(c) == IF c.kind = "recognition" THEN 0 ELSE c.unit

PrerequisiteKey(c) ==
    IF c.kind \in {"add_dependency", "remove_dependency"} THEN c.prerequisite ELSE 0

\* Keys compare like the tuple of their digits; positions break ties.
Key(rank, unit, prerequisite, position) ==
    ((rank * (MaxUnit + 1) + unit) * (MaxUnit + 1) + prerequisite) * (MaxRows + Len(Seed) + 1)
        + position

CanonicalOrder(rs) ==
    LET key == [i \in DOMAIN rs |->
                   Key(Rank[rs[i].kind], UnitKey(rs[i]), PrerequisiteKey(rs[i]), i)]
        order == SortSeq([i \in DOMAIN rs |-> i], LAMBDA i, j : key[i] < key[j])
    IN [n \in DOMAIN rs |-> rs[order[n]]]

\* The order of the reads about one unit: by kind, then by identity.
KindOrder(rs) ==
    LET key == [i \in DOMAIN rs |-> Key(Rank[rs[i].kind], 0, 0, i)]
        order == SortSeq([i \in DOMAIN rs |-> i], LAMBDA i, j : key[i] < key[j])
    IN [n \in DOMAIN rs |-> rs[order[n]]]

\* The rows of the first k publications, the oldest publication first.
CanonicalLineage(k) == FlattenSeq([n \in 1..k |-> CanonicalOrder(lineage[n])])
LineageByKind(k) == FlattenSeq([n \in 1..k |-> KindOrder(lineage[n])])

--------------------------------------------------------------------------------
(***************************************************************************)
(* Writing one row over a graph.                                           *)
(***************************************************************************)
WithDependency(G, d) == [G EXCEPT !.deps = @ \cup {d}]
WithoutDependency(G, d) == [G EXCEPT !.deps = @ \ {d}]
WithUnit(G, u, text) == [G EXCEPT !.units = @ \cup {u}, !.text = u :> text @@ @]

WithText(G, f, u, value) ==
    IF u \in G.units THEN [G EXCEPT !.text[u][f] = value] ELSE G

\* Mutant: the text of the unit stays.
WithoutUnitKeepingText(G, u) ==
    [G EXCEPT !.units = @ \ {u}, !.deps = {d \in @ : u \notin {d[1], d[2]}}]

WithoutUnit(G, u) ==
    [units |-> G.units \ {u},
     deps  |-> {d \in G.deps : u \notin {d[1], d[2]}},
     text  |-> [v \in G.units \ {u} |-> G.text[v]]]

Written(G, c) ==
    CASE c.kind = "create_unit" -> WithUnit(G, c.unit, c.text)
      [] c.kind = "rename_unit" -> WithText(G, "name", c.unit, c.value)
      [] c.kind = "update_content" -> WithText(G, "content", c.unit, c.value)
      [] c.kind = "remove_dependency" -> WithoutDependency(G, <<c.unit, c.prerequisite>>)
      [] c.kind = "add_dependency" -> WithDependency(G, <<c.unit, c.prerequisite>>)
      [] c.kind = "delete_unit" -> WithoutUnit(G, c.unit)
      [] c.kind = "recognition" -> G

\* Mutant: a deletion leaves the dependencies of the unit in the preview.
PreviewedWithDependencies(G, c) ==
    IF c.kind = "delete_unit"
    THEN [WithoutUnit(G, c.unit) EXCEPT !.deps = G.deps] ELSE Written(G, c)

\* CurriculumGraphWithProposal: what a draft shows.  A unit that is already
\* there is not created again.
Previewed(G, c) ==
    IF c.kind = "create_unit" /\ c.unit \in G.units THEN G ELSE Written(G, c)

Preview(G, rs) == FoldLeft(Previewed, G, CanonicalOrder(rs))

(***************************************************************************)
(* The projection.  A statement that the keys of the tables refuse fails   *)
(* the transaction; failed stands for its error.                           *)
(***************************************************************************)
Failure == [failed |-> TRUE]
Refused(x) == x = Failure

\* Primary keys, and the foreign keys and check of unit_dependencies.
Insertable(G, c) ==
    /\ c.kind = "create_unit" => c.unit \notin G.units
    /\ c.kind = "add_dependency" =>
           /\ <<c.unit, c.prerequisite>> \notin G.deps
           /\ c.unit # c.prerequisite
           /\ {c.unit, c.prerequisite} \subseteq G.units

ApplyRow(x, c) ==
    IF Refused(x) \/ ~Insertable(x, c) THEN Failure ELSE Written(x, c)

\* ApplyCurriculumProposalToProjection
Applied(G, rs) == FoldLeft(ApplyRow, G, CanonicalOrder(rs))

--------------------------------------------------------------------------------
(***************************************************************************)
(* Historical reads, as of publication k.                                  *)
(***************************************************************************)
\* GetCurriculumGraphAtProposal: names and dependencies, not the content.
GraphAtRow(G, c) ==
    CASE c.kind = "create_unit" -> WithUnit(G, c.unit, [name |-> c.text.name])
      [] OTHER -> Written(G, c)

GraphAt(k) ==
    LET read == SelectSeq(CanonicalLineage(k),
                          LAMBDA c : c.kind \notin {"update_content", "recognition"})
        G == FoldLeft(GraphAtRow, EmptyGraph, read)
    IN [G EXCEPT !.deps = {d \in @ : {d[1], d[2]} \subseteq G.units}]

\* GetCurriculumUnitAtProposal: the text of u, or Absent.
Absent == [absent |-> TRUE]

UnitAtRow(text, c) ==
    CASE c.kind = "create_unit" -> c.text
      [] c.kind = "delete_unit" -> Absent
      [] text = Absent -> Absent
      [] c.kind = "rename_unit" -> [text EXCEPT !.name = c.value]
      [] c.kind = "update_content" -> [text EXCEPT !.content = c.value]

UnitAt(k, u) ==
    FoldLeft(UnitAtRow, Absent,
             SelectSeq(LineageByKind(k),
                       LAMBDA c : /\ c.kind \in {"create_unit", "rename_unit",
                                                 "update_content", "delete_unit"}
                                  /\ c.unit = u))

\* GetCurriculumUnitDependenciesAtProposal: every dependency that u is part of.
DependenciesAtRow(deps, c) ==
    CASE c.kind = "remove_dependency" -> deps \ {<<c.unit, c.prerequisite>>}
      [] c.kind = "add_dependency" -> deps \cup {<<c.unit, c.prerequisite>>}
      [] c.kind = "delete_unit" -> {d \in deps : c.unit \notin {d[1], d[2]}}

\* Mutant: only the deletion of u itself is read, not that of its neighbours.
ReadsOwnRows(c, u) ==
    /\ c.kind \in {"add_dependency", "remove_dependency", "delete_unit"}
    /\ u \in ChangeUnits(c)

ReadsRow(c, u) ==
    \/ /\ c.kind \in {"add_dependency", "remove_dependency"}
       /\ u \in {c.unit, c.prerequisite}
    \/ c.kind = "delete_unit"

DependenciesAt(k, u) ==
    FoldLeft(DependenciesAtRow, {},
             SelectSeq(LineageByKind(k), LAMBDA c : ReadsRow(c, u)))

--------------------------------------------------------------------------------
(***************************************************************************)
(* validateCurriculumProposal, row by row.                                 *)
(***************************************************************************)
Start(G) ==
    [graph |-> G, created |-> {}, edited |-> {}, deleted |-> {}, changed |-> {},
     recognised |-> {}, valid |-> TRUE]

PermitsCreation(s, c) == c.unit \notin s.graph.units \cup s.created

PermitsEdit(s, c, f) ==
    /\ c.unit \in s.graph.units
    /\ <<f, c.unit>> \notin s.edited
    /\ c.value # s.graph.text[c.unit][f]

\* validateDependencyChange
PermitsChange(s, d) ==
    /\ d[1] # d[2]
    /\ {d[1], d[2]} \subseteq s.graph.units
    /\ d \notin s.changed

PermitsRemoval(s, d) == PermitsChange(s, d) /\ d \in s.graph.deps

\* Mutant: a dependency that was removed by the proposal can be added again.
PermitsReversal(s, d) ==
    /\ d[1] # d[2]
    /\ {d[1], d[2]} \subseteq s.graph.units
    /\ d \notin s.graph.deps
    /\ ~CreatesCycle(s.graph.deps, d[1], d[2])

PermitsAddition(s, d) ==
    /\ PermitsChange(s, d)
    /\ d \notin s.graph.deps
    /\ ~CreatesCycle(s.graph.deps, d[1], d[2])

PermitsDeletion(s, u) ==
    /\ u \in s.graph.units \ (s.created \cup s.deleted)
    /\ \A f \in Field : <<f, u>> \notin s.edited
    /\ \A d \in s.graph.deps : d[2] # u
    /\ \A d \in s.graph.deps : d[1] = u => d \notin s.changed

\* validateRecognition, after every other row: base holds the base units.
PermitsRecognition(s, c, base) ==
    /\ c.sources # {} /\ c.sources \subseteq base
    /\ c.targets # {} /\ c.targets \subseteq s.graph.units
    /\ <<c.sources, c.targets>> \notin s.recognised

Permits(s, c, base) ==
    CASE c.kind = "create_unit" -> PermitsCreation(s, c)
      [] c.kind = "rename_unit" -> PermitsEdit(s, c, "name")
      [] c.kind = "update_content" -> PermitsEdit(s, c, "content")
      [] c.kind = "remove_dependency" -> PermitsRemoval(s, <<c.unit, c.prerequisite>>)
      [] c.kind = "add_dependency" -> PermitsAddition(s, <<c.unit, c.prerequisite>>)
      [] c.kind = "delete_unit" -> PermitsDeletion(s, c.unit)
      [] c.kind = "recognition" -> PermitsRecognition(s, c, base)

Noted(s, c) ==
    [s EXCEPT
        !.graph = Written(@, c),
        !.created = @ \cup Created({c}),
        !.deleted = @ \cup Deleted({c}),
        !.changed = @ \cup Added({c}) \cup Removed({c}),
        !.edited = @ \cup {<<f, u>> \in Field \X UnitId : EditsOf({c}, f, u) # {}},
        !.recognised = @ \cup {<<r.sources, r.targets>> : r \in Kind({c}, "recognition")}]

Validated(G, rs) ==
    LET ordered == CanonicalOrder(rs)
        isRecognition(c) == c.kind = "recognition"
        walked == SelectSeq(ordered, LAMBDA c : ~isRecognition(c))
                      \o SelectSeq(ordered, isRecognition)
        step(s, c) == IF s.valid /\ Permits(s, c, G.units)
                      THEN Noted(s, c) ELSE [s EXCEPT !.valid = FALSE]
    IN FoldLeft(step, Start(G), walked)

--------------------------------------------------------------------------------
(***************************************************************************)
(* Proposals are written row by row and published when they are valid.     *)
(***************************************************************************)
Init ==
    /\ published = Applied(EmptyGraph, Seed)
    /\ lineage = <<Seed>>
    /\ graphs = <<published>>
    /\ rows = <<>>

\* Issued identities are never issued again.
Issued == Created(UNION {ToSet(lineage[n]) : n \in DOMAIN lineage} \cup ToSet(rows))

\* Bound: a proposal starts only where its rows still fit.
Fits == Len(rows) < MaxRows /\ Len(FlattenSeq(Tail(lineage))) + Len(rows) < MaxTotal

InsertRow ==
    \E c \in Rows \ ToSet(rows) :
        /\ Fits
        /\ c.kind = "create_unit" => c.unit \notin Issued
        /\ rows' = Append(rows, c)
        /\ UNCHANGED <<published, lineage, graphs>>

DiscardRows ==
    /\ rows # <<>>
    /\ rows' = <<>>
    /\ UNCHANGED <<published, lineage, graphs>>

\* SubmitCurriculumProposal validates; AcceptCurriculumProposal projects.
Publish ==
    /\ rows # <<>>
    /\ Validated(published, rows).valid
    /\ published' = Applied(published, rows)
    /\ ~Refused(published')
    /\ lineage' = Append(lineage, rows)
    /\ graphs' = Append(graphs, published')
    /\ rows' = <<>>

Next == InsertRow \/ DiscardRows \/ Publish

Spec == Init /\ [][Next]_vars

--------------------------------------------------------------------------------
(***************************************************************************)
(* Properties.                                                             *)
(***************************************************************************)

\* The walk of the validation accepts exactly the proposals that are valid as
\* sets of changes: in whatever order the author made them, and although each
\* check sees only the rows walked before it.
VerdictIsOfTheSet ==
    rows # <<>> =>
        (Validated(published, rows).valid <=> ValidProposal(published, ToSet(rows)))

\* For a valid proposal the draft's preview, the graph the validation ends
\* with, the rows written by the publication and the set-based result are one
\* graph, and no statement of the publication fails.
WhatIsShownIsPublished ==
    rows # <<>> =>
        LET walked == Validated(published, rows)
            projected == Applied(published, rows)
        IN walked.valid =>
              /\ Preview(published, rows) = projected
              /\ walked.graph = projected
              /\ WithProposal(published, ToSet(rows)) = projected

\* The three historical reads, each with a replay of its own, agree with what
\* was published at the time.
HistoryIsReadBack ==
    rows = <<>> =>
        \A k \in DOMAIN lineage :
            /\ GraphAt(k).units = graphs[k].units
            /\ GraphAt(k).deps = graphs[k].deps
            /\ \A u \in graphs[k].units : GraphAt(k).text[u].name = graphs[k].text[u].name
            /\ \A u \in UnitId :
                   /\ UnitAt(k, u) = IF u \in graphs[k].units
                                     THEN graphs[k].text[u] ELSE Absent
                   /\ DependenciesAt(k, u) = {d \in graphs[k].deps : u \in {d[1], d[2]}}

TypeOK ==
    /\ IsGraph(published)
    /\ ToSet(rows) \subseteq Rows /\ Len(rows) <= MaxRows
    /\ Len(graphs) = Len(lineage)
    /\ \A k \in DOMAIN graphs : IsGraph(graphs[k])

================================================================================
