----------------------------- MODULE GraphNavigation -----------------------------
(***************************************************************************)
(* A reader of the curriculum who goes from page to page                   *)
(* (internal/server/learn.go, curriculum_modification.go,                  *)
(* web/static/js/curriculum_graph.js).  The browser sends the rows and the *)
(* lanes of the page it shows with every navigation, and the server draws  *)
(* the next page from them; a page that is loaded anew is drawn without.   *)
(* The graph may change between two pages.                                 *)
(***************************************************************************)
EXTENDS CurriculumLayout

CONSTANTS Graphs,     \* bound: the graphs that are published, one after another
          Overlays    \* bound: what the proposal on the page affects and creates

VARIABLES graph,      \* what the page is taken from
          overlay,    \* the open proposal: the units it affects, those it creates
          view        \* the page

vars == <<graph, overlay, view>>

NoView == [shown |-> FALSE]

\* The hints that the browser sends: layout_order and layout_lanes.
Hints == IF view.shown THEN [row |-> view.layout.row, lane |-> view.layout.lane] ELSE NoHints

Page(G, f, hints) ==
    LET V == VisibleGraph(G, overlay.affected, f)
    IN [shown      |-> TRUE,
        focus      |-> f,
        hinted     |-> hints # NoHints,
        boundaries |-> Boundaries(G, V),
        layout     |-> IsolatedFirst(Layout(V, hints, f), overlay.created)]

Init ==
    /\ graph \in Graphs
    /\ overlay \in Overlays
    /\ view = NoView

\* Publications go on: the page is taken from whatever is published by then.
Load ==
    /\ graph' \in Graphs
    /\ ~view.shown
    /\ \E f \in {NoFocus} \cup graph'.units : view' = Page(graph', f, NoHints)
    /\ UNCHANGED overlay

Navigate ==
    /\ graph' \in Graphs
    /\ view.shown
    /\ \E f \in {NoFocus} \cup graph'.units : view' = Page(graph', f, Hints)
    /\ UNCHANGED overlay

Next == Load \/ Navigate

Spec == Init /\ [][Next]_vars

--------------------------------------------------------------------------------
(***************************************************************************)
(* Properties.                                                             *)
(***************************************************************************)
PrerequisitesFirst(V, row) == \A d \in V.deps : row[d[2]] < row[d[1]]

\* Every way to list the units of a page after their prerequisites.
Orders(V) ==
    {o \in [1..Cardinality(V.units) -> V.units] :
        ToSet(o) = V.units /\ PrerequisitesFirst(V, RowsOf(o))}

\* Every unit of a page has a row, after its prerequisites and whatever the browser
\* remembers, and no other order of the units has fewer crossings.
Clear(L) ==
    /\ ToSet(L.order) = L.units /\ Len(L.order) = Cardinality(L.units)
    /\ PrerequisitesFirst(L, L.row)
    /\ Cardinality(L.units) <= NodeLimit =>
           LET orders == Orders(L)
           IN Cardinality(orders) <= SearchLimit =>
                  \A o \in orders : Crossings(L.deps, L.row) <= Crossings(L.deps, RowsOf(o))

\* No unit is on the lane of a dependency that passes by.
Uncluttered(L) == \A u \in L.units : ~IsTaken(L, L.lane[u], u)

\* Every dependency that leaves the page is counted at the unit that it leaves.
Counted(G, L, boundaries) ==
    MapThenSumSet(LAMBDA u : boundaries[u].prerequisites + boundaries[u].dependents, L.units)
        = Cardinality({d \in G.deps : Cardinality({d[1], d[2]} \cap L.units) = 1})

\* A page can be read: no order of it is clearer when the search can visit them
\* all, the units of a page drawn without hints are off the lanes of the
\* dependencies of others, and the arrows count what is left out.
LayoutIsReadable ==
    view.shown =>
        /\ Clear(view.layout)
        /\ view.hinted \/ Uncluttered(view.layout)
        /\ Counted(graph, view.layout, view.boundaries)

\* Asking for the page that is shown leaves every unit on its row: continuity
\* chooses among the clearest orders, and the one that is shown is one of them.
SamePage(v, w) ==
    v.shown /\ w.focus = v.focus /\ w.layout.units = v.layout.units /\ w.layout.deps = v.layout.deps

RepeatedViewKeepsItsOrder ==
    [][/\ SamePage(view, view')
       /\ \/ Cardinality(view.layout.units) > NodeLimit
          \/ Cardinality(Orders(view.layout)) <= SearchLimit
       => view'.layout.order = view.layout.order]_vars

================================================================================
