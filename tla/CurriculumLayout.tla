---------------------------- MODULE CurriculumLayout ----------------------------
(***************************************************************************)
(* BuildCurriculumGraphLayoutWithHints                                     *)
(* (internal/services/curriculum_graph.go): the rows and the lanes of the  *)
(* units on a page, and the lanes of the dependencies between them.        *)
(*                                                                         *)
(* Hints are what the page before it showed: the row and the lane of each  *)
(* of its units.  A layout is a record                                     *)
(*   units, deps : what the page shows,                                    *)
(*   order, row  : the units from top to bottom, and the row of each,      *)
(*   lane        : the lane of each unit,                                  *)
(*   route       : the lane of each dependency,                            *)
(*   width       : the number of lanes.                                    *)
(* Until a layout is compacted, lane n is n * Scale, so that the middle of *)
(* two lanes is an integer.                                                *)
(***************************************************************************)
EXTENDS CurriculumNeighborhood, SequencesExt

CONSTANTS SearchLimit,    \* curriculumOrderSearchLimit
          NodeLimit,      \* curriculumOrderNodeLimit
          Scale           \* bound: a power of two, the finest division of a lane

NoHints == [row |-> <<>>, lane |-> <<>>]

LexicallyLess(a, b) ==
    \E i \in DOMAIN a : a[i] < b[i] /\ \A j \in 1..(i - 1) : a[j] = b[j]

Apart(x, y) == IF x < y THEN y - x ELSE x - y

\* How much longer or more bent than the best a drawing may be.
Tolerance(V) == Max({1, Cardinality(V.deps) \div 8})

RowsOf(order) == [u \in ToSet(order) |-> CHOOSE i \in DOMAIN order : order[i] = u]

--------------------------------------------------------------------------------
(***************************************************************************)
(* Rows.                                                                   *)
(***************************************************************************)
\* sortCurriculumTraversalCandidates: where the page before had it, then what
\* continues from the unit just placed, then from the latest prerequisite.
TraversalRank(V, previous, placed, u) ==
    <<IF u \in DOMAIN previous THEN 0 ELSE 1,
      IF u \in DOMAIN previous THEN previous[u] ELSE 0,
      IF placed # <<>> /\ placed[Len(placed)] \in Prerequisites(V, u) THEN 0 ELSE 1,
      -Max({0} \cup {i \in DOMAIN placed : placed[i] \in Prerequisites(V, u)}),
      u>>

\* topologicallyOrderCurriculum: short of some units if dependencies are circular.
Available(V, placed) ==
    {u \in V.units \ ToSet(placed) : Prerequisites(V, u) \subseteq ToSet(placed)}

FirstByRank(rank) ==
    CHOOSE u \in DOMAIN rank : \A v \in DOMAIN rank \ {u} : LexicallyLess(rank[u], rank[v])

TopologicalOrder(V, previous) ==
    LET place(placed, n) ==
            IF Available(V, placed) = {} THEN placed
            ELSE Append(placed, FirstByRank([u \in Available(V, placed) |->
                                                TraversalRank(V, previous, placed, u)]))
    IN FoldLeft(place, <<>>, [n \in 1..Cardinality(V.units) |-> n])

CanBeOrdered(V) == Len(TopologicalOrder(V, <<>>)) = Cardinality(V.units)

\* Two dependencies cross when they interleave: each pair is counted once.
Crossings(deps, row) ==
    Cardinality({p \in deps \X deps :
        LET d == p[1]  e == p[2]
        IN row[d[2]] < row[e[2]] /\ row[e[2]] < row[d[1]] /\ row[d[1]] < row[e[1]]})

EdgeSpan(deps, row) == MapThenSumSet(LAMBDA d : row[d[1]] - row[d[2]], deps)

\* curriculumGraphMovementWeights
Weight(V, anchor, u) ==
    CASE u = anchor -> 4
      [] u \in Prerequisites(V, anchor) \cup Dependents(V, anchor) -> 2
      [] OTHER -> 1

\* Mutant: what moves up makes good for what moves down.
MovementSigned(V, anchor, now, before) ==
    MapThenSumSet(LAMBDA u : (now[u] - before[u]) * Weight(V, anchor, u),
                  DOMAIN now \cap DOMAIN before)

Movement(V, anchor, now, before) ==
    MapThenSumSet(LAMBDA u : Apart(now[u], before[u]) * Weight(V, anchor, u),
                  DOMAIN now \cap DOMAIN before)

\* scoreCurriculumNodes
Scored(V, order, previous, anchor) ==
    LET row == RowsOf(order)
    IN [order |-> order, crossings |-> Crossings(V.deps, row),
        span |-> EdgeSpan(V.deps, row), movement |-> Movement(V, anchor, row, previous)]

\* Ties go to the key of the order, which lists its units.
SearchRank(c) == <<c.crossings, c.span, c.movement>> \o c.order
ContinuityRank(c) == <<c.movement, c.span>> \o c.order

Swapped(order, i) == [order EXCEPT ![i] = order[i + 1], ![i + 1] = order[i]]

\* Mutant: a unit may be swapped with its prerequisite.
SwapsOfAll(V, order) == {Swapped(order, i) : i \in 1..(Len(order) - 1)}

Swaps(V, order) ==
    {Swapped(order, i) : i \in {n \in 1..(Len(order) - 1) :
                                    <<order[n + 1], order[n]>> \notin V.deps}}

Better(c, d) == LexicallyLess(SearchRank(c), SearchRank(d))

BestOf(S) == CHOOSE c \in S : \A d \in S \ {c} : Better(c, d)

Kept(S) == IF Cardinality(S) <= SearchLimit THEN S
           ELSE {c \in S : Cardinality({d \in S : Better(d, c)}) < SearchLimit}

\* improveCurriculumNodeOrder: the candidates that a best-first search explores.
Extended(search, best, found) ==
    [pending  |-> Kept((search.pending \ {best}) \cup found),
     seen     |-> search.seen \cup {c.order : c \in found},
     explored |-> search.explored \cup {best}]

Found(V, search, best, previous, anchor) ==
    {Scored(V, o, previous, anchor) : o \in Swaps(V, best.order) \ search.seen}

RECURSIVE Explored(_, _, _, _)
Explored(V, search, previous, anchor) ==
    LET best == BestOf(search.pending)
    IN IF search.pending = {} \/ Cardinality(search.explored) = SearchLimit
       THEN search.explored
       ELSE Explored(V, Extended(search, best, Found(V, search, best, previous, anchor)),
                     previous, anchor)

SearchFrom(V, seeds, previous, anchor) ==
    Explored(V, [pending |-> {Scored(V, o, previous, anchor) : o \in seeds},
                 seen |-> seeds, explored |-> {}], previous, anchor)

\* preferredCurriculumOrder: among the clearest orders, the one that moves least.
PreferredOrder(V, candidates) ==
    LET clear == {c \in candidates : \A d \in candidates : c.crossings <= d.crossings}
        eligible == {c \in clear : \A d \in clear : c.span <= d.span + Tolerance(V)}
    IN FirstByRank([o \in {c.order : c \in eligible} |->
                       ContinuityRank(CHOOSE c \in eligible : c.order = o)])

OrderOf(V, hints, anchor) ==
    LET canonical == TopologicalOrder(V, <<>>)
        seed == TopologicalOrder(V, hints.row)
    IN IF Cardinality(V.units) > NodeLimit \/ Cardinality(V.units) < 2 \/ V.deps = {}
       THEN seed
       ELSE PreferredOrder(V, SearchFrom(V, {seed, canonical}, hints.row, anchor))

--------------------------------------------------------------------------------
(***************************************************************************)
(* Lanes.                                                                  *)
(***************************************************************************)
Passes(L, d, u) == L.row[d[2]] < L.row[u] /\ L.row[u] < L.row[d[1]]

\* A dependency between two units of one lane is drawn there, not on its route.
DrawnLane(L, d) == IF L.lane[d[1]] = L.lane[d[2]] THEN L.lane[d[2]] ELSE L.route[d]

\* curriculumLaneCrossesNodeRow
IsTaken(L, lane, u) == \E d \in L.deps : Passes(L, d, u) /\ DrawnLane(L, d) = lane

LastOf(L, S) == CHOOSE u \in S : \A v \in S : L.row[v] <= L.row[u]

\* isPrimaryCurriculumBranch: the branch to the last of the dependents.
IsPrimary(L, d) == d[1] = LastOf(L, Dependents(L, d[2]))

\* The first lane that is free where the dependency starts.
Routed(L) ==
    LET above(d, e) == \/ L.row[d[2]] < L.row[e[2]]
                       \/ L.row[d[2]] = L.row[e[2]] /\ L.row[d[1]] < L.row[e[1]]
        sorted == [n \in 1..Cardinality(L.deps) |->
                      CHOOSE d \in L.deps : Cardinality({e \in L.deps : above(e, d)}) = n - 1]
        fit(s, d) ==
            LET free == {k \in DOMAIN s.ends : s.ends[k] < L.row[d[2]]}
                k == IF free = {} THEN Len(s.ends) + 1 ELSE Min(free)
            IN [ends  |-> IF free = {} THEN Append(s.ends, L.row[d[1]])
                          ELSE [s.ends EXCEPT ![k] = L.row[d[1]]],
                route |-> [s.route EXCEPT ![d] = (k - 1) * Scale]]
    IN [L EXCEPT !.route =
            FoldLeft(fit, [ends |-> <<>>, route |-> L.route], sorted).route]

\* curriculumLaneBetweenNeighbours
Beside(L, lane) ==
    LET lanes == {L.lane[u] : u \in L.units} \cup {L.route[d] : d \in L.deps}
        left == {l \in lanes : l < lane}
        right == {l \in lanes : l > lane}
    IN CASE left # {} -> (Max(left) + lane) \div 2
         [] left = {} /\ right # {} -> (lane + Min(right)) \div 2
         [] left = {} /\ right = {} -> lane + Scale \div 2

\* The straight line of units that hangs from u, each the only branch that counts.
StraightFrom(L, u) ==
    LET follow(line, n) ==
            line \cup {v \in L.units : /\ L.lane[v] = L.lane[u]
                                       /\ \E p \in line : /\ Prerequisites(L, v) = {p}
                                                          /\ IsPrimary(L, <<v, p>>)}
    IN FoldLeft(follow, {u}, L.order)

\* avoidCurriculumNodeLaneCollisions: at most one pass for each unit.
WithoutCollisions(L) ==
    LET move(M, u) ==
            IF ~IsTaken(M, M.lane[u], u) THEN M
            ELSE LET lane == Beside(M, M.lane[u])
                     line == StraightFrom(M, u)
                 IN [M EXCEPT !.lane = [v \in M.units |-> IF v \in line THEN lane ELSE @[v]]]
        pass(M, n) == FoldLeft(move, M, L.order)
    IN FoldLeft(pass, L, L.order)

\* assignCurriculumNodeLanes
UnitsPlaced(L) ==
    LET place(M, u) ==
            LET before == Prerequisites(M, u)
                after == Dependents(M, u)
                latest == LastOf(M, before)
            IN [M EXCEPT !.lane[u] =
                  CASE before # {} /\ (Cardinality(before) > 1 \/ IsPrimary(M, <<u, latest>>)) ->
                           M.lane[latest]
                    [] Cardinality(before) = 1 /\ ~IsPrimary(M, <<u, latest>>) ->
                           M.route[<<u, latest>>]
                    [] before = {} /\ after # {} -> M.route[<<LastOf(M, after), u>>]
                    [] before = {} /\ after = {} -> @]
    IN WithoutCollisions(FoldLeft(place, L, L.order))

\* compactCurriculumGraphLanes: the lanes of units, then those of bent dependencies.
Compacted(L) ==
    LET ofUnits == {L.lane[u] : u \in L.units}
        bent == {d \in L.deps : L.lane[d[1]] # L.lane[d[2]]}
        others == {L.route[d] : d \in bent} \ ofUnits
        place(l) == IF l \in ofUnits THEN Cardinality({m \in ofUnits : m < l})
                    ELSE Cardinality(ofUnits) + Cardinality({m \in others : m < l})
    IN [L EXCEPT
           !.lane = [u \in L.units |-> place(@[u])],
           !.route = [d \in L.deps |-> IF @[d] \in ofUnits \cup others
                                       THEN place(@[d]) ELSE place(L.lane[d[2]])],
           !.width = Cardinality(ofUnits \cup others)]

\* assignCurriculumGraphLaneCandidate: fresh, or on the lanes of the page before.
Recalled(L, previous) ==
    IF previous = <<>> THEN L
    ELSE WithoutCollisions([L EXCEPT !.lane = [u \in L.units |->
             IF u \in DOMAIN previous THEN previous[u] * Scale ELSE @[u]]])

LaneCandidate(L, previous) ==
    IF L.deps = {} THEN L ELSE Compacted(Recalled(UnitsPlaced(Routed(L)), previous))

\* stabilizeCurriculumNodeLanes
Stabilized(L, previous) ==
    LET settle(M, u) ==
            LET lane == Min({previous[u], M.width - 1})
            IN IF \/ u \notin DOMAIN previous
                  \/ Apart(lane, previous[u]) >= Apart(M.lane[u], previous[u])
                  \/ IsTaken(M, lane, u)
               THEN M ELSE [M EXCEPT !.lane[u] = lane]
    IN IF L.width = 0 THEN L ELSE Compacted(FoldLeft(settle, L, L.order))

\* scoreCurriculumLanes
Bends(L) ==
    MapThenSumSet(LAMBDA d : Apart(L.lane[d[2]], L.route[d]) + Apart(L.lane[d[1]], L.route[d]),
                  L.deps)

\* preferredCurriculumLaneLayout: among the narrowest candidates that bend little,
\* the one that moves least.
LaneScore(L, previous, anchor) ==
    [width |-> L.width, bends |-> Bends(L), movement |-> Movement(L, anchor, L.lane, previous)]

PreferredLanes(candidates, score, tolerance) ==
    LET narrow == {i \in DOMAIN score : \A j \in DOMAIN score : score[i].width <= score[j].width}
        eligible == {i \in narrow : \A j \in narrow : score[i].bends <= score[j].bends + tolerance}
    IN candidates[FirstByRank([i \in eligible |-> <<score[i].movement, score[i].bends, i>>])]

\* assignCurriculumGraphLanes: a new routing, the lanes of the page before, or the
\* new routing settled towards them.
LanesAfter(L, fresh, previous, anchor) ==
    LET candidates == <<fresh, LaneCandidate(L, previous), Stabilized(fresh, previous)>>
    IN PreferredLanes(candidates,
                      [i \in 1..3 |-> LaneScore(candidates[i], previous, anchor)], Tolerance(L))

WithLanes(L, previous, anchor) ==
    IF previous = <<>> THEN LaneCandidate(L, <<>>)
    ELSE LanesAfter(L, LaneCandidate(L, <<>>), previous, anchor)

\* Every unit on lane 0 and no lanes yet.
Drawn(V, order) ==
    [units |-> V.units, deps |-> V.deps, order |-> order, row |-> RowsOf(order),
     lane |-> [u \in V.units |-> 0], route |-> [d \in V.deps |-> 0], width |-> 0]

\* BuildCurriculumGraphLayoutWithHints, for a graph that can be ordered.
Layout(V, hints, anchor) ==
    WithLanes(Drawn(V, OrderOf(V, hints, anchor)), hints.lane, anchor)

\* positionIsolatedCreatedUnits: new units that nothing refers to come first.
IsolatedFirst(L, created) ==
    LET connected(u) == u \notin created \/ \E d \in L.deps : u \in {d[1], d[2]}
        isolated(u) == ~connected(u)
        order == SelectSeq(L.order, isolated) \o SelectSeq(L.order, connected)
    IN [L EXCEPT !.order = order, !.row = RowsOf(order)]

================================================================================
