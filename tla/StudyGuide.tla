------------------------------- MODULE StudyGuide -------------------------------
(***************************************************************************)
(* What a learner is told to study next: the recommendations of the REST   *)
(* and MCP adapters and of the home page, and the graph of a path on the   *)
(* Learn page (internal/services/learning.go, AvailableLearningPathUnits,  *)
(* internal/server/learn.go and home.go).                                  *)
(*                                                                         *)
(* No read here is a transaction: paths, units, dependencies and           *)
(* completions are four statements, and each sees what is committed when   *)
(* it runs.  Meanwhile the learner edits paths and studies elsewhere, and  *)
(* acceptances migrate the targets: the paths are those of LearningPaths.  *)
(***************************************************************************)
EXTENDS LearningPaths, SequencesExt

CONSTANTS Requires,    \* the dependencies, <<unit, prerequisite>>, once a publication is the head
          Reader,      \* requests that read
          Pages        \* bound: the pages read in an instance

\* Identities are numbers of a sequence, of which there are finitely many.
ASSUME UnitAssumption == IsFiniteSet(Unit)

\* CurriculumProposals: what is published is acyclic and among published units.
ASSUME RequiresAssumption ==
    /\ Publishable \cup {Initial} \subseteq DOMAIN Requires
    /\ \A P \in DOMAIN Requires, S \in (SUBSET Unit) \ {{}} :
          \E u \in S : \A q \in S : <<u, q>> \notin Requires[P]

\* The statements behind a page, in their order.
Statements ==
    [recommendations |-> <<"paths", "units", "dependencies", "completed">>,
     learn           |-> <<"units", "dependencies", "paths", "completed">>,
     learn_path      |-> <<"units", "dependencies", "completed", "paths">>]

ASSUME PagesAssumption == Pages \subseteq DOMAIN Statements

VARIABLES
    completed,   \* the units the learner has completed or had recognized
    reading      \* the reads under way and their results

studyVars == <<accepted, paths, rows, acceptance, request, listed, completed, reading>>

NotReading == [page |-> "none"]

StudyInit ==
    /\ Init
    /\ completed = {}
    /\ reading = [x \in Reader |-> NotReading]

\* unit_dependencies after the publications s: they go with their units.
DependenciesOf(s) == Requires[Last(s)] \cap (PublishedBy(s) \X PublishedBy(s))

--------------------------------------------------------------------------------
(***************************************************************************)
(* Progress.  LearningProgress says which units are recognized; a reader   *)
(* can only tell that one more, or one less, is completed.                 *)
(***************************************************************************)
SetUnitProgress(u) ==
    /\ \/ u \in Units /\ completed' = completed \cup {u}
       \/ completed' = completed \ {u}
    /\ UNCHANGED <<vars, reading>>

\* Paths are edited and migrated, and an acceptance recognizes units as well.
Elsewhere ==
    /\ Next
    /\ \E S \in SUBSET UNION {P.rules : P \in Range(accepted') \ Range(accepted)} :
          completed' = completed \cup UNION {x.targets : x \in S}
    /\ UNCHANGED reading

--------------------------------------------------------------------------------
(***************************************************************************)
(* Reads.                                                                  *)
(***************************************************************************)
Open(x, page) ==
    /\ reading[x] = NotReading
    /\ reading' = [reading EXCEPT ![x] =
           [page |-> page, left |-> Statements[page], heads |-> {},
            units |-> {}, dependencies |-> {}, paths |-> <<>>, completed |-> {}]]
    /\ UNCHANGED <<vars, completed>>

Reading(x, statement) ==
    reading[x] # NotReading /\ reading[x].left # <<>> /\ Head(reading[x].left) = statement

\* The statement is done and its result is kept in the field of its name; heads
\* is history, the publications that were the head when a statement ran.
After(x, statement, result) ==
    LET g == reading[x] IN
    reading' = [reading EXCEPT ![x] =
        [g EXCEPT ![statement] = result, !.left = Tail(g.left),
                  !.heads = g.heads \cup {Len(accepted)}]]

\* ListLearningPaths: the paths with their targets, retired ones included.
ListLearningPaths(x) ==
    /\ Reading(x, "paths")
    /\ After(x, "paths", [p \in paths |-> TargetsOf(rows, p)])
    /\ UNCHANGED <<vars, completed>>

\* getCurriculumGraph: the units ...
ListUnits(x) ==
    /\ Reading(x, "units")
    /\ After(x, "units", Units)
    /\ UNCHANGED <<vars, completed>>

\* ... and then the dependencies.
ListDependencies(x) ==
    /\ Reading(x, "dependencies")
    /\ After(x, "dependencies", DependenciesOf(accepted))
    /\ UNCHANGED <<vars, completed>>

CompletedUnitIDs(x) ==
    /\ Reading(x, "completed")
    /\ After(x, "completed", completed)
    /\ UNCHANGED <<vars, completed>>

Close(x) ==
    /\ reading[x] # NotReading
    /\ reading' = [reading EXCEPT ![x] = NotReading]
    /\ UNCHANGED <<vars, completed>>

StudyNext ==
    \/ Elsewhere
    \/ \E u \in Unit : SetUnitProgress(u)
    \/ \E x \in Reader :
          \/ \E page \in Pages : Open(x, page)
          \/ ListLearningPaths(x)
          \/ ListUnits(x)
          \/ ListDependencies(x)
          \/ CompletedUnitIDs(x)
          \/ Close(x)

StudySpec == StudyInit /\ [][StudyNext]_studyVars

--------------------------------------------------------------------------------
(***************************************************************************)
(* The answer.                                                             *)
(***************************************************************************)
\* CurriculumPathSubgraph: the targets that are published, and every
\* prerequisite that can be reached from them through published units.
Included(g, targets) ==
    LET closed(S) == \A d \in g.dependencies :
                        d[1] \in S /\ d[2] \in g.units => d[2] \in S
    IN {u \in g.units : \A S \in SUBSET g.units :
                            targets \cap g.units \subseteq S /\ closed(S) => u \in S}

Pending(g, targets) == Included(g, targets) \ g.completed

\* Mutant: a prerequisite blocks although it is not part of the path.
AvailableUnblocked(g, targets) ==
    {u \in Pending(g, targets) :
        \A d \in g.dependencies : d[1] = u => d[2] \in g.completed}

\* AvailableLearningPathUnits: what is pending and not blocked by another unit
\* of the path.
Available(g, targets) ==
    {u \in Pending(g, targets) :
        \A d \in g.dependencies :
            d[1] = u /\ d[2] \in Included(g, targets) => d[2] \in g.completed}

--------------------------------------------------------------------------------
(***************************************************************************)
(* Properties.                                                             *)
(***************************************************************************)
Answered(x) == reading[x] # NotReading /\ reading[x].left = <<>>

\* What follows from the k-th publication alone for a path with these targets:
\* the units in reach of a target that are not completed, although their
\* prerequisites are.
Due(k, targets, done) ==
    LET history == SubSeq(accepted, 1, k)
        requires == DependenciesOf(history)
        reach[n \in 0..Cardinality(Unit)] ==
            IF n = 0 THEN targets \cap PublishedBy(history)
            ELSE reach[n - 1] \cup {d[2] : d \in {e \in requires : e[1] \in reach[n - 1]}}
    IN {u \in reach[Cardinality(Unit)] \ done : \A d \in requires : d[1] = u => d[2] \in done}

\* Nobody is left without advice: whoever has something left to learn on a path
\* is told a unit to learn now, even when acceptances turn the curriculum around
\* between the statements of one answer.  When none did, it is exactly what the
\* curriculum of that moment asks for next.
AdviceLeadsOn ==
    \A x \in Reader : Answered(x) =>
        LET g == reading[x] IN
        \A p \in DOMAIN g.paths :
           /\ Pending(g, g.paths[p]) # {} => Available(g, g.paths[p]) # {}
           /\ \A k \in g.heads : g.heads = {k} =>
                  Available(g, g.paths[p]) = Due(k, g.paths[p], g.completed)

================================================================================
