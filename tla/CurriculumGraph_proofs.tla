------------------------- MODULE CurriculumGraph_proofs -------------------------
(***************************************************************************)
(* Facts about curriculum graphs and proposal changes, for every graph and *)
(* every set of changes.  The fixpoints of CurriculumGraph are over sets   *)
(* of units, so none of the arguments needs induction or finiteness.       *)
(***************************************************************************)
EXTENDS CurriculumGraph, TLAPS

(***************************************************************************)
(* Acyclicity.                                                             *)
(***************************************************************************)

\* Removing dependencies cannot close a cycle.
LEMMA AcyclicSubset ==
    ASSUME NEW E, NEW F, E \subseteq F, Acyclic(F)
    PROVE  Acyclic(E)
<1>1. SUFFICES ASSUME NEW S \in SUBSET {d[1] : d \in E}, S # {}
               PROVE  \E u \in S : \A d \in E : d[1] = u => d[2] \notin S
  BY DEF Acyclic
<1>2. S \in SUBSET {d[1] : d \in F}
  OBVIOUS
<1>3. PICK u \in S : \A d \in F : d[1] = u => d[2] \notin S
  BY <1>1, <1>2 DEF Acyclic
<1> QED BY <1>3

\* The cycle check of the draft editor (curriculumDependencyCreatesCycle) is
\* safe: a dependency it lets through closes no cycle.
THEOREM CycleCheckAdmitsNoCycle ==
    ASSUME NEW E, NEW u, NEW q, Acyclic(E), ~CreatesCycle(E, u, q)
    PROVE  Acyclic(E \cup {<<u, q>>})
<1>1. PICK D \in SUBSET (Endpoints(E) \cup {u, q}) :
          u \in D /\ ClosedUnderDependents(D, E) /\ q \notin D
  BY DEF CreatesCycle
<1>2. SUFFICES ASSUME NEW S, S \subseteq {d[1] : d \in E \cup {<<u, q>>}}, S # {},
                      \A x \in S : \E d \in E \cup {<<u, q>>} : d[1] = x /\ d[2] \in S
               PROVE  FALSE
  BY DEF Acyclic
<1>3. CASE S \subseteq D
  <2>1. \A x \in S : \E d \in E : d[1] = x /\ d[2] \in S
    BY <1>1, <1>2, <1>3
  <2>2. S \subseteq {d[1] : d \in E}
    BY <2>1
  <2> QED BY <2>1, <2>2, <1>2 DEF Acyclic
<1>4. CASE ~(S \subseteq D)
  <2> DEFINE T == S \ D
  <2>1. \A x \in T : \E d \in E : d[1] = x /\ d[2] \in T
    <3>1. SUFFICES ASSUME NEW x \in T
                   PROVE  \E d \in E : d[1] = x /\ d[2] \in T
      OBVIOUS
    <3>2. PICK d \in E \cup {<<u, q>>} : d[1] = x /\ d[2] \in S
      BY <1>2
    <3>3. d \in E
      BY <3>1, <3>2, <1>1
    <3>4. d[2] \notin D
      BY <3>1, <3>2, <3>3, <1>1 DEF ClosedUnderDependents
    <3> QED BY <3>2, <3>3, <3>4
  <2>2. T # {} /\ T \subseteq {d[1] : d \in E}
    BY <2>1, <1>4
  <2> QED BY <2>1, <2>2 DEF Acyclic
<1> QED BY <1>3, <1>4

\* ... and it is exact: a dependency it refuses would close a cycle.
THEOREM CycleCheckRefusesOnlyCycles ==
    ASSUME NEW E, NEW u, NEW q, CreatesCycle(E, u, q)
    PROVE  ~Acyclic(E \cup {<<u, q>>})
<1> DEFINE N == Endpoints(E) \cup {u, q}
           Closed(D) == u \in D /\ ClosedUnderDependents(D, E)
           R == {x \in N : \A D \in SUBSET N : Closed(D) => x \in D}
           F == E \cup {<<u, q>>}
<1>1. u \in R /\ q \in R
  BY DEF CreatesCycle
<1>2. Closed(R)
  <2>1. SUFFICES ASSUME NEW d \in E, d[2] \in R PROVE d[1] \in R
    BY <1>1 DEF ClosedUnderDependents
  <2>2. d[1] \in N
    BY DEF Endpoints
  <2>3. ASSUME NEW D \in SUBSET N, Closed(D) PROVE d[1] \in D
    BY <2>1, <2>3 DEF ClosedUnderDependents
  <2> QED BY <2>2, <2>3
<1>3. ASSUME NEW x \in R PROVE \E d \in F : d[1] = x /\ d[2] \in R
  <2>1. CASE x = u
    <3>1. <<u, q>> \in F /\ <<u, q>>[1] = u /\ <<u, q>>[2] = q
      OBVIOUS
    <3> QED BY <3>1, <2>1, <1>1
  <2>2. CASE x # u
    <3>1. SUFFICES ASSUME \A d \in E : d[1] = x => d[2] \notin R PROVE FALSE
      OBVIOUS
    <3>2. Closed(R \ {x})
      BY <3>1, <2>2, <1>1, <1>2 DEF ClosedUnderDependents
    <3>3. R \ {x} \in SUBSET N
      OBVIOUS
    <3> QED BY <3>2, <3>3, <1>3
  <2> QED BY <2>1, <2>2
<1>4. R \in SUBSET {d[1] : d \in F} /\ R # {}
  BY <1>1, <1>3
<1> QED BY <1>3, <1>4 DEF Acyclic

(***************************************************************************)
(* Proposals over a graph.                                                 *)
(***************************************************************************)

\* The result of any changes over a graph is a graph: whatever a draft holds,
\* its working graph can be shown.
LEMMA WithProposalIsGraph ==
    ASSUME NEW H, IsGraph(H), NEW C \in SUBSET Change
    PROVE  IsGraph(WithProposal(H, C))
<1> DEFINE W == WithProposal(H, C)
<1>1. /\ \A c \in Kind(C, "create_unit") : c.unit \in UnitId /\ c.text \in [Field -> Text]
      /\ \A c \in Kind(C, "add_dependency") : c.unit \in UnitId /\ c.prerequisite \in UnitId
      /\ \A f \in Field, u \in UnitId : \A c \in EditsOf(C, f, u) : c.value \in Text
  BY DEF Kind, Change, EditsOf, EditKind, Field
<1>2. ResultingUnits(H, C) \in SUBSET UnitId
  BY <1>1 DEF ResultingUnits, Created, IsGraph
<1>3. EditedDependencies(H, C) \in SUBSET (UnitId \X UnitId)
  BY <1>1 DEF EditedDependencies, Added, IsGraph
<1>4. ASSUME NEW u \in ResultingUnits(H, C), NEW f \in Field
      PROVE  TextAfter(H, C, f, u) \in Text
  <2>1. CASE EditsOf(C, f, u) # {}
    BY <2>1, <1>1, <1>2 DEF TextAfter
  <2>2. CASE EditsOf(C, f, u) = {} /\ u \in Created(C)
    <3>1. \E c \in Kind(C, "create_unit") : c.unit = u
      BY <2>2 DEF Created
    <3> DEFINE c == CHOOSE c \in Kind(C, "create_unit") : c.unit = u
    <3>2. c \in Kind(C, "create_unit")
      BY <3>1
    <3>3. c.text[f] \in Text
      BY <3>2, <1>1
    <3> QED BY <3>3, <2>2 DEF TextAfter, TextBefore
  <2>3. CASE EditsOf(C, f, u) = {} /\ u \notin Created(C)
    <3>1. u \in H.units
      BY <2>3 DEF ResultingUnits
    <3> QED BY <3>1, <2>3 DEF TextAfter, TextBefore, IsGraph
  <2> QED BY <2>1, <2>2, <2>3
<1>5. /\ W.units = ResultingUnits(H, C)
      /\ W.deps \subseteq EditedDependencies(H, C)
      /\ W.text = [u \in ResultingUnits(H, C) |-> [f \in Field |-> TextAfter(H, C, f, u)]]
      /\ W = [units |-> W.units, deps |-> W.deps, text |-> W.text]
  BY DEF WithProposal
<1>6. W.text \in [W.units -> [Field -> Text]]
  BY <1>4, <1>5
<1> QED BY <1>2, <1>3, <1>5, <1>6 DEF IsGraph

\* What validateCurriculumProposal accepts, the database can write: the rows of
\* a valid proposal violate no key and no reference of the projection.
LEMMA ValidIsProjectable ==
    ASSUME NEW H, NEW C, ValidProposal(H, C)
    PROVE  Projectable(H, C)
BY DEF ValidProposal, ValidCreations, ValidDependencies, Projectable

\* Applying a valid proposal to a graph yields a directed acyclic graph over
\* its own units.
LEMMA ValidKeepsSound ==
    ASSUME NEW H, NEW C, ValidProposal(H, C)
    PROVE  SoundGraph(WithProposal(H, C))
<1> DEFINE W == WithProposal(H, C)
<1>1. /\ W.units = ResultingUnits(H, C)
      /\ W.deps = {d \in EditedDependencies(H, C) : {d[1], d[2]} \cap Deleted(C) = {}}
  BY DEF WithProposal
<1>2. \A d \in EditedDependencies(H, C) : {d[1], d[2]} \subseteq H.units \cup Created(C)
  BY DEF ValidProposal, ValidDependencies, SoundGraph, EditedDependencies, Endpoints
<1>3. Endpoints(W.deps) \subseteq W.units
  BY <1>1, <1>2 DEF Endpoints, ResultingUnits
<1>4. Acyclic(W.deps)
  BY <1>1, AcyclicSubset DEF ValidProposal, ValidDependencies
<1> QED BY <1>3, <1>4 DEF SoundGraph

================================================================================
