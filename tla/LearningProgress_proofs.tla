------------------------- MODULE LearningProgress_proofs -------------------------
(***************************************************************************)
(* Proofs about LearningProgress, for every set of learners, units,        *)
(* requests and proposals.                                                 *)
(*                                                                         *)
(* Grounded is computed one proposal at a time, and all that is needed of  *)
(* it is the equation it solves: the rows, up to the head, that completions*)
(* and the solution itself support. A row is supported by earlier rows     *)
(* only, so there is one solution, and solutions are compared by their     *)
(* first difference.                                                       *)
(***************************************************************************)
EXTENDS LearningProgress, WellFoundedInduction, FiniteSetTheorems, TLAPS

\* Every set of numbers that is not empty has a least element.
LEMMA Least ==
  ASSUME NEW S \in SUBSET Nat, S # {}
  PROVE  \E m \in S : \A n \in S : m <= n
<1>1. \E m \in S : \A n \in S : ~ (<<n, m>> \in OpToRel(<, Nat))
  BY WFMin, NatLessThanWellFounded, Zenon
<1>2. PICK m \in S : \A n \in S : ~ (n < m)
  BY <1>1, Zenon DEF OpToRel
<1> QED BY <1>2

\* Induction over the naturals, for a set.
LEMMA SetInduction ==
  ASSUME NEW S, 0 \in S, \A n \in Nat : n \in S => n + 1 \in S
  PROVE  Nat \subseteq S
<1> SUFFICES ASSUME Nat \ S # {} PROVE FALSE
  OBVIOUS
<1>1. PICK m \in Nat \ S : \A n \in Nat \ S : m <= n
  <2> DEFINE T == Nat \ S
  <2>1. T \in SUBSET Nat /\ T # {}
    OBVIOUS
  <2> HIDE DEF T
  <2>2. \E m \in T : \A n \in T : m <= n
    BY <2>1, Least, Zenon
  <2> QED BY <2>2 DEF T
<1>2. m # 0 /\ m - 1 \in Nat /\ (m - 1) + 1 = m
  BY <1>1
<1> QED BY <1>1, <1>2

--------------------------------------------------------------------------------
(***************************************************************************)
(* Evidence, and the rows it supports.                                     *)
(***************************************************************************)

\* The rows of G are supported by rows of G.
Founded(G, E) == \A row \in G : row.proposal \in Nat /\ Supported(row, E, G)

\* Whatever of R the rows of H support, up to the n-th proposal, is in H.
Closed(H, R, E, n) ==
  \A row \in R : row.proposal \in 1..n /\ Supported(row, E, H) => row \in H

\* What supports a row is of its learner and earlier.
LEMMA SupportedByEarlier ==
  ASSUME NEW row, NEW E, NEW F, NEW R, NEW S,
         \A e \in E : e[1] = row.learner /\ e[3] < row.proposal => e \in F,
         \A x \in R : x.learner = row.learner /\ x.proposal < row.proposal => x \in S,
         Supported(row, E, R)
  PROVE  Supported(row, F, S)
<1> SUFFICES ASSUME NEW u \in row.rule.sources
             PROVE  u \in Evidence(row.learner, row.proposal, F, S)
  BY Zenon DEF Supported
<1>1. u \in Evidence(row.learner, row.proposal, E, R)
  BY Zenon DEF Supported
<1> QED BY <1>1 DEF Evidence

\* A founded set is part of every closed one: its first row that is not there
\* would be supported there.
LEMMA FoundedInClosed ==
  ASSUME NEW G, NEW H, NEW R, NEW E, NEW F, NEW n \in Nat,
         Founded(G, E), Closed(H, R, F, n),
         G \subseteq R, \A row \in G : row.proposal \in 1..n,
         \A row \in G, e \in E : e[1] = row.learner /\ e[3] < row.proposal => e \in F
  PROVE  G \subseteq H
<1> DEFINE T == {row.proposal : row \in G \ H}
<1> SUFFICES ASSUME G \ H # {} PROVE FALSE
  OBVIOUS
<1>1. T \in SUBSET Nat /\ T # {}
  BY DEF Founded
<1>2. PICK m \in T : \A k \in T : m <= k
  <2> HIDE DEF T
  <2> QED BY <1>1, Least, Zenon
<1>3. PICK row \in G \ H : row.proposal = m
  BY <1>2
<1>4. \A x \in G : x.learner = row.learner /\ x.proposal < row.proposal => x \in H
  <2> SUFFICES ASSUME NEW x \in G, x.proposal < row.proposal, x \notin H PROVE FALSE
    OBVIOUS
  <2>1. x.proposal \in T
    OBVIOUS
  <2>2. m <= x.proposal /\ m \in Nat /\ x.proposal \in Nat
    BY <2>1, <1>1, <1>2
  <2> QED BY <2>2, <1>3
<1>5. Supported(row, E, G)
  BY Zenon DEF Founded
<1>6. Supported(row, F, H)
  BY <1>4, <1>5, SupportedByEarlier, Zenon
<1> QED BY <1>6 DEF Closed

--------------------------------------------------------------------------------
(***************************************************************************)
(* Grounded(R, E) solves its equation.                                     *)
(***************************************************************************)

\* The function whose last value Grounded is.
Stages(f, R, E, n) ==
  f = [k \in 0..n |->
         IF k = 0 THEN {}
         ELSE f[k - 1] \cup {row \in R : row.proposal = k /\ Supported(row, E, f[k - 1])}]

\* The rows grounded by the publications up to n, one publication after another.
LEMMA StagesExist ==
  ASSUME NEW R, NEW E
  PROVE  \A n \in Nat : \E f : Stages(f, R, E, n)
<1> DEFINE S == {n \in Nat : \E f : Stages(f, R, E, n)}
<1>1. 0 \in S
  <2> DEFINE f == [k \in 0..0 |-> {}]
  <2>1. Stages(f, R, E, 0)
    <3>1. \A k \in 0..0 : k = 0
      OBVIOUS
    <3> QED BY <3>1, Zenon DEF Stages
  <2> QED BY <2>1
<1>2. ASSUME NEW n \in Nat, n \in S PROVE n + 1 \in S
  <2>1. PICK f : Stages(f, R, E, n)
    BY <1>2
  <2> DEFINE last == f[n] \cup {row \in R : row.proposal = n + 1 /\ Supported(row, E, f[n])}
             g == [k \in 0..(n + 1) |-> IF k = n + 1 THEN last ELSE f[k]]
             body(h, k) == IF k = 0 THEN {}
                           ELSE h[k - 1] \cup {row \in R : row.proposal = k /\ Supported(row, E, h[k - 1])}
  <2>2. \A k \in 0..(n + 1) : g[k] = body(g, k)
    <3> SUFFICES ASSUME NEW k \in 0..(n + 1) PROVE g[k] = body(g, k)
      OBVIOUS
    <3>1. CASE k = n + 1
      <4>1. k # 0 /\ k - 1 = n /\ n \in 0..(n + 1) /\ n # n + 1
        BY <3>1
      <4>2. g[k - 1] = f[n] /\ g[k] = last
        BY <3>1, <4>1
      <4> HIDE DEF g
      <4> QED BY <3>1, <4>1, <4>2
    <3>2. CASE k # n + 1
      <4>1. k \in 0..n /\ g[k] = f[k]
        BY <3>2
      <4>2. f[k] = body(f, k)
        BY <2>1, <4>1, Zenon DEF Stages
      <4>3. k # 0 => k - 1 \in 0..(n + 1) /\ k - 1 # n + 1
        BY <4>1
      <4>4. k # 0 => g[k - 1] = f[k - 1]
        BY <4>3
      <4> HIDE DEF g
      <4> QED BY <4>1, <4>2, <4>4, Zenon
    <3> QED BY <3>1, <3>2
  <2>3. g = [k \in 0..(n + 1) |-> g[k]]
    OBVIOUS
  <2>4. Stages(g, R, E, n + 1)
    <3> HIDE DEF g
    <3> QED BY <2>2, <2>3, Zenon DEF Stages
  <2> QED BY <2>4
<1>3. Nat \subseteq S
  <2> HIDE DEF S
  <2> QED BY <1>1, <1>2, SetInduction
<1> QED BY <1>3

\* A stage has the rows of its proposal and those before.
LEMMA StagesAreRows ==
  ASSUME NEW R, NEW E, NEW n \in Nat, NEW f, Stages(f, R, E, n), NEW k \in 0..n
  PROVE  \A row : row \in f[k] <=> /\ row \in R /\ row.proposal \in 1..k
                                   /\ Supported(row, E, f[row.proposal - 1])
<1> DEFINE Rows(j) == {row \in R : row.proposal \in 1..j /\ Supported(row, E, f[row.proposal - 1])}
           S == {j \in Nat : j <= n => f[j] = Rows(j)}
<1>1. 0 \in S
  <2>1. f[0] = {}
    <3>1. 0 \in 0..n
      OBVIOUS
    <3> QED BY <3>1, Zenon DEF Stages
  <2>2. Rows(0) = {}
    OBVIOUS
  <2> QED BY <2>1, <2>2
<1>2. ASSUME NEW j \in Nat, j \in S PROVE j + 1 \in S
  <2> SUFFICES ASSUME j + 1 <= n PROVE f[j + 1] = Rows(j + 1)
    OBVIOUS
  <2>1. j + 1 \in 0..n /\ j + 1 # 0 /\ (j + 1) - 1 = j /\ j <= n
    OBVIOUS
  <2>2. f[j + 1] = f[j] \cup {row \in R : row.proposal = j + 1 /\ Supported(row, E, f[j])}
    <3>1. f[j + 1] = f[(j + 1) - 1] \cup {row \in R : row.proposal = j + 1 /\ Supported(row, E, f[(j + 1) - 1])}
      BY <2>1, Zenon DEF Stages
    <3> QED BY <3>1, <2>1
  <2>3. f[j] = Rows(j)
    BY <1>2, <2>1
  <2>4. \A p : p \in 1..(j + 1) <=> p \in 1..j \/ p = j + 1
    OBVIOUS
  <2> QED BY <2>1, <2>2, <2>3, <2>4
<1>3. k \in S
  <2> HIDE DEF S
  <2>1. Nat \subseteq S
    BY <1>1, <1>2, SetInduction
  <2> QED BY <2>1
<1> QED BY <1>3

\* Grounded, of the first n proposals.
GroundedUpTo(n, R, E) ==
    LET upTo[k \in 0..n] ==
            IF k = 0 THEN {}
            ELSE upTo[k - 1] \cup
                 {row \in R : row.proposal = k /\ Supported(row, E, upTo[k - 1])}
    IN upTo[n]

\* They are the rows supported by completions or by rows grounded earlier.
LEMMA GroundedSolves ==
  ASSUME NEW R, NEW E, NEW n \in Nat
  PROVE  LET G == GroundedUpTo(n, R, E)
         IN  \A row : row \in G <=> row \in R /\ row.proposal \in 1..n /\ Supported(row, E, G)
<1> DEFINE f == CHOOSE f : Stages(f, R, E, n)
           G == f[n]
<1>1. GroundedUpTo(n, R, E) = G
  BY Zenon DEF GroundedUpTo, Stages
<1>2. Stages(f, R, E, n)
  BY StagesExist, Zenon
<1> HIDE DEF f
<1>3. \A k \in 0..n : \A row : row \in f[k] <=> /\ row \in R /\ row.proposal \in 1..k
                                                /\ Supported(row, E, f[row.proposal - 1])
  BY <1>2, StagesAreRows, Zenon
<1>4. \A row : row \in G <=> row \in R /\ row.proposal \in 1..n /\ Supported(row, E, f[row.proposal - 1])
  <2>1. n \in 0..n
    OBVIOUS
  <2> QED BY <1>3, <2>1, Zenon
<1>5. ASSUME NEW row, row.proposal \in 1..n
      PROVE  Supported(row, E, f[row.proposal - 1]) <=> Supported(row, E, G)
  <2> DEFINE before == f[row.proposal - 1]
  <2>1. row.proposal - 1 \in 0..n
    BY <1>5
  <2>2. \A x : x \in before => x \in G /\ x.proposal < row.proposal
    <3> SUFFICES ASSUME NEW x, x \in before PROVE x \in G /\ x.proposal < row.proposal
      OBVIOUS
    <3>1. x \in R /\ x.proposal \in 1..(row.proposal - 1) /\ Supported(x, E, f[x.proposal - 1])
      BY <1>3, <2>1, Zenon
    <3>2. x.proposal \in 1..n /\ x.proposal < row.proposal
      BY <3>1, <1>5
    <3> QED BY <3>1, <3>2, <1>4, Zenon
  <2>3. \A x : x \in G /\ x.proposal < row.proposal => x \in before
    <3> SUFFICES ASSUME NEW x, x \in G, x.proposal < row.proposal PROVE x \in before
      OBVIOUS
    <3>1. x \in R /\ x.proposal \in 1..n /\ Supported(x, E, f[x.proposal - 1])
      BY <1>4, Zenon
    <3>2. x.proposal \in 1..(row.proposal - 1)
      BY <3>1, <1>5
    <3> QED BY <3>1, <3>2, <1>3, <2>1, Zenon
  <2> HIDE DEF before, G
  <2>4. Supported(row, E, before) => Supported(row, E, G)
    BY <2>2, SupportedByEarlier, Zenon
  <2>5. Supported(row, E, G) => Supported(row, E, before)
    BY <2>3, SupportedByEarlier, Zenon
  <2> QED BY <2>4, <2>5 DEF before
<1> HIDE DEF G
<1>6. \A row : row \in G <=> row \in R /\ row.proposal \in 1..n /\ Supported(row, E, G)
  BY <1>4, <1>5, Zenon
<1> QED BY <1>1, <1>6, Zenon

--------------------------------------------------------------------------------
(***************************************************************************)
(* The inductive invariant.                                                *)
(***************************************************************************)
Opened == [open : {TRUE}, publication : Publishable, rows : SUBSET Row]

Returning ==
  [phase : {"direct", "derived", "prune", "commit"}, learner : Learner, unit : Unit,
   direct : SUBSET Unit, rows : SUBSET Row]

Typed ==
  /\ accepted \in Seq(Publishable) /\ Len(accepted) <= MaxPublications
  /\ direct \in [Learner -> [Unit -> 0..Len(accepted)]]
  /\ recognized \subseteq Row
  /\ acceptance \in Opened \cup {NoAcceptance}
  /\ acceptance.open => Len(accepted) < MaxPublications
  /\ returning \in [Requests -> Returning \cup {NoReturn}]
  /\ ever \subseteq Learner \X Unit \X (1..Len(accepted))

\* A return deletes its unit's completion and rows nobody else is deleting.
RowsAreLocked ==
  \A r \in Requests : returning[r].phase # "idle" =>
    /\ returning[r].direct \subseteq {returning[r].unit}
    /\ returning[r].rows \subseteq recognized
    /\ \A q \in Requests : returning[q].phase # "idle" /\ q # r =>
         returning[q].rows \cap returning[r].rows = {}

\* A completion that counts was recorded.
CompletionsWereRecorded == Completions(direct) \subseteq ever

\* The rows an acceptance has inserted are those of its rules, of the proposal
\* to come, and what supports them was recorded before.
InsertionsAreGrounded ==
  acceptance.open => \A row \in acceptance.rows :
    /\ row.proposal = Latest + 1
    /\ row.rule \in acceptance.publication.rules
    /\ row.unit \in row.rule.targets
    /\ Supported(row, ever, Grounded(AllRows, ever))

Inv ==
  /\ Typed /\ RowsAreLocked /\ CompletionsWereRecorded
  /\ InsertionsAreGrounded /\ RecognizedFromEarlierEvidence

--------------------------------------------------------------------------------
\* Grounded, at the last publication.
LEMMA GroundedIsUpTo == ASSUME NEW R, NEW E PROVE Grounded(R, E) = GroundedUpTo(Latest, R, E)
BY DEF Grounded, GroundedUpTo

\* The inductive invariant, initially.
LEMMA InitInv == Init => Inv
<1> SUFFICES ASSUME Init PROVE Inv
  OBVIOUS
<1>1. Typed
  <2>1. <<>> \in Seq(Publishable) /\ Len(<<>>) = 0
    OBVIOUS
  <2> QED BY <2>1, BoundsAssumption DEF Init, Typed, NoAcceptance
<1>2. RowsAreLocked
  BY DEF Init, RowsAreLocked, NoReturn
<1>3. Completions(direct) = {}
  BY DEF Init, Completions
<1> QED BY <1>1, <1>2, <1>3 DEF Init, Inv, CompletionsWereRecorded, InsertionsAreGrounded,
             RecognizedFromEarlierEvidence, NoAcceptance

\* The evidence only grows.
LEMMA MoreIsGrounded ==
  ASSUME NEW n \in Nat, NEW m \in Nat, n <= m, NEW R, NEW S, R \subseteq S,
         NEW E, NEW F, E \subseteq F
  PROVE  GroundedUpTo(n, R, E) \subseteq GroundedUpTo(m, S, F)
<1> DEFINE G == GroundedUpTo(n, R, E)
           H == GroundedUpTo(m, S, F)
<1>1. \A row : row \in G <=> row \in R /\ row.proposal \in 1..n /\ Supported(row, E, G)
  BY GroundedSolves, Zenon
<1>2. \A row : row \in H <=> row \in S /\ row.proposal \in 1..m /\ Supported(row, F, H)
  BY GroundedSolves, Zenon
<1> HIDE DEF G, H
<1>3. \A row \in G : row \in S /\ row.proposal \in 1..m /\ row.proposal \in Nat
  BY <1>1
<1>4. Founded(G, E)
  BY <1>1, <1>3, Zenon DEF Founded
<1>5. Closed(H, S, F, m)
  BY <1>2, Zenon DEF Closed
<1>6. G \subseteq S
  BY <1>3
<1>7. \A row \in G : row.proposal \in 1..m
  BY <1>3
<1>8. \A row \in G, e \in E : e[1] = row.learner /\ e[3] < row.proposal => e \in F
  OBVIOUS
<1>9. G \subseteq H
  BY <1>4, <1>5, <1>6, <1>7, <1>8, FoundedInClosed, Zenon
<1> QED BY <1>9 DEF G, H

RowsAreOfRules ==
  \A row : row \in AllRows <=> /\ row \in Row /\ row.proposal <= Latest
                               /\ row.rule \in accepted[row.proposal].rules
                               /\ row.unit \in row.rule.targets

\* Rows are of published rules, in this state and the next.
LEMMA RowsOfRules == Typed => RowsAreOfRules
<1> SUFFICES ASSUME Typed PROVE RowsAreOfRules
  OBVIOUS
<1>1. /\ Latest \in Nat /\ Latest <= MaxPublications
      /\ \A k \in 1..Latest : accepted[k].rules \subseteq Rule
  BY PublishableAssumption DEF Typed, Latest, Publication
<1>2. ASSUME NEW row \in AllRows
      PROVE  /\ row \in Row /\ row.proposal <= Latest
             /\ row.rule \in accepted[row.proposal].rules
             /\ row.unit \in row.rule.targets
  <2>1. PICK k \in 1..Latest : \E x \in accepted[k].rules : \E l \in Learner, u \in x.targets :
          row = [learner |-> l, unit |-> u, proposal |-> k, rule |-> x]
    BY DEF AllRows
  <2>2. PICK x \in accepted[k].rules : \E l \in Learner, u \in x.targets :
          row = [learner |-> l, unit |-> u, proposal |-> k, rule |-> x]
    BY <2>1
  <2>3. PICK l \in Learner, u \in x.targets :
          row = [learner |-> l, unit |-> u, proposal |-> k, rule |-> x]
    BY <2>2
  <2>4. x \in Rule /\ u \in Unit /\ k \in 1..MaxPublications /\ k <= Latest
    BY <1>1, BoundsAssumption DEF Rule
  <2> QED BY <2>3, <2>4 DEF Row
<1>3. ASSUME NEW row \in Row, row.proposal <= Latest,
             row.rule \in accepted[row.proposal].rules, row.unit \in row.rule.targets
      PROVE  row \in AllRows
  <2> DEFINE k == row.proposal
             x == row.rule
  <2>1. k \in 1..Latest /\ row.learner \in Learner
    BY <1>1, <1>3, BoundsAssumption DEF Row
  <2>2. row = [learner |-> row.learner, unit |-> row.unit, proposal |-> k, rule |-> x]
    BY DEF Row
  <2>3. row \in {[learner |-> l, unit |-> u, proposal |-> k, rule |-> x] :
                   l \in Learner, u \in x.targets}
    BY <1>3, <2>1, <2>2
  <2> QED BY <1>3, <2>1, <2>3 DEF AllRows
<1> QED BY <1>2, <1>3 DEF RowsAreOfRules

LEMMA RowsOfRulesNext == Typed' => RowsAreOfRules'
BY RowsOfRules, PTL

\* What the steps have in common: history grows.
LEMMA HistoryGrows ==
  ASSUME Typed, Typed', Latest <= Latest', ever \subseteq ever',
         \A k \in 1..Latest : accepted'[k] = accepted[k]
  PROVE  Grounded(AllRows, ever) \subseteq Grounded(AllRows, ever)'
<1>1. Latest \in Nat /\ Latest' \in Nat
  BY DEF Typed, Latest
<1>2. AllRows \subseteq AllRows'
  <2> SUFFICES ASSUME NEW row \in Row, row.proposal <= Latest,
                      row.rule \in accepted[row.proposal].rules, row.unit \in row.rule.targets
               PROVE  row \in AllRows'
    BY RowsOfRules DEF RowsAreOfRules
  <2>1. row.proposal \in 1..Latest /\ row.proposal <= Latest'
    BY <1>1, BoundsAssumption DEF Row
  <2> QED BY <2>1, RowsOfRulesNext DEF RowsAreOfRules
<1> DEFINE R == AllRows
           S == AllRows'
<1>3. GroundedUpTo(Latest, R, ever) \subseteq GroundedUpTo(Latest', S, ever')
  <2> HIDE DEF R, S
  <2>1. R \subseteq S
    BY <1>2 DEF R, S
  <2> QED BY <1>1, <2>1, MoreIsGrounded
<1>4. Grounded(AllRows, ever) = GroundedUpTo(Latest, R, ever)
  BY GroundedIsUpTo
<1>5. Grounded(AllRows, ever)' = GroundedUpTo(Latest', S, ever')
  BY DEF Grounded, GroundedUpTo
<1> QED BY <1>3, <1>4, <1>5

--------------------------------------------------------------------------------
(***************************************************************************)
(* The steps.                                                              *)
(***************************************************************************)
LEMMA SameHistory ==
  ASSUME UNCHANGED <<accepted, ever>>
  PROVE  /\ Latest' = Latest
         /\ Grounded(AllRows, ever)' = Grounded(AllRows, ever)
BY DEF Grounded, AllRows, Latest

\* A step of a return that has not ended changes what it will delete.
LEMMA ReturnStep ==
  ASSUME Inv, NEW r \in Requests, NEW t \in Returning \cup {NoReturn},
         returning' = [returning EXCEPT ![r] = t],
         t.phase # "idle" => /\ t.direct \subseteq {t.unit}
                             /\ t.rows \subseteq recognized
                             /\ \A q \in Open \ {r} : returning[q].rows \cap t.rows = {},
         UNCHANGED <<accepted, direct, recognized, acceptance, ever>>
  PROVE  Inv'
<1>1. Typed'
  BY DEF Inv, Typed
<1>2. returning'[r] = t /\ \A q \in Requests : q # r => returning'[q] = returning[q]
  BY DEF Inv, Typed
<1>3. RowsAreLocked'
  <2> SUFFICES ASSUME NEW q \in Requests, returning'[q].phase # "idle"
               PROVE  /\ returning'[q].direct \subseteq {returning'[q].unit}
                      /\ returning'[q].rows \subseteq recognized
                      /\ \A o \in Requests : returning'[o].phase # "idle" /\ o # q =>
                           returning'[o].rows \cap returning'[q].rows = {}
    BY DEF RowsAreLocked
  <2>1. CASE q = r
    BY <1>2, <2>1 DEF Open
  <2>2. CASE q # r
    <3>1. /\ returning[q].phase # "idle" /\ returning'[q] = returning[q]
          /\ returning[q].direct \subseteq {returning[q].unit}
          /\ returning[q].rows \subseteq recognized
      BY <1>2, <2>2 DEF Inv, RowsAreLocked
    <3>2. ASSUME NEW o \in Requests, returning'[o].phase # "idle", o # q
          PROVE  returning'[o].rows \cap returning'[q].rows = {}
      <4>1. CASE o = r
        BY <1>2, <2>2, <3>1, <3>2, <4>1 DEF Open
      <4>2. CASE o # r
        BY <1>2, <3>1, <3>2, <4>2 DEF Inv, RowsAreLocked
      <4> QED BY <4>1, <4>2
    <3> QED BY <3>1, <3>2
  <2> QED BY <2>1, <2>2
<1>4. CompletionsWereRecorded'
  BY DEF Inv, CompletionsWereRecorded, Completions
<1>5. InsertionsAreGrounded' /\ RecognizedFromEarlierEvidence'
  BY SameHistory DEF Inv, InsertionsAreGrounded, RecognizedFromEarlierEvidence
<1> QED BY <1>1, <1>3, <1>4, <1>5 DEF Inv

\* The fields of a return that is open.
LEMMA OpenReturn ==
  ASSUME Typed, NEW r \in Requests, returning[r].phase # "idle"
  PROVE  returning[r] \in Returning
BY DEF Typed, NoReturn

\* The statements of a return before its commit.
LEMMA Returns ==
  ASSUME Inv, NEW r \in Requests,
         \/ \E l \in Learner, u \in Unit : BeginReturn(r, l, u)
         \/ DeleteDirect(r)
         \/ DeleteDerived(r)
         \/ DeleteUnsupported(r)
         \/ RollbackReturn(r)
  PROVE  Inv'
<1>1. ASSUME NEW l \in Learner, NEW u \in Unit, BeginReturn(r, l, u) PROVE Inv'
  <2> DEFINE t == [phase |-> "direct", learner |-> l, unit |-> u, direct |-> {}, rows |-> {}]
  <2>1. t \in Returning /\ t.direct = {} /\ t.rows = {}
    BY DEF Returning
  <2>2. returning' = [returning EXCEPT ![r] = t]
    BY <1>1 DEF BeginReturn
  <2> HIDE DEF t
  <2> QED BY <1>1, <2>1, <2>2, ReturnStep DEF BeginReturn
<1>2. CASE DeleteDirect(r)
  <2> DEFINE gone == {e[2] : e \in {x \in VisibleDirect(r) : x[2] = returning[r].unit}}
             t == [returning[r] EXCEPT !.phase = "derived", !.direct = gone]
  <2>1. returning[r].phase # "idle" /\ returning' = [returning EXCEPT ![r] = t]
    BY <1>2 DEF DeleteDirect
  <2>2. returning[r] \in Returning
    BY <2>1, OpenReturn DEF Inv
  <2>3. gone \subseteq {returning[r].unit}
    OBVIOUS
  <2> HIDE DEF gone
  <2>4. t \in Returning /\ t.direct \subseteq {t.unit} /\ t.rows = returning[r].rows
    BY <2>2, <2>3 DEF Returning
  <2>5. t.rows \subseteq recognized /\ \A q \in Open \ {r} : returning[q].rows \cap t.rows = {}
    BY <2>1, <2>4 DEF Inv, RowsAreLocked, Open
  <2> HIDE DEF t
  <2> QED BY <1>2, <2>1, <2>4, <2>5, ReturnStep DEF DeleteDirect
<1>3. ASSUME NEW more \in SUBSET recognized, NEW phase \in {"prune", "commit"},
             more \cap LockedRows(r) = {},
             returning[r].phase # "idle",
             returning' = [returning EXCEPT ![r] =
                [returning[r] EXCEPT !.phase = phase, !.rows = returning[r].rows \cup more]],
             UNCHANGED <<accepted, direct, recognized, acceptance, ever>>
      PROVE  Inv'
  <2> DEFINE t == [returning[r] EXCEPT !.phase = phase, !.rows = returning[r].rows \cup more]
  <2>1. returning[r] \in Returning
    BY <1>3, OpenReturn DEF Inv
  <2>2. /\ returning[r].direct \subseteq {returning[r].unit}
        /\ returning[r].rows \subseteq recognized
        /\ \A q \in Open \ {r} : returning[q].rows \cap returning[r].rows = {}
    BY <1>3 DEF Inv, RowsAreLocked, Open
  <2>3. \A q \in Open \ {r} : returning[q].rows \cap more = {}
    BY <1>3 DEF LockedRows
  <2>4. recognized \subseteq Row
    BY DEF Inv, Typed
  <2>5. t \in Returning /\ t.direct \subseteq {t.unit} /\ t.rows = returning[r].rows \cup more
    BY <2>1, <2>2, <2>4 DEF Returning
  <2>6. t.rows \subseteq recognized /\ \A q \in Open \ {r} : returning[q].rows \cap t.rows = {}
    BY <2>2, <2>3, <2>5
  <2>7. returning' = [returning EXCEPT ![r] = t]
    BY <1>3
  <2> HIDE DEF t
  <2> QED BY <1>3, <2>5, <2>6, <2>7, ReturnStep
<1>4. CASE DeleteDerived(r)
  <2> DEFINE mine == {row \in VisibleRows(r) : row.unit = returning[r].unit}
  <2>1. mine \subseteq recognized
    BY DEF VisibleRows
  <2>2. /\ mine \cap LockedRows(r) = {} /\ returning[r].phase # "idle"
        /\ returning' = [returning EXCEPT ![r] =
             [returning[r] EXCEPT !.phase = "prune", !.rows = returning[r].rows \cup mine]]
        /\ UNCHANGED <<accepted, direct, recognized, acceptance, ever>>
    BY <1>4 DEF DeleteDerived
  <2> HIDE DEF mine
  <2> QED BY <1>3, <2>1, <2>2
<1>5. CASE DeleteUnsupported(r)
  <2> DEFINE gone == {row \in VisibleRows(r) : ~Supported(row, VisibleDirect(r), VisibleRows(r))}
             phase == IF gone = {} THEN "commit" ELSE "prune"
  <2>1. gone \subseteq recognized /\ phase \in {"prune", "commit"}
    BY DEF VisibleRows
  <2>2. /\ gone \cap LockedRows(r) = {} /\ returning[r].phase # "idle"
        /\ returning' = [returning EXCEPT ![r] =
             [returning[r] EXCEPT !.phase = phase, !.rows = returning[r].rows \cup gone]]
        /\ UNCHANGED <<accepted, direct, recognized, acceptance, ever>>
    BY <1>5 DEF DeleteUnsupported
  <2> HIDE DEF gone, phase
  <2> QED BY <1>3, <2>1, <2>2
<1>6. CASE RollbackReturn(r)
  BY <1>6, ReturnStep DEF RollbackReturn, NoReturn
<1> QED BY <1>1, <1>2, <1>4, <1>5, <1>6

\* A return that commits drops rows, and completions it deleted itself.
LEMMA CommitReturnInv ==
  ASSUME Inv, NEW r \in Requests, CommitReturn(r)
  PROVE  Inv'
<1> DEFINE t == returning[r]
           left == [u \in Unit |-> IF u \in t.direct THEN 0 ELSE direct[t.learner][u]]
<1>1. t.phase = "commit" /\ t \in Returning
  BY OpenReturn DEF CommitReturn, Inv
<1>2. /\ direct' = [direct EXCEPT ![t.learner] = left]
      /\ recognized' = recognized \ t.rows
      /\ returning' = [returning EXCEPT ![r] = NoReturn]
      /\ UNCHANGED <<accepted, acceptance, ever>>
  BY DEF CommitReturn
<1>3. t.learner \in Learner /\ 0 \in 0..Len(accepted)
  BY <1>1 DEF Returning, Inv, Typed
<1>4. left \in [Unit -> 0..Len(accepted)]
  BY <1>3 DEF Inv, Typed
<1>5. \A l \in Learner, u \in Unit : direct'[l][u] = direct[l][u] \/ direct'[l][u] = 0
  BY <1>2, <1>3, <1>4 DEF Inv, Typed
<1>6. direct' \in [Learner -> [Unit -> 0..Len(accepted)]]
  <2> HIDE DEF left
  <2> QED BY <1>2, <1>4 DEF Inv, Typed
<1> HIDE DEF left
<1>7. returning'[r] = NoReturn /\ \A q \in Requests : q # r => returning'[q] = returning[q]
  BY <1>2 DEF Inv, Typed
<1>8. Typed'
  <2>1. returning' \in [Requests -> Returning \cup {NoReturn}]
    BY <1>2 DEF Inv, Typed
  <2>2. recognized' \subseteq Row
    BY <1>2 DEF Inv, Typed
  <2> QED BY <1>2, <1>6, <2>1, <2>2 DEF Inv, Typed
<1>9. RowsAreLocked'
  <2> SUFFICES ASSUME NEW q \in Requests, returning'[q].phase # "idle"
               PROVE  /\ returning'[q].direct \subseteq {returning'[q].unit}
                      /\ returning'[q].rows \subseteq recognized'
                      /\ \A o \in Requests : returning'[o].phase # "idle" /\ o # q =>
                           returning'[o].rows \cap returning'[q].rows = {}
    BY DEF RowsAreLocked
  <2>1. q # r /\ returning'[q] = returning[q]
    BY <1>7 DEF NoReturn
  <2>2. \A o \in Requests : returning'[o].phase # "idle" => o # r /\ returning'[o] = returning[o]
    BY <1>7 DEF NoReturn
  <2> QED BY <1>1, <1>2, <2>1, <2>2 DEF Inv, RowsAreLocked
<1>10. CompletionsWereRecorded'
  <2>1. Completions(direct') \subseteq Completions(direct)
    BY <1>5 DEF Completions
  <2> QED BY <1>2, <2>1 DEF Inv, CompletionsWereRecorded
<1>11. InsertionsAreGrounded' /\ RecognizedFromEarlierEvidence'
  <2>1. recognized' \subseteq recognized
    BY <1>2
  <2> QED BY <1>2, <2>1, SameHistory DEF Inv, InsertionsAreGrounded, RecognizedFromEarlierEvidence
<1> QED BY <1>8, <1>9, <1>10, <1>11 DEF Inv

\* What a publication inserts.
LEMMA MaterializedRows ==
  ASSUME NEW n \in Nat, n < MaxPublications, NEW rules \in SUBSET Rule, NEW E, NEW R,
         NEW row \in Materialized(n + 1, rules, E, R)
  PROVE  /\ row \in Row /\ row.proposal = n + 1
         /\ row.rule \in rules /\ row.unit \in row.rule.targets
         /\ Supported(row, E, R)
<1>1. PICK l \in Learner, x \in rules :
        \E u \in x.targets :
          /\ row = [learner |-> l, unit |-> u, proposal |-> n + 1, rule |-> x]
          /\ x.sources \subseteq Evidence(l, n + 1, E, R)
  BY DEF Materialized
<1>2. PICK u \in x.targets :
          /\ row = [learner |-> l, unit |-> u, proposal |-> n + 1, rule |-> x]
          /\ x.sources \subseteq Evidence(l, n + 1, E, R)
  BY <1>1
<1>3. x \in Rule /\ u \in Unit
  BY DEF Rule
<1>4. n + 1 \in 1..MaxPublications
  BY BoundsAssumption
<1> QED BY <1>2, <1>3, <1>4 DEF Row, Supported

\* An acceptance opens: nothing is recognized yet.
LEMMA AcceptInv ==
  ASSUME Inv, NEW P \in Publishable, AcceptCurriculumProposal(P)
  PROVE  Inv'
<1> DEFINE new == Materialized(Latest + 1, P.rules, Completions(direct), recognized)
           G == Grounded(AllRows, ever)
<1>1. /\ Latest \in Nat /\ Latest < MaxPublications /\ Latest = Len(accepted)
      /\ acceptance' = [open |-> TRUE, publication |-> P, rows |-> new]
      /\ UNCHANGED <<accepted, direct, recognized, returning, ever>>
  BY DEF AcceptCurriculumProposal, Inv, Typed, Latest
<1>2. P.rules \subseteq Rule
  BY PublishableAssumption DEF Publication
<1>3. \A row \in new : /\ row \in Row /\ row.proposal = Latest + 1
                       /\ row.rule \in P.rules /\ row.unit \in row.rule.targets
                       /\ Supported(row, Completions(direct), recognized)
  BY <1>1, <1>2, MaterializedRows
<1>4. ASSUME NEW row \in new PROVE Supported(row, ever, G)
  <2>1. Completions(direct) \subseteq ever /\ recognized \subseteq G
    BY DEF Inv, CompletionsWereRecorded, RecognizedFromEarlierEvidence
  <2> HIDE DEF new, G
  <2> QED BY <1>3, <2>1, SupportedByEarlier
<1> HIDE DEF new
<1>5. Typed'
  <2>1. acceptance' \in Opened
    BY <1>1, <1>3 DEF Opened
  <2> QED BY <1>1, <2>1 DEF Inv, Typed
<1>6. RowsAreLocked' /\ CompletionsWereRecorded' /\ RecognizedFromEarlierEvidence'
  BY <1>1, SameHistory
     DEF Inv, RowsAreLocked, CompletionsWereRecorded, Completions, RecognizedFromEarlierEvidence
<1>7. InsertionsAreGrounded'
  BY <1>1, <1>3, <1>4, SameHistory DEF InsertionsAreGrounded
<1> QED BY <1>5, <1>6, <1>7 DEF Inv

\* What an acceptance appends.
LEMMA OpenAcceptance ==
  ASSUME Typed, acceptance.open
  PROVE  /\ acceptance \in Opened
         /\ Latest \in Nat /\ Latest = Len(accepted) /\ Latest < MaxPublications
BY DEF Typed, NoAcceptance, Latest

\* Materialized rows are of completions committed before the publication.
LEMMA CommitAcceptanceInv ==
  ASSUME Inv, CommitAcceptance
  PROVE  Inv'
<1> DEFINE G == Grounded(AllRows, ever)
           H == Grounded(AllRows, ever)'
<1>1. /\ acceptance.open /\ acceptance \in Opened
      /\ Latest \in Nat /\ Latest = Len(accepted) /\ Latest < MaxPublications
      /\ accepted' = Append(accepted, acceptance.publication)
      /\ recognized' = recognized \cup acceptance.rows
      /\ acceptance' = NoAcceptance
      /\ UNCHANGED <<direct, returning, ever>>
  BY OpenAcceptance DEF CommitAcceptance, Inv
<1>2. /\ accepted' \in Seq(Publishable) /\ Latest' = Latest + 1 /\ Latest' = Len(accepted')
      /\ \A k \in 1..Latest : accepted'[k] = accepted[k]
      /\ accepted'[Latest + 1] = acceptance.publication
  BY <1>1 DEF Inv, Typed, Opened, Latest
<1>3. Typed'
  <2>1. 0..Len(accepted) \subseteq 0..Len(accepted') /\ 1..Len(accepted) \subseteq 1..Len(accepted')
    BY <1>1, <1>2
  <2>2. direct \in [Learner -> [Unit -> 0..Len(accepted')]]
    BY <2>1 DEF Inv, Typed
  <2>3. ever \subseteq Learner \X Unit \X (1..Len(accepted'))
    BY <2>1 DEF Inv, Typed
  <2>4. recognized' \subseteq Row
    BY <1>1 DEF Inv, Typed, Opened
  <2>5. Len(accepted') <= MaxPublications
    BY <1>1, <1>2, BoundsAssumption
  <2> QED BY <1>1, <1>2, <2>2, <2>3, <2>4, <2>5 DEF Inv, Typed, NoAcceptance
<1>4. RowsAreLocked' /\ CompletionsWereRecorded' /\ InsertionsAreGrounded'
  BY <1>1 DEF Inv, RowsAreLocked, CompletionsWereRecorded, Completions, InsertionsAreGrounded,
              NoAcceptance
<1>5. G \subseteq H
  BY <1>1, <1>2, <1>3, HistoryGrows DEF Inv
<1>6. acceptance.rows \subseteq H
  <2> SUFFICES ASSUME NEW row \in acceptance.rows PROVE row \in H
    OBVIOUS
  <2>1. /\ row \in Row /\ row.proposal = Latest + 1
        /\ row.rule \in acceptance.publication.rules /\ row.unit \in row.rule.targets
        /\ Supported(row, ever, G)
    BY <1>1 DEF Inv, InsertionsAreGrounded, Opened
  <2>2. row \in AllRows'
    BY <1>1, <1>2, <1>3, <2>1, RowsOfRulesNext DEF RowsAreOfRules
  <2> DEFINE S == AllRows'
  <2>3. H = GroundedUpTo(Latest', S, ever)
    BY <1>1 DEF Grounded, GroundedUpTo
  <2> HIDE DEF G, H, S
  <2>4. Supported(row, ever, H)
    BY <1>5, <2>1, SupportedByEarlier
  <2>5. row.proposal \in 1..Latest' /\ Latest' \in Nat
    BY <1>1, <1>2, <2>1
  <2>6. row \in S
    BY <2>2 DEF S
  <2>7. \A x : x \in H <=> x \in S /\ x.proposal \in 1..Latest' /\ Supported(x, ever, H)
    BY <2>3, <2>5, GroundedSolves
  <2> QED BY <2>4, <2>5, <2>6, <2>7
<1>7. RecognizedFromEarlierEvidence'
  BY <1>1, <1>5, <1>6 DEF Inv, RecognizedFromEarlierEvidence
<1> QED BY <1>3, <1>4, <1>7 DEF Inv

LEMMA RollbackAcceptanceInv ==
  ASSUME Inv, RollbackAcceptance
  PROVE  Inv'
<1>1. Typed'
  BY DEF RollbackAcceptance, Inv, Typed, NoAcceptance
<1> QED BY <1>1, SameHistory
        DEF RollbackAcceptance, Inv, RowsAreLocked, CompletionsWereRecorded, Completions,
            InsertionsAreGrounded, RecognizedFromEarlierEvidence, NoAcceptance

\* Where a unit is published, something is.
LEMMA PublishedSomewhere ==
  ASSUME Typed, NEW u \in Units
  PROVE  Latest \in Nat \ {0}
<1>1. PICK k \in DOMAIN accepted : u \in accepted[k].created
  BY DEF Units, PublishedBy, CreatedBy
<1> QED BY <1>1 DEF Typed, Latest

LEMMA SetUnitCompletedInv ==
  ASSUME Inv, NEW l \in Learner, NEW u \in Unit, SetUnitCompleted(l, u)
  PROVE  Inv'
<1> DEFINE e == <<l, u, Latest>>
<1>1. /\ Latest \in Nat \ {0} /\ Latest = Len(accepted)
      /\ direct' = [direct EXCEPT ![l][u] = Latest]
      /\ ever' = ever \cup {e}
      /\ UNCHANGED <<accepted, recognized, acceptance, returning>>
  BY PublishedSomewhere DEF SetUnitCompleted, Inv, Latest
<1>2. Latest \in 0..Len(accepted) /\ Latest \in 1..Len(accepted)
  BY <1>1
<1>3. Typed'
  <2>1. direct' \in [Learner -> [Unit -> 0..Len(accepted)]]
    BY <1>1, <1>2 DEF Inv, Typed
  <2>2. ever' \subseteq Learner \X Unit \X (1..Len(accepted))
    BY <1>1, <1>2 DEF Inv, Typed
  <2> QED BY <1>1, <2>1, <2>2 DEF Inv, Typed
<1>4. \A k \in Learner, v \in Unit :
        direct'[k][v] = IF k = l /\ v = u THEN Latest ELSE direct[k][v]
  BY <1>1 DEF Inv, Typed
<1>5. CompletionsWereRecorded'
  <2>1. Completions(direct') \subseteq Completions(direct) \cup {e}
    BY <1>4 DEF Completions
  <2> QED BY <1>1, <2>1 DEF Inv, CompletionsWereRecorded
<1> HIDE DEF e
<1>6. Latest' = Latest /\ Latest <= Latest'
  BY <1>1 DEF Latest
<1>7. Grounded(AllRows, ever) \subseteq Grounded(AllRows, ever)'
  BY <1>1, <1>3, <1>6, HistoryGrows DEF Inv
<1>8. RecognizedFromEarlierEvidence'
  BY <1>1, <1>7 DEF Inv, RecognizedFromEarlierEvidence
<1>9. InsertionsAreGrounded'
  <2> DEFINE G == Grounded(AllRows, ever)
             H == Grounded(AllRows, ever)'
  <2> SUFFICES ASSUME acceptance.open, NEW row \in acceptance.rows
               PROVE  /\ row.proposal = Latest + 1
                      /\ row.rule \in acceptance.publication.rules
                      /\ row.unit \in row.rule.targets
                      /\ Supported(row, ever', H)
    BY <1>1, <1>6 DEF InsertionsAreGrounded
  <2>1. /\ row.proposal = Latest + 1
        /\ row.rule \in acceptance.publication.rules
        /\ row.unit \in row.rule.targets
        /\ Supported(row, ever, G)
    BY DEF Inv, InsertionsAreGrounded
  <2>2. ever \subseteq ever' /\ G \subseteq H
    BY <1>1, <1>7
  <2> HIDE DEF G, H
  <2>3. Supported(row, ever', H)
    BY <2>1, <2>2, SupportedByEarlier
  <2> QED BY <2>1, <2>3
<1>10. RowsAreLocked'
  BY <1>1 DEF Inv, RowsAreLocked
<1> QED BY <1>3, <1>5, <1>8, <1>9, <1>10 DEF Inv

\* Hence every step.
LEMMA NextInv == Inv /\ [Next]_vars => Inv'
<1> SUFFICES ASSUME Inv, [Next]_vars PROVE Inv'
  OBVIOUS
<1>1. ASSUME NEW P \in Publishable, AcceptCurriculumProposal(P) PROVE Inv'
  BY <1>1, AcceptInv
<1>2. CASE CommitAcceptance
  BY <1>2, CommitAcceptanceInv
<1>3. CASE RollbackAcceptance
  BY <1>3, RollbackAcceptanceInv
<1>4. ASSUME NEW l \in Learner, NEW u \in Unit, SetUnitCompleted(l, u) PROVE Inv'
  BY <1>4, SetUnitCompletedInv
<1>5. ASSUME NEW r \in Requests, CommitReturn(r) PROVE Inv'
  BY <1>5, CommitReturnInv
<1>6. ASSUME NEW r \in Requests,
             \/ \E l \in Learner, u \in Unit : BeginReturn(r, l, u)
             \/ DeleteDirect(r)
             \/ DeleteDerived(r)
             \/ DeleteUnsupported(r)
             \/ RollbackReturn(r)
      PROVE  Inv'
  BY <1>6, Returns
<1>7. CASE UNCHANGED vars
  <2>1. Typed' /\ RowsAreLocked' /\ CompletionsWereRecorded'
    BY <1>7 DEF vars, Inv, Typed, RowsAreLocked, CompletionsWereRecorded, Completions
  <2>2. InsertionsAreGrounded' /\ RecognizedFromEarlierEvidence'
    BY <1>7, SameHistory DEF vars, Inv, InsertionsAreGrounded, RecognizedFromEarlierEvidence
  <2> QED BY <2>1, <2>2 DEF Inv
<1> QED BY <1>1, <1>2, <1>3, <1>4, <1>5, <1>6, <1>7 DEF Next

\* Whether transactions have overlapped changes when one begins.
LEMMA NextBegins == [Next]_vars => Begins \/ UNCHANGED alone
BY DEF Next, vars, AcceptCurriculumProposal, CommitAcceptance, RollbackAcceptance, SetUnitCompleted,
       BeginReturn, DeleteDirect, DeleteDerived, DeleteUnsupported, CommitReturn, RollbackReturn

\* The inductive invariant holds, whatever overlaps.
THEOREM Invariant == Spec => []Inv
<1>1. Init => Inv
  BY InitInv
<1>2. Inv /\ [Next]_vars => Inv'
  BY NextInv
<1> QED BY <1>1, <1>2, PTL DEF Spec

--------------------------------------------------------------------------------
\* The state is of its type.
THEOREM TypeCorrect == Spec => []TypeOK
<1>1. Inv /\ alone \in BOOLEAN => TypeOK
  <2> SUFFICES ASSUME Inv, alone \in BOOLEAN PROVE TypeOK
    OBVIOUS
  <2>1. ASSUME NEW r \in Requests, returning[r] # NoReturn
        PROVE  /\ returning[r].phase \in {"direct", "derived", "prune", "commit"}
               /\ returning[r].learner \in Learner /\ returning[r].unit \in Unit
               /\ returning[r].direct \subseteq {returning[r].unit}
               /\ returning[r].rows \subseteq recognized
    <3>1. returning[r] \in Returning
      BY <2>1 DEF Inv, Typed
    <3> QED BY <3>1 DEF Inv, RowsAreLocked, Returning
  <2> QED BY <2>1 DEF Inv, Typed, TypeOK, Opened
<1>2. Init => alone \in BOOLEAN
  BY DEF Init
<1>3. alone \in BOOLEAN /\ [Next]_vars => (alone \in BOOLEAN)'
  <2>1. Begins => alone' \in BOOLEAN
    BY Zenon DEF Begins
  <2> QED BY <2>1, NextBegins, Zenon
<1> QED BY <1>1, <1>2, <1>3, Invariant, PTL DEF Spec

\* Nobody is granted what they never learned: every recognition follows, one
\* proposal at a time, from completions its learner recorded before, however
\* acceptances, completions and returns overlap.
THEOREM RecognitionsAreEarned == Spec => []RecognizedFromEarlierEvidence
<1>1. Inv => RecognizedFromEarlierEvidence
  BY DEF Inv
<1> QED BY <1>1, Invariant, PTL

\* A recognition is granted when its proposal is published or never: no
\* completion and no return brings one back.
THEOREM RecognitionsAreNotRevived == Spec => GrantedAtPublication
<1> DEFINE A == \A row \in recognized' \ recognized :
                   row.proposal = Len(accepted') /\ Len(accepted') = Latest + 1
<1>1. Inv /\ [Next]_vars => A
  <2> SUFFICES ASSUME Inv, [Next]_vars, NEW row \in recognized' \ recognized
               PROVE  row.proposal = Len(accepted') /\ Len(accepted') = Latest + 1
    OBVIOUS
  <2>1. ASSUME NEW r \in Requests, CommitReturn(r) PROVE recognized' \subseteq recognized
    BY <2>1 DEF CommitReturn
  <2>2. CommitAcceptance
    BY <2>1 DEF Next, vars, AcceptCurriculumProposal, RollbackAcceptance, SetUnitCompleted,
                BeginReturn, DeleteDirect, DeleteDerived, DeleteUnsupported, RollbackReturn
  <2>3. row \in acceptance.rows /\ acceptance.open
    BY <2>2 DEF CommitAcceptance
  <2>4. acceptance \in Opened /\ Latest = Len(accepted) /\ Latest \in Nat
    BY <2>3, OpenAcceptance DEF Inv
  <2>5. Len(accepted') = Latest + 1
    BY <2>2, <2>4 DEF CommitAcceptance, Inv, Typed, Opened
  <2>6. row.proposal = Latest + 1
    BY <2>3 DEF Inv, InsertionsAreGrounded
  <2> QED BY <2>5, <2>6
<1>2. Spec => [][A]_vars
  <2> HIDE DEF A
  <2>1. Inv /\ [Next]_vars => [A]_vars
    BY <1>1
  <2> QED BY <2>1, Invariant, PTL DEF Spec
<1> QED BY <1>2 DEF GrantedAtPublication

--------------------------------------------------------------------------------
(***************************************************************************)
(* While no transaction has begun before another has ended (alone).        *)
(***************************************************************************)

OneAtATime ==
  /\ \A r, q \in Requests :
       returning[r].phase # "idle" /\ returning[q].phase # "idle" => r = q
  /\ acceptance.open => \A r \in Requests : returning[r].phase = "idle"

\* What a return t sees of its learner, and the rows that may have to stay.
Seen(t) == {e \in Completions(direct) : e[1] = t.learner /\ e[2] \notin t.direct}
SeenRows(t) == {row \in recognized : row.learner = t.learner} \ t.rows
Others(t) == {row \in recognized : row.learner = t.learner /\ row.unit # t.unit}

\* A return has deleted all rows of its unit and none that must stay, and its
\* loop ends when the rest is supported.
Deletes(t) ==
  /\ t.phase \in {"direct", "derived"} => t.rows = {}
  /\ t.phase \in {"prune", "commit"} =>
       /\ \A row \in t.rows : row.learner = t.learner
       /\ SeenRows(t) \subseteq Others(t)
       /\ Grounded(Others(t), Seen(t)) \subseteq SeenRows(t)
  /\ t.phase = "commit" => \A row \in SeenRows(t) : Supported(row, Seen(t), SeenRows(t))

ReturnsDelete == \A r \in Requests : Deletes(returning[r])

InsertionsAreSupported ==
  acceptance.open => \A row \in acceptance.rows : Supported(row, Completions(direct), recognized)

CompletedOnce(l) == \A d, e \in ever : d[1] = l /\ e[1] = d[1] /\ e[2] = d[2] => d = e

EvidenceIsChained ==
  \A row \in recognized :
    CompletedOnce(row.learner) => row \in Grounded(recognized, Completions(direct))

InvAlone == OneAtATime /\ ReturnsDelete /\ InsertionsAreSupported /\ EvidenceIsChained

--------------------------------------------------------------------------------
\* The equation Grounded solves, in the state it is evaluated in.
LEMMA GroundedEquation ==
  ASSUME Latest \in Nat, NEW R, NEW E
  PROVE  \A row : row \in Grounded(R, E) <=>
           row \in R /\ row.proposal \in 1..Latest /\ Supported(row, E, Grounded(R, E))
<1> DEFINE G == GroundedUpTo(Latest, R, E)
<1>1. Grounded(R, E) = G
  BY GroundedIsUpTo
<1>2. \A row : row \in G <=> row \in R /\ row.proposal \in 1..Latest /\ Supported(row, E, G)
  BY GroundedSolves, Zenon
<1> HIDE DEF G
<1> QED BY <1>1, <1>2, Zenon

\* A set of rows that supports itself is grounded, ...
LEMMA FoundedIsGrounded ==
  ASSUME NEW n \in Nat, NEW G, NEW R, NEW D, NEW E, G \subseteq R,
         \A row \in G : row.proposal \in 1..n /\ Supported(row, D, G),
         \A row \in G, e \in D : e[1] = row.learner /\ e[3] < row.proposal => e \in E
  PROVE  G \subseteq GroundedUpTo(n, R, E)
<1> DEFINE H == GroundedUpTo(n, R, E)
<1>1. \A row : row \in H <=> row \in R /\ row.proposal \in 1..n /\ Supported(row, E, H)
  BY GroundedSolves, Zenon
<1> HIDE DEF H
<1>2. Founded(G, D)
  <2>1. \A row \in G : row.proposal \in Nat
    OBVIOUS
  <2> QED BY <2>1, Zenon DEF Founded
<1>3. Closed(H, R, E, n)
  BY <1>1, Zenon DEF Closed
<1>4. \A row \in G : row.proposal \in 1..n
  OBVIOUS
<1>5. G \subseteq H
  BY <1>2, <1>3, <1>4, FoundedInClosed, Zenon
<1> QED BY <1>5 DEF H

\* ... and so are the grounded rows of one learner, by themselves.
LEMMA OwnAreFounded ==
  ASSUME Latest \in Nat, NEW R, NEW E, NEW l
  PROVE  LET G == {row \in Grounded(R, E) : row.learner = l}
         IN  \A row \in G : row \in R /\ row.proposal \in 1..Latest /\ Supported(row, E, G)
<1> DEFINE H == Grounded(R, E)
           G == {row \in H : row.learner = l}
<1>1. \A row : row \in H <=> row \in R /\ row.proposal \in 1..Latest /\ Supported(row, E, H)
  BY GroundedEquation, Zenon
<1> HIDE DEF H
<1>2. ASSUME NEW row \in G PROVE Supported(row, E, G)
  <2>1. \A x \in H : x.learner = row.learner /\ x.proposal < row.proposal => x \in G
    OBVIOUS
  <2>2. Supported(row, E, H)
    BY <1>1
  <2> HIDE DEF G
  <2> QED BY <2>1, <2>2, SupportedByEarlier, Zenon
<1> QED BY <1>1, <1>2 DEF H

\* The invariant of the system where one transaction is open at a time, initially.
LEMMA InitAlone == Init => InvAlone
<1> SUFFICES ASSUME Init PROVE InvAlone
  OBVIOUS
<1>1. \A r \in Requests : returning[r] = NoReturn
  BY DEF Init
<1>2. ~acceptance.open /\ recognized = {}
  BY DEF Init, NoAcceptance
<1>3. ReturnsDelete
  BY <1>1 DEF ReturnsDelete, Deletes, NoReturn
<1> QED BY <1>1, <1>2, <1>3
        DEF InvAlone, OneAtATime, InsertionsAreSupported, EvidenceIsChained, NoReturn

\* A transaction that begins alone begins when none is open.
LEMMA NothingIsOpen ==
  ASSUME Begins, alone'
  PROVE  alone /\ ~acceptance.open /\ \A r \in Requests : returning[r].phase = "idle"
<1>1. alone /\ Quiet
  BY Zenon DEF Begins
<1> QED BY <1>1 DEF Quiet, Open

\* What a return has done does not change with other returns.
LEMMA SameDeletes ==
  ASSUME UNCHANGED <<accepted, direct, recognized>>, NEW r \in Requests
  PROVE  Deletes(returning[r])' <=> Deletes(returning'[r])
BY DEF Deletes, Seen, SeenRows, Others, Completions, Grounded, Latest

\* A statement of a return moves that return only.
LEMMA ReturnAlone ==
  ASSUME Inv, InvAlone, NEW r \in Requests, NEW t \in Returning \cup {NoReturn},
         returning' = [returning EXCEPT ![r] = t],
         Deletes(t),
         t.phase # "idle" =>
           \/ returning[r].phase # "idle"
           \/ ~acceptance.open /\ \A q \in Requests : returning[q].phase = "idle",
         UNCHANGED <<accepted, direct, recognized, acceptance, ever>>
  PROVE  InvAlone'
<1>1. returning'[r] = t /\ \A q \in Requests : q # r => returning'[q] = returning[q]
  BY DEF Inv, Typed
<1>2. OneAtATime'
  BY <1>1 DEF InvAlone, OneAtATime
<1>3. ReturnsDelete'
  <2>1. \A q \in Requests : Deletes(returning'[q])
    BY <1>1 DEF InvAlone, ReturnsDelete
  <2>2. \A q \in Requests : Deletes(returning[q])'
    BY <2>1, SameDeletes
  <2> QED BY <2>2 DEF ReturnsDelete
<1>4. InsertionsAreSupported' /\ EvidenceIsChained'
  <2>1. Grounded(recognized, Completions(direct))' = Grounded(recognized, Completions(direct))
    BY DEF Grounded, Completions, Latest
  <2>2. Completions(direct') = Completions(direct)
    OBVIOUS
  <2>3. InsertionsAreSupported'
    BY <2>2 DEF InvAlone, InsertionsAreSupported
  <2>4. EvidenceIsChained'
    BY <2>1 DEF InvAlone, EvidenceIsChained, CompletedOnce
  <2> QED BY <2>3, <2>4
<1> QED BY <1>2, <1>3, <1>4 DEF InvAlone

LEMMA ReturnsAlone ==
  ASSUME alone', Inv, InvAlone, NEW r \in Requests,
         \/ \E l \in Learner, u \in Unit : BeginReturn(r, l, u)
         \/ DeleteDirect(r)
         \/ DeleteDerived(r)
         \/ DeleteUnsupported(r)
         \/ RollbackReturn(r)
  PROVE  InvAlone'
<1> DEFINE o == returning[r]
<1>1. ASSUME NEW l \in Learner, NEW u \in Unit, BeginReturn(r, l, u) PROVE InvAlone'
  <2> DEFINE t == [phase |-> "direct", learner |-> l, unit |-> u, direct |-> {}, rows |-> {}]
  <2>1. t \in Returning /\ Deletes(t)
    BY DEF Returning, Deletes
  <2>2. /\ returning' = [returning EXCEPT ![r] = t]
        /\ UNCHANGED <<accepted, direct, recognized, acceptance, ever>>
        /\ Begins
    BY <1>1 DEF BeginReturn
  <2>3. ~acceptance.open /\ \A q \in Requests : returning[q].phase = "idle"
    BY <2>2, NothingIsOpen
  <2> HIDE DEF t
  <2> QED BY <2>1, <2>2, <2>3, ReturnAlone
<1>2. CASE DeleteDirect(r)
  <2> DEFINE gone == {e[2] : e \in {x \in VisibleDirect(r) : x[2] = o.unit}}
             t == [o EXCEPT !.phase = "derived", !.direct = gone]
  <2>1. /\ o.phase = "direct" /\ returning' = [returning EXCEPT ![r] = t]
        /\ UNCHANGED <<accepted, direct, recognized, acceptance, ever>>
    BY <1>2 DEF DeleteDirect
  <2>2. o \in Returning
    BY <2>1, OpenReturn DEF Inv
  <2>3. gone \subseteq {o.unit} /\ o.unit \in Unit
    BY <2>2 DEF Returning
  <2>4. o.rows = {}
    BY <2>1 DEF InvAlone, ReturnsDelete, Deletes
  <2> HIDE DEF gone
  <2>5. t \in Returning /\ t.rows = {} /\ t.phase = "derived"
    BY <2>2, <2>3, <2>4 DEF Returning
  <2> HIDE DEF t
  <2>6. Deletes(t)
    BY <2>5 DEF Deletes
  <2> QED BY <2>1, <2>5, <2>6, ReturnAlone
<1>3. CASE DeleteDerived(r)
  <2> DEFINE mine == {row \in VisibleRows(r) : row.unit = o.unit}
             t == [o EXCEPT !.phase = "prune", !.rows = o.rows \cup mine]
  <2>1. /\ o.phase = "derived" /\ returning' = [returning EXCEPT ![r] = t]
        /\ UNCHANGED <<accepted, direct, recognized, acceptance, ever>>
    BY <1>3 DEF DeleteDerived
  <2>2. o \in Returning
    BY <2>1, OpenReturn DEF Inv
  <2>3. o.rows = {}
    BY <2>1 DEF InvAlone, ReturnsDelete, Deletes
  <2>4. mine = {row \in recognized : row.learner = o.learner /\ row.unit = o.unit}
    BY <2>3 DEF VisibleRows
  <2> HIDE DEF mine
  <2>5. mine \subseteq Row
    BY <2>4 DEF Inv, Typed
  <2>6. /\ t \in Returning /\ t.rows = mine /\ t.phase = "prune" /\ t.learner = o.learner
        /\ t.unit = o.unit
    BY <2>2, <2>3, <2>5 DEF Returning
  <2> HIDE DEF t
  <2>7. SeenRows(t) = Others(t)
    BY <2>4, <2>6 DEF SeenRows, Others
  <2>8. Grounded(Others(t), Seen(t)) \subseteq Others(t)
    <3>1. Latest \in Nat
      BY DEF Inv, Typed, Latest
    <3> DEFINE R == Others(t)
               E == Seen(t)
    <3> HIDE DEF R, E
    <3>2. Grounded(R, E) \subseteq R
      BY <3>1, GroundedEquation
    <3> QED BY <3>2 DEF R, E
  <2>9. Deletes(t)
    BY <2>4, <2>6, <2>7, <2>8 DEF Deletes
  <2> QED BY <2>1, <2>6, <2>9, ReturnAlone
<1>4. CASE DeleteUnsupported(r)
  <2> DEFINE gone == {row \in VisibleRows(r) : ~Supported(row, VisibleDirect(r), VisibleRows(r))}
             phase == IF gone = {} THEN "commit" ELSE "prune"
             t == [o EXCEPT !.phase = phase, !.rows = o.rows \cup gone]
  <2>1. /\ o.phase = "prune" /\ returning' = [returning EXCEPT ![r] = t]
        /\ UNCHANGED <<accepted, direct, recognized, acceptance, ever>>
    BY <1>4 DEF DeleteUnsupported
  <2>2. o \in Returning
    BY <2>1, OpenReturn DEF Inv
  <2>3. VisibleDirect(r) = Seen(o) /\ VisibleRows(r) = SeenRows(o)
    BY DEF VisibleDirect, VisibleRows, Seen, SeenRows
  <2>4. gone = {row \in SeenRows(o) : ~Supported(row, Seen(o), SeenRows(o))}
    BY <2>3
  <2>5. /\ \A row \in o.rows : row.learner = o.learner
        /\ SeenRows(o) \subseteq Others(o)
        /\ Grounded(Others(o), Seen(o)) \subseteq SeenRows(o)
    BY <2>1 DEF InvAlone, ReturnsDelete, Deletes
  <2>6. gone \subseteq SeenRows(o) /\ SeenRows(o) \subseteq recognized
    BY <2>4 DEF SeenRows
  <2>7. phase \in {"prune", "commit"} /\ (phase = "commit" => gone = {})
    OBVIOUS
  <2> HIDE DEF gone, phase
  <2>8. /\ t \in Returning /\ t.rows = o.rows \cup gone /\ t.phase = phase /\ t.learner = o.learner
        /\ t.unit = o.unit /\ t.direct = o.direct
    BY <2>2, <2>6, <2>7 DEF Returning, Inv, Typed
  <2> HIDE DEF t
  <2>9. Seen(t) = Seen(o) /\ Others(t) = Others(o) /\ SeenRows(t) = SeenRows(o) \ gone
    BY <2>8 DEF Seen, Others, SeenRows
  <2> DEFINE G == Grounded(Others(o), Seen(o))
  <2>10. G \cap gone = {}
    <3>1. Latest \in Nat
      BY DEF Inv, Typed, Latest
    <3> DEFINE R == Others(o)
               E == Seen(o)
               V == SeenRows(o)
    <3>2. G = Grounded(R, E) /\ G \subseteq V /\ gone = {row \in V : ~Supported(row, E, V)}
      BY <2>4, <2>5
    <3> HIDE DEF R, E, V, G
    <3>3. \A row \in G : Supported(row, E, G)
      BY <3>1, <3>2, GroundedEquation
    <3>4. \A row \in G : Supported(row, E, V)
      BY <3>2, <3>3, SupportedByEarlier
    <3> QED BY <3>2, <3>4
  <2> HIDE DEF G
  <2>11. G = Grounded(Others(t), Seen(t))
    BY <2>9 DEF G
  <2>12. Deletes(t)
    <3>1. t.phase \in {"prune", "commit"}
      BY <2>7, <2>8
    <3>2. \A row \in t.rows : row.learner = t.learner
      BY <2>5, <2>6, <2>8 DEF SeenRows
    <3>3. SeenRows(t) \subseteq Others(t)
      BY <2>5, <2>9
    <3>4. Grounded(Others(t), Seen(t)) \subseteq SeenRows(t)
      BY <2>5, <2>9, <2>10, <2>11 DEF G
    <3>5. t.phase = "commit" => \A row \in SeenRows(t) : Supported(row, Seen(t), SeenRows(t))
      <4> SUFFICES ASSUME t.phase = "commit" PROVE \A row \in SeenRows(o) : Supported(row, Seen(o), SeenRows(o))
        BY <2>7, <2>8, <2>9
      <4> QED BY <2>4, <2>7, <2>8
    <3> QED BY <3>1, <3>2, <3>3, <3>4, <3>5 DEF Deletes
  <2> QED BY <2>1, <2>8, <2>12, ReturnAlone
<1>5. CASE RollbackReturn(r)
  <2>1. Deletes(NoReturn)
    BY DEF Deletes, NoReturn
  <2> QED BY <1>5, <2>1, ReturnAlone DEF RollbackReturn, NoReturn
<1> QED BY <1>1, <1>2, <1>3, <1>4, <1>5

\* A chain is kept while the evidence of its learner is.
LEMMA ChainsAreKept ==
  ASSUME Latest \in Nat, Latest' \in Nat, Latest <= Latest', NEW l,
         \A x \in recognized : x.learner = l => x \in recognized',
         \A e \in Completions(direct) : e[1] = l => e \in Completions(direct')
  PROVE  \A row \in Grounded(recognized, Completions(direct)) :
           row.learner = l => row \in Grounded(recognized, Completions(direct))'
<1> DEFINE D == Completions(direct)
           E == Completions(direct')
           R == recognized'
           G == {row \in Grounded(recognized, D) : row.learner = l}
<1>1. \A row \in G : row \in recognized /\ row.proposal \in 1..Latest /\ Supported(row, D, G)
  <2> HIDE DEF D
  <2> QED BY OwnAreFounded
<1>2. \A row \in G : row.learner = l
  OBVIOUS
<1> HIDE DEF G
<1>3. \A row \in G, e \in D : e[1] = row.learner /\ e[3] < row.proposal => e \in E
  BY <1>2
<1> HIDE DEF D, E
<1>4. G \subseteq R /\ \A row \in G : row.proposal \in 1..Latest'
  BY <1>1, <1>2
<1> HIDE DEF R
<1>5. G \subseteq GroundedUpTo(Latest', R, E)
  BY <1>1, <1>3, <1>4, FoundedIsGrounded
<1>6. Grounded(recognized, Completions(direct))' = GroundedUpTo(Latest', R, E)
  BY DEF Grounded, GroundedUpTo, R, E
<1> QED BY <1>5, <1>6 DEF G, D

LEMMA AcceptAlone ==
  ASSUME alone', Inv, InvAlone, NEW P \in Publishable, AcceptCurriculumProposal(P)
  PROVE  InvAlone'
<1> DEFINE new == Materialized(Latest + 1, P.rules, Completions(direct), recognized)
<1>1. /\ Latest \in Nat /\ Latest < MaxPublications
      /\ acceptance' = [open |-> TRUE, publication |-> P, rows |-> new]
      /\ UNCHANGED <<accepted, direct, recognized, returning, ever>>
      /\ ~acceptance.open /\ Begins
  BY DEF AcceptCurriculumProposal, Inv, Typed, Latest
<1>2. \A r \in Requests : returning[r].phase = "idle"
  BY <1>1, NothingIsOpen
<1>3. OneAtATime'
  BY <1>1, <1>2 DEF OneAtATime
<1>4. ReturnsDelete'
  <2>1. \A r \in Requests : Deletes(returning'[r])
    BY <1>1 DEF InvAlone, ReturnsDelete
  <2> QED BY <1>1, <2>1, SameDeletes DEF ReturnsDelete
<1>5. InsertionsAreSupported'
  <2>1. P.rules \in SUBSET Rule
    BY PublishableAssumption DEF Publication
  <2>2. \A row \in new : Supported(row, Completions(direct), recognized)
    BY <1>1, <2>1, MaterializedRows
  <2> HIDE DEF new
  <2>3. Completions(direct') = Completions(direct) /\ acceptance'.rows = new
    BY <1>1
  <2> QED BY <1>1, <2>2, <2>3 DEF InsertionsAreSupported
<1>6. EvidenceIsChained'
  <2>1. Grounded(recognized, Completions(direct))' = Grounded(recognized, Completions(direct))
    BY <1>1 DEF Grounded, Completions, Latest
  <2> QED BY <1>1, <2>1 DEF InvAlone, EvidenceIsChained, CompletedOnce
<1> QED BY <1>3, <1>4, <1>5, <1>6 DEF InvAlone

\* An acceptance grants what completions at hand support.
LEMMA CommitAcceptanceAlone ==
  ASSUME Inv, InvAlone, Inv', CommitAcceptance
  PROVE  InvAlone'
<1> DEFINE G == Grounded(recognized, Completions(direct))
           H == Grounded(recognized, Completions(direct))'
<1>1. /\ acceptance.open /\ acceptance \in Opened
      /\ Latest \in Nat /\ Latest = Len(accepted)
      /\ accepted' = Append(accepted, acceptance.publication)
      /\ recognized' = recognized \cup acceptance.rows
      /\ acceptance' = NoAcceptance
      /\ UNCHANGED <<direct, returning, ever>>
  BY OpenAcceptance DEF CommitAcceptance, Inv
<1>2. Latest' = Latest + 1 /\ Latest' \in Nat /\ Latest <= Latest'
  BY <1>1 DEF Inv, Typed, Opened, Latest
<1>3. \A r \in Requests : returning'[r].phase = "idle"
  BY <1>1 DEF InvAlone, OneAtATime
<1>4. OneAtATime' /\ InsertionsAreSupported'
  BY <1>1, <1>3 DEF OneAtATime, InsertionsAreSupported, NoAcceptance
<1>5. ReturnsDelete'
  BY <1>3 DEF ReturnsDelete, Deletes
<1>6. EvidenceIsChained'
  <2> SUFFICES ASSUME NEW row \in recognized', CompletedOnce(row.learner)'
               PROVE  row \in H
    BY DEF EvidenceIsChained
  <2> DEFINE l == row.learner
  <2>1. CompletedOnce(l)
    BY <1>1 DEF CompletedOnce
  <2>2. \A x \in G : x.learner = l => x \in H
    <3>1. \A x \in recognized : x.learner = l => x \in recognized'
      BY <1>1
    <3>2. \A e \in Completions(direct) : e[1] = l => e \in Completions(direct')
      BY <1>1
    <3> HIDE DEF l
    <3> QED BY <1>1, <1>2, <3>1, <3>2, ChainsAreKept, Zenon
  <2>3. \A x \in recognized : x.learner = l => x \in G
    BY <2>1 DEF InvAlone, EvidenceIsChained
  <2>4. CASE row \in recognized
    BY <2>2, <2>3, <2>4
  <2>5. CASE row \in acceptance.rows
    <3> DEFINE E == Completions(direct)
               R == recognized'
    <3>1. Supported(row, E, recognized) /\ row.proposal = Latest + 1
      BY <1>1, <2>5 DEF InvAlone, InsertionsAreSupported, Inv, InsertionsAreGrounded
    <3>2. H = GroundedUpTo(Latest', R, E)
      BY <1>1 DEF Grounded, GroundedUpTo
    <3>3. row \in R
      BY <1>1, <2>5
    <3> HIDE DEF G, H, R, E
    <3>4. \A x \in recognized : x.learner = row.learner /\ x.proposal < row.proposal => x \in H
      BY <2>2, <2>3
    <3> HIDE DEF l
    <3>5. Supported(row, E, H)
      BY <3>1, <3>4, SupportedByEarlier
    <3>6. row.proposal \in 1..Latest'
      BY <1>1, <1>2, <3>1
    <3>7. \A x : x \in H <=> x \in R /\ x.proposal \in 1..Latest' /\ Supported(x, E, H)
      BY <1>2, <3>2, GroundedSolves
    <3> QED BY <3>3, <3>5, <3>6, <3>7
  <2> QED BY <1>1, <2>4, <2>5
<1> QED BY <1>4, <1>5, <1>6 DEF InvAlone

\* Completions are the cells that are set.
LEMMA CompletionsAre ==
  ASSUME NEW d
  PROVE  /\ \A l \in Learner, u \in Unit : d[l][u] # 0 => <<l, u, d[l][u]>> \in Completions(d)
         /\ \A e \in Completions(d) :
              \E l \in Learner, u \in Unit : d[l][u] # 0 /\ e = <<l, u, d[l][u]>>
<1>1. ASSUME NEW l \in Learner, NEW u \in Unit, d[l][u] # 0
      PROVE  <<l, u, d[l][u]>> \in Completions(d)
  <2> DEFINE y == <<l, u>>
  <2>1. y \in Learner \X Unit /\ y[1] = l /\ y[2] = u
    OBVIOUS
  <2> HIDE DEF y
  <2>2. y \in {z \in Learner \X Unit : d[z[1]][z[2]] # 0}
    BY <1>1, <2>1
  <2>3. <<y[1], y[2], d[y[1]][y[2]]>> \in Completions(d)
    BY <2>2 DEF Completions
  <2> QED BY <2>1, <2>3
<1>2. ASSUME NEW e \in Completions(d)
      PROVE  \E l \in Learner, u \in Unit : d[l][u] # 0 /\ e = <<l, u, d[l][u]>>
  <2>1. PICK y \in Learner \X Unit : d[y[1]][y[2]] # 0 /\ e = <<y[1], y[2], d[y[1]][y[2]]>>
    BY DEF Completions
  <2> QED BY <2>1
<1> QED BY <1>1, <1>2

\* Another completion of a unit is of a later proposal: the learner has then
\* completed it twice, and otherwise none of their evidence is lost.
LEMMA SetUnitCompletedAlone ==
  ASSUME alone', Inv, InvAlone, Inv',
         NEW l \in Learner, NEW u \in Unit, SetUnitCompleted(l, u)
  PROVE  InvAlone'
<1> DEFINE e == <<l, u, Latest>>
<1>1. /\ Latest \in Nat \ {0} /\ Latest' = Latest
      /\ direct[l][u] # Latest
      /\ direct' = [direct EXCEPT ![l][u] = Latest]
      /\ ever' = ever \cup {e}
      /\ Begins
      /\ UNCHANGED <<accepted, recognized, acceptance, returning>>
  BY PublishedSomewhere DEF SetUnitCompleted, Inv, Latest
<1>2. ~acceptance.open /\ \A r \in Requests : returning[r].phase = "idle"
  BY <1>1, NothingIsOpen
<1>3. OneAtATime' /\ InsertionsAreSupported'
  BY <1>1, <1>2 DEF OneAtATime, InsertionsAreSupported
<1>4. ReturnsDelete'
  BY <1>1, <1>2 DEF ReturnsDelete, Deletes
<1>5. \A k \in Learner, v \in Unit :
        direct'[k][v] = IF k = l /\ v = u THEN Latest ELSE direct[k][v]
  BY <1>1 DEF Inv, Typed
<1>6. EvidenceIsChained'
  <2> SUFFICES ASSUME NEW row \in recognized', CompletedOnce(row.learner)'
               PROVE  row \in Grounded(recognized, Completions(direct))'
    BY DEF EvidenceIsChained
  <2> DEFINE k == row.learner
  <2>1. \A x \in recognized : x.learner = k => x \in recognized'
    BY <1>1
  <2>2. CompletedOnce(k)
    BY <1>1 DEF CompletedOnce
  <2>3. row \in recognized /\ row \in Grounded(recognized, Completions(direct))
    BY <1>1, <2>2 DEF InvAlone, EvidenceIsChained
  <2>4. k = l => direct[l][u] = 0
    <3> SUFFICES ASSUME k = l, direct[l][u] # 0 PROVE FALSE
      OBVIOUS
    <3> DEFINE f == <<l, u, direct[l][u]>>
    <3>1. f \in Completions(direct)
      BY CompletionsAre
    <3>2. f \in ever' /\ e \in ever'
      BY <1>1, <3>1 DEF Inv, CompletionsWereRecorded
    <3>3. f # e
      BY <1>1
    <3>4. f[1] = k /\ e[1] = f[1] /\ e[2] = f[2]
      OBVIOUS
    <3> HIDE DEF e, f, k
    <3> QED BY <3>2, <3>3, <3>4 DEF CompletedOnce, k
  <2>5. \A x \in Completions(direct) : x[1] = k => x \in Completions(direct')
    <3> SUFFICES ASSUME NEW y \in Learner, NEW v \in Unit, direct[y][v] # 0, y = k
                 PROVE  <<y, v, direct[y][v]>> \in Completions(direct')
      BY CompletionsAre
    <3>1. direct'[y][v] = direct[y][v]
      BY <1>5, <2>4
    <3> QED BY <3>1, CompletionsAre
  <2>6. \A x \in Grounded(recognized, Completions(direct)) :
           x.learner = k => x \in Grounded(recognized, Completions(direct))'
    <3>1. Latest \in Nat /\ Latest' \in Nat /\ Latest <= Latest'
      BY <1>1
    <3> HIDE DEF k
    <3> QED BY <2>1, <2>5, <3>1, ChainsAreKept, Zenon
  <2> QED BY <2>3, <2>6 DEF k
<1> QED BY <1>3, <1>4, <1>6 DEF InvAlone

--------------------------------------------------------------------------------
\* What the commit of a return leaves of the completions.
LEMMA CompletionsLeft ==
  ASSUME Inv, NEW r \in Requests, CommitReturn(r)
  PROVE  /\ \A e \in Seen(returning[r]) : e \in Completions(direct')
         /\ \A e \in Completions(direct') : e[1] = returning[r].learner => e \in Seen(returning[r])
         /\ \A e \in Completions(direct) :
              e[1] # returning[r].learner => e \in Completions(direct')
<1> DEFINE t == returning[r]
           left == [u \in Unit |-> IF u \in t.direct THEN 0 ELSE direct[t.learner][u]]
<1>1. t \in Returning /\ direct' = [direct EXCEPT ![t.learner] = left]
  BY OpenReturn DEF CommitReturn, Inv
<1>2. t.learner \in Learner
  BY <1>1 DEF Returning
<1>3. \A l \in Learner, u \in Unit :
        direct'[l][u] = IF l = t.learner /\ u \in t.direct THEN 0 ELSE direct[l][u]
  BY <1>1, <1>2 DEF Inv, Typed
<1> HIDE DEF t, left
<1>4. ASSUME NEW l \in Learner, NEW u \in Unit
      PROVE  /\ direct[l][u] # 0 /\ (l # t.learner \/ u \notin t.direct) =>
                  <<l, u, direct[l][u]>> \in Completions(direct')
             /\ direct'[l][u] # 0 /\ l = t.learner => <<l, u, direct'[l][u]>> \in Seen(t)
  <2>1. direct[l][u] # 0 /\ (l # t.learner \/ u \notin t.direct) =>
          <<l, u, direct[l][u]>> \in Completions(direct')
    <3> SUFFICES ASSUME direct[l][u] # 0, l # t.learner \/ u \notin t.direct
                 PROVE  <<l, u, direct[l][u]>> \in Completions(direct')
      OBVIOUS
    <3>1. direct'[l][u] = direct[l][u]
      BY <1>3
    <3>2. direct'[l][u] # 0 => <<l, u, direct'[l][u]>> \in Completions(direct')
      BY CompletionsAre
    <3> QED BY <3>1, <3>2
  <2>2. direct'[l][u] # 0 /\ l = t.learner => <<l, u, direct'[l][u]>> \in Seen(t)
    <3> SUFFICES ASSUME direct'[l][u] # 0, l = t.learner
                 PROVE  <<l, u, direct'[l][u]>> \in Seen(t)
      OBVIOUS
    <3>1. direct'[l][u] = direct[l][u] /\ u \notin t.direct
      BY <1>3
    <3>2. <<l, u, direct[l][u]>> \in Completions(direct)
      BY <3>1, CompletionsAre
    <3> QED BY <3>1, <3>2 DEF Seen
  <2> QED BY <2>1, <2>2
<1>5. \A e \in Completions(direct) :
        e[1] # t.learner \/ e[2] \notin t.direct => e \in Completions(direct')
  <2> SUFFICES ASSUME NEW l \in Learner, NEW u \in Unit, direct[l][u] # 0,
                      l # t.learner \/ u \notin t.direct
               PROVE  <<l, u, direct[l][u]>> \in Completions(direct')
    BY CompletionsAre
  <2> QED BY <1>4
<1>6. \A e \in Completions(direct') : e[1] = t.learner => e \in Seen(t)
  <2> SUFFICES ASSUME NEW l \in Learner, NEW u \in Unit, direct'[l][u] # 0, l = t.learner
               PROVE  <<l, u, direct'[l][u]>> \in Seen(t)
    BY CompletionsAre
  <2> QED BY <1>4
<1>7. \A e \in Seen(t) : e \in Completions(direct')
  BY <1>5 DEF Seen
<1> QED BY <1>5, <1>6, <1>7 DEF t

\* The rows the commit leaves to its learner.
LEMMA ExactReturnOf ==
  ASSUME Inv, InvAlone, NEW r \in Requests, CommitReturn(r)
  PROVE  /\ SeenRows(returning[r]) = Grounded(Others(returning[r]), Completions(direct'))
         /\ {row \in recognized' : row.learner = returning[r].learner} = SeenRows(returning[r])
         /\ \A row \in recognized : row.learner # returning[r].learner => row \in recognized'
<1> DEFINE t == returning[r]
           V == SeenRows(t)
           R == Others(t)
           D == Seen(t)
           C == Completions(direct')
<1>1. t.phase = "commit" /\ recognized' = recognized \ t.rows /\ Latest \in Nat
  BY DEF CommitReturn, Inv, Typed, Latest
<1>2. /\ \A row \in t.rows : row.learner = t.learner
      /\ V \subseteq R /\ Grounded(R, D) \subseteq V
      /\ \A row \in V : Supported(row, D, V)
  BY <1>1 DEF InvAlone, ReturnsDelete, Deletes
<1>3. /\ \A e \in D : e \in C
      /\ \A e \in C : e[1] = t.learner => e \in D
  BY CompletionsLeft
<1>4. \A row \in recognized : row.proposal \in 1..Latest
  <2> DEFINE A == AllRows
  <2>1. recognized \subseteq Grounded(A, ever)
    BY DEF Inv, RecognizedFromEarlierEvidence
  <2> HIDE DEF A
  <2> QED BY <1>1, <2>1, GroundedEquation
<1>5. \A row \in V : row.proposal \in 1..Latest
  BY <1>4 DEF SeenRows
<1>6. \A row \in R : row.learner = t.learner
  BY DEF Others
<1>7. {row \in recognized' : row.learner = t.learner} = V
  BY <1>1 DEF SeenRows
<1>8. \A row \in recognized : row.learner # t.learner => row \in recognized'
  BY <1>1, <1>2
<1> HIDE DEF t, V, R, D, C
<1>9. V \subseteq Grounded(R, C)
  <2>1. V \subseteq GroundedUpTo(Latest, R, C)
    BY <1>1, <1>2, <1>3, <1>5, FoundedIsGrounded
  <2> QED BY <2>1, GroundedIsUpTo
<1>10. Grounded(R, C) \subseteq V
  <2> DEFINE G == Grounded(R, C)
  <2>1. \A row \in G : row \in R /\ row.proposal \in 1..Latest /\ Supported(row, C, G)
    BY <1>1, GroundedEquation, Zenon
  <2> HIDE DEF G
  <2>2. \A row \in G, e \in C : e[1] = row.learner /\ e[3] < row.proposal => e \in D
    BY <1>3, <1>6, <2>1
  <2>3. G \subseteq R
    BY <2>1
  <2>4. G \subseteq GroundedUpTo(Latest, R, D)
    BY <1>1, <2>1, <2>2, <2>3, FoundedIsGrounded
  <2>5. G \subseteq Grounded(R, D)
    BY <2>4, GroundedIsUpTo
  <2> QED BY <1>2, <2>5 DEF G
<1>11. V = Grounded(R, C)
  BY <1>9, <1>10
<1> QED BY <1>7, <1>8, <1>11 DEF V, R, C, t

\* A return that commits leaves the rows that are still grounded.
LEMMA CommitReturnAlone ==
  ASSUME Inv, InvAlone, Inv', NEW r \in Requests, CommitReturn(r)
  PROVE  InvAlone'
<1> DEFINE t == returning[r]
           l == t.learner
           C == Completions(direct')
<1>1. /\ t.phase = "commit" /\ Latest \in Nat /\ Latest' = Latest
      /\ recognized' = recognized \ t.rows
      /\ returning' = [returning EXCEPT ![r] = NoReturn]
      /\ UNCHANGED <<accepted, acceptance, ever>>
  BY DEF CommitReturn, Inv, Typed, Latest
<1>2. ~acceptance.open /\ \A q \in Requests : returning'[q].phase = "idle"
  <2>1. ~acceptance.open
    BY <1>1 DEF InvAlone, OneAtATime
  <2>2. \A q \in Requests : returning'[q] = IF q = r THEN NoReturn ELSE returning[q]
    BY <1>1 DEF Inv, Typed
  <2>3. \A q \in Requests : q # r => returning[q].phase = "idle"
    BY <1>1 DEF InvAlone, OneAtATime
  <2> QED BY <2>1, <2>2, <2>3 DEF NoReturn
<1>3. OneAtATime' /\ InsertionsAreSupported'
  BY <1>1, <1>2 DEF OneAtATime, InsertionsAreSupported
<1>4. ReturnsDelete'
  BY <1>2 DEF ReturnsDelete, Deletes
<1> DEFINE V == SeenRows(t)
           R == Others(t)
<1>5. /\ V = Grounded(R, C)
      /\ {row \in recognized' : row.learner = l} = V
      /\ \A row \in recognized : row.learner # l => row \in recognized'
  BY ExactReturnOf
<1>6. EvidenceIsChained'
  <2> SUFFICES ASSUME NEW row \in recognized', CompletedOnce(row.learner)'
               PROVE  row \in Grounded(recognized, Completions(direct))'
    BY DEF EvidenceIsChained
  <2>1. CASE row.learner = l
    <3>1. Grounded(recognized, Completions(direct))' = GroundedUpTo(Latest, recognized', C)
      BY <1>1 DEF Grounded, GroundedUpTo
    <3>2. V \subseteq recognized' /\ row \in V
      BY <1>5, <2>1
    <3> HIDE DEF V, R, C, l, t
    <3>3. \A x \in V : x.proposal \in 1..Latest /\ Supported(x, C, V)
      BY <1>1, <1>5, GroundedEquation
    <3>4. V \subseteq GroundedUpTo(Latest, recognized', C)
      <4> DEFINE S == recognized'
      <4>1. V \subseteq S
        BY <3>2
      <4> HIDE DEF S
      <4>2. V \subseteq GroundedUpTo(Latest, S, C)
        BY <1>1, <3>3, <4>1, FoundedIsGrounded
      <4> QED BY <4>2 DEF S
    <3> QED BY <3>1, <3>2, <3>4
  <2>2. CASE row.learner # l
    <3> DEFINE k == row.learner
    <3>1. CompletedOnce(k)
      BY <1>1 DEF CompletedOnce
    <3>2. row \in Grounded(recognized, Completions(direct))
      BY <1>1, <3>1 DEF InvAlone, EvidenceIsChained
    <3>3. \A x \in recognized : x.learner = k => x \in recognized'
      BY <1>5, <2>2
    <3>4. \A e \in Completions(direct) : e[1] = k => e \in Completions(direct')
      BY <2>2, CompletionsLeft
    <3>5. Latest \in Nat /\ Latest' \in Nat /\ Latest <= Latest'
      BY <1>1
    <3> HIDE DEF k
    <3>6. \A x \in Grounded(recognized, Completions(direct)) :
             x.learner = k => x \in Grounded(recognized, Completions(direct))'
      BY <3>3, <3>4, <3>5, ChainsAreKept, Zenon
    <3> QED BY <3>2, <3>6 DEF k
  <2> QED BY <2>1, <2>2
<1> QED BY <1>3, <1>4, <1>6 DEF InvAlone

\* Hence every step.
LEMMA NextAlone ==
  alone' /\ Inv /\ InvAlone /\ [Next]_vars => InvAlone'
<1> SUFFICES ASSUME alone', Inv, InvAlone, [Next]_vars PROVE InvAlone'
  OBVIOUS
<1>0. Inv'
  BY NextInv
<1>1. ASSUME NEW P \in Publishable, AcceptCurriculumProposal(P) PROVE InvAlone'
  BY <1>1, AcceptAlone
<1>2. CASE CommitAcceptance
  BY <1>0, <1>2, CommitAcceptanceAlone
<1>3. CASE RollbackAcceptance \/ UNCHANGED vars
  <2>1. /\ UNCHANGED <<accepted, direct, recognized, returning, ever>>
        /\ acceptance'.open => acceptance.open /\ acceptance' = acceptance
    <3>1. CASE RollbackAcceptance
      BY <3>1 DEF RollbackAcceptance, NoAcceptance
    <3>2. CASE UNCHANGED vars
      BY <3>2 DEF vars
    <3> QED BY <1>3, <3>1, <3>2
  <2>2. ReturnsDelete'
    <3>1. \A r \in Requests : Deletes(returning'[r])
      BY <2>1 DEF InvAlone, ReturnsDelete
    <3> QED BY <2>1, <3>1, SameDeletes DEF ReturnsDelete
  <2>3. Grounded(recognized, Completions(direct))' = Grounded(recognized, Completions(direct))
    BY <2>1 DEF Grounded, Completions, Latest
  <2>4. EvidenceIsChained'
    BY <2>1, <2>3 DEF InvAlone, EvidenceIsChained, CompletedOnce
  <2>5. InsertionsAreSupported'
    BY <2>1 DEF InvAlone, InsertionsAreSupported
  <2>6. OneAtATime'
    BY <2>1 DEF InvAlone, OneAtATime
  <2> QED BY <2>2, <2>4, <2>5, <2>6 DEF InvAlone
<1>4. ASSUME NEW l \in Learner, NEW u \in Unit, SetUnitCompleted(l, u) PROVE InvAlone'
  BY <1>0, <1>4, SetUnitCompletedAlone
<1>5. ASSUME NEW r \in Requests, CommitReturn(r) PROVE InvAlone'
  BY <1>0, <1>5, CommitReturnAlone
<1>6. ASSUME NEW r \in Requests,
             \/ \E l \in Learner, u \in Unit : BeginReturn(r, l, u)
             \/ DeleteDirect(r)
             \/ DeleteDerived(r)
             \/ DeleteUnsupported(r)
             \/ RollbackReturn(r)
      PROVE  InvAlone'
  BY <1>6, ReturnsAlone
<1> QED BY <1>1, <1>2, <1>3, <1>4, <1>5, <1>6 DEF Next

\* Who is alone has been so.
LEMMA StaysAlone == [Next]_vars /\ alone' => alone
<1> SUFFICES ASSUME [Next]_vars, alone' PROVE alone
  OBVIOUS
<1>1. ASSUME Begins PROVE alone
  BY <1>1, NothingIsOpen
<1> QED BY <1>1, NextBegins

LEMMA InvariantAlone == Spec => [](alone => InvAlone)
<1>1. Init => (alone => InvAlone)
  BY InitAlone
<1>2. Inv /\ (alone => InvAlone) /\ [Next]_vars => (alone => InvAlone)'
  BY NextAlone, StaysAlone
<1> QED BY <1>1, <1>2, Invariant, PTL DEF Spec

\* While no two transactions overlap, a return removes its unit's own rows and, of the rest, exactly
\* what is not supported any more (PruneUserCurriculumRecognitions).
THEOREM ReturnsAreExact == Spec => ReturnIsExact
<1>1. Inv /\ (alone => InvAlone) => (alone => ExactReturn)
  <2> SUFFICES ASSUME Inv, InvAlone, NEW r \in Requests, CommitReturn(r)
               PROVE  LET t == returning[r]
                          own(R) == {row \in R : row.learner = t.learner}
                      IN own(recognized') =
                           Grounded({row \in own(recognized) : row.unit # t.unit},
                                    Completions(direct'))
    BY DEF ExactReturn
  <2> DEFINE t == returning[r]
             rest == {row \in {row \in recognized : row.learner = t.learner} : row.unit # t.unit}
  <2>1. rest = Others(t)
    BY DEF Others
  <2>2. {row \in recognized' : row.learner = t.learner} = Grounded(Others(t), Completions(direct'))
    BY ExactReturnOf
  <2> HIDE DEF rest
  <2>3. {row \in recognized' : row.learner = t.learner} = Grounded(rest, Completions(direct'))
    BY <2>1, <2>2
  <2> QED BY <2>3 DEF rest
<1>2. Spec => [][alone => ExactReturn]_vars
  <2>1. Inv /\ (alone => InvAlone) => [alone => ExactReturn]_vars
    BY <1>1
  <2> QED BY <2>1, Invariant, InvariantAlone, PTL
<1> QED BY <1>2 DEF ReturnIsExact

\* While no two transactions overlap, whatever is still recognized of a learner who completed no unit
\* twice follows from what they have completed now.
THEOREM EvidenceIsKept == Spec => []ChainsOfEvidence
<1>1. (alone => InvAlone) => ChainsOfEvidence
  BY DEF InvAlone, EvidenceIsChained, CompletedOnce, ChainsOfEvidence, Quiet
<1> QED BY <1>1, InvariantAlone, PTL

================================================================================
