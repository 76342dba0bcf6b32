---------------------------- MODULE LearningProgress ----------------------------
(***************************************************************************)
(* What learners have completed and what publications recognize from it    *)
(* (internal/db/completed_units.go, called by services.SetUnitProgress and *)
(* services.AcceptCurriculumProposal).                                     *)
(*                                                                         *)
(* Nothing here is serialised: transactions run at READ COMMITTED and a    *)
(* completion takes no lock that an acceptance takes.  A step is therefore *)
(* one SQL statement, it reads what is committed when it runs and what its *)
(* own transaction wrote, and the rows a transaction has deleted stay      *)
(* locked until it ends.  A statement that has to wait for such a row runs *)
(* as if issued when the row is free: the properties checked while returns *)
(* overlap do not depend on the difference.                                *)
(***************************************************************************)
EXTENDS Publications

CONSTANTS Learner,
          Publishable,       \* the proposals an administrator may accept
          Requests,          \* requests that return units to pending
          MaxPublications,   \* bound: proposals accepted
          MaxOpen            \* bound: transactions open at the same time

ASSUME PublishableAssumption == Publishable \subseteq Publication
ASSUME BoundsAssumption == MaxPublications \in Nat /\ MaxOpen \in Nat \ {0}

VARIABLES
    accepted,    \* the accepted proposals, oldest first
    direct,      \* unit_completions: the proposal of each completion, 0 for no row
    recognized,  \* unit_completion_recognitions
    acceptance,  \* the open acceptance and the rows it has inserted
    returning,   \* the open transactions that return a unit to pending
    ever,        \* history: every direct completion recorded so far
    alone        \* history: no transaction has begun while another was open

vars == <<accepted, direct, recognized, acceptance, returning, ever, alone>>

Row == [learner : Learner, unit : Unit, proposal : 1..MaxPublications, rule : Rule]

NoAcceptance == [open |-> FALSE, rows |-> {}]
NoReturn == [phase |-> "idle"]

TypeOK ==
    /\ accepted \in Seq(Publishable) /\ Len(accepted) <= MaxPublications
    /\ direct \in [Learner -> [Unit -> 0..Len(accepted)]]
    /\ recognized \subseteq Row
    /\ \/ acceptance = NoAcceptance
       \/ /\ acceptance.open
          /\ acceptance.rows \subseteq Row
          /\ acceptance.publication \in Publishable
    /\ \A r \in Requests :
          \/ returning[r] = NoReturn
          \/ /\ returning[r].phase \in {"direct", "derived", "prune", "commit"}
             /\ returning[r].learner \in Learner /\ returning[r].unit \in Unit
             /\ returning[r].direct \subseteq {returning[r].unit}
             /\ returning[r].rows \subseteq recognized
    /\ ever \subseteq Learner \X Unit \X (1..Len(accepted))
    /\ alone \in BOOLEAN

Init ==
    /\ accepted = <<>>
    /\ direct = [l \in Learner |-> [u \in Unit |-> 0]]
    /\ recognized = {}
    /\ acceptance = NoAcceptance
    /\ returning = [r \in Requests |-> NoReturn]
    /\ ever = {}
    /\ alone = TRUE

--------------------------------------------------------------------------------
Latest == Len(accepted)

Units == PublishedBy(accepted)

Open == {r \in Requests : returning[r].phase # "idle"}

Quiet == Open = {} /\ ~acceptance.open

\* A transaction begins, when there is room for another.
Begins ==
    /\ Cardinality(Open) + (IF acceptance.open THEN 1 ELSE 0) < MaxOpen
    /\ alone' = (alone /\ Quiet)

\* A learner's evidence from before the k-th proposal: completions E, which are
\* triples <<learner, unit, proposal>>, and recognitions R.
Evidence(l, k, E, R) ==
    {e[2] : e \in {x \in E : x[1] = l /\ x[3] < k}}
      \cup {row.unit : row \in {x \in R : x.learner = l /\ x.proposal < k}}

\* Mutant: recognitions accepted together feed one another.
MaterializedTogether(k, rules, E, R) ==
    LET granted(S) == UNION {{[learner |-> y[1], unit |-> u, proposal |-> k, rule |-> y[2]] :
                                 u \in y[2].targets} :
                          y \in {z \in Learner \X rules :
                                    z[2].sources \subseteq Evidence(z[1], k + 1, E, S)}}
    IN granted(R) \cup granted(R \cup granted(R))

\* materializeCurriculumRecognitions: the rows the rules of the k-th proposal
\* grant, all read from the same evidence.
Materialized(k, rules, E, R) ==
    UNION {{[learner |-> y[1], unit |-> u, proposal |-> k, rule |-> y[2]] :
               u \in y[2].targets} :
        y \in {z \in Learner \X rules : z[2].sources \subseteq Evidence(z[1], k, E, R)}}

Completions(d) ==
    {<<x[1], x[2], d[x[1]][x[2]]>> : x \in {y \in Learner \X Unit : d[y[1]][y[2]] # 0}}

--------------------------------------------------------------------------------
(***************************************************************************)
(* Acceptance, as far as progress can tell: MaterializeCurriculumRecog-    *)
(* nitions is one statement, and its rows, the head and the units change   *)
(* together for everyone else when the transaction commits.                *)
(***************************************************************************)
AcceptCurriculumProposal(P) ==
    /\ ~acceptance.open
    /\ Begins
    /\ Latest < MaxPublications
    /\ CanFollow(accepted, P)
    /\ acceptance' =
          [open |-> TRUE, publication |-> P,
           rows |-> Materialized(Latest + 1, P.rules, Completions(direct), recognized)]
    /\ UNCHANGED <<accepted, direct, recognized, returning, ever>>

CommitAcceptance ==
    /\ acceptance.open
    /\ accepted' = Append(accepted, acceptance.publication)
    /\ recognized' = recognized \cup acceptance.rows
    /\ acceptance' = NoAcceptance
    /\ UNCHANGED <<direct, returning, ever, alone>>

RollbackAcceptance ==
    /\ acceptance.open
    /\ acceptance' = NoAcceptance
    /\ UNCHANGED <<accepted, direct, recognized, returning, ever, alone>>

(***************************************************************************)
(* Completing a unit: one statement, its own transaction.                  *)
(***************************************************************************)
LockedDirect(l, u, t) ==
    \E r \in Open \ t : returning[r].learner = l /\ u \in returning[r].direct

\* Mutant: a completion is filed under the publication still to come.
SetUnitCompletedAhead(l, u) ==
    /\ Begins
    /\ u \in Units
    /\ ~LockedDirect(l, u, {})
    /\ direct' = [direct EXCEPT ![l][u] = Latest + 1]
    /\ ever' = ever \cup {<<l, u, Latest>>}
    /\ UNCHANGED <<accepted, recognized, acceptance, returning>>

SetUnitCompleted(l, u) ==
    /\ Begins
    /\ u \in Units
    /\ ~LockedDirect(l, u, {})
    /\ direct[l][u] # Latest
    /\ direct' = [direct EXCEPT ![l][u] = Latest]
    /\ ever' = ever \cup {<<l, u, Latest>>}
    /\ UNCHANGED <<accepted, recognized, acceptance, returning>>

(***************************************************************************)
(* Returning a unit to pending: the direct row, the derived rows of the    *)
(* unit, then whatever the rest no longer supports.                        *)
(***************************************************************************)
BeginReturn(r, l, u) ==
    /\ returning[r] = NoReturn
    /\ Begins
    /\ u \in Units
    /\ returning' = [returning EXCEPT ![r] =
           [phase |-> "direct", learner |-> l, unit |-> u, direct |-> {}, rows |-> {}]]
    /\ UNCHANGED <<accepted, direct, recognized, acceptance, ever>>

\* What the transaction of r sees of its learner's rows.
VisibleDirect(r) ==
    {e \in Completions(direct) :
        e[1] = returning[r].learner /\ e[2] \notin returning[r].direct}
VisibleRows(r) ==
    {row \in recognized : row.learner = returning[r].learner} \ returning[r].rows

LockedRows(r) == UNION {returning[q].rows : q \in Open \ {r}}

DeleteDirect(r) ==
    LET t == returning[r] IN
    /\ t.phase = "direct"
    /\ ~LockedDirect(t.learner, t.unit, {r})
    /\ returning' = [returning EXCEPT ![r] =
           [t EXCEPT !.phase = "derived",
                     !.direct = {e[2] : e \in {x \in VisibleDirect(r) : x[2] = t.unit}}]]
    /\ UNCHANGED <<accepted, direct, recognized, acceptance, ever, alone>>

\* Mutant: only the direct row of the unit goes.
DeleteDerivedNothing(r) ==
    LET t == returning[r] IN
    /\ t.phase = "derived"
    /\ returning' = [returning EXCEPT ![r] = [t EXCEPT !.phase = "prune"]]
    /\ UNCHANGED <<accepted, direct, recognized, acceptance, ever, alone>>

DeleteDerived(r) ==
    LET t == returning[r]
        mine == {row \in VisibleRows(r) : row.unit = t.unit}
    IN /\ t.phase = "derived"
       /\ mine \cap LockedRows(r) = {}
       /\ returning' = [returning EXCEPT ![r] =
              [t EXCEPT !.phase = "prune", !.rows = t.rows \cup mine]]
       /\ UNCHANGED <<accepted, direct, recognized, acceptance, ever, alone>>

Supported(row, E, R) == row.rule.sources \subseteq Evidence(row.learner, row.proposal, E, R)

\* Mutant: dependent recognitions are pruned one level deep.
DeleteUnsupportedOnce(r) ==
    LET t == returning[r]
        gone == {row \in VisibleRows(r) :
                    ~Supported(row, VisibleDirect(r), VisibleRows(r))}
    IN /\ t.phase = "prune"
       /\ gone \cap LockedRows(r) = {}
       /\ returning' = [returning EXCEPT ![r] =
              [t EXCEPT !.phase = "commit", !.rows = t.rows \cup gone]]
       /\ UNCHANGED <<accepted, direct, recognized, acceptance, ever, alone>>

\* One iteration of PruneUserCurriculumRecognitions; the loop ends with the
\* first that finds nothing to delete.
DeleteUnsupported(r) ==
    LET t == returning[r]
        gone == {row \in VisibleRows(r) :
                    ~Supported(row, VisibleDirect(r), VisibleRows(r))}
    IN /\ t.phase = "prune"
       /\ gone \cap LockedRows(r) = {}
       /\ returning' = [returning EXCEPT ![r] =
              [t EXCEPT !.phase = IF gone = {} THEN "commit" ELSE "prune",
                        !.rows = t.rows \cup gone]]
       /\ UNCHANGED <<accepted, direct, recognized, acceptance, ever, alone>>

\* Mutant: a return recomputes what history recognizes from what is left.
CommitReturnRebuilding(r) ==
    LET t == returning[r]
        left == [direct EXCEPT ![t.learner] =
                    [u \in Unit |-> IF u \in t.direct THEN 0 ELSE @[u]]]
    IN /\ t.phase = "commit"
       /\ direct' = left
       /\ recognized' = (recognized \ t.rows)
              \cup UNION {Materialized(k, accepted[k].rules, Completions(left), {}) :
                             k \in 1..Latest}
       /\ returning' = [returning EXCEPT ![r] = NoReturn]
       /\ UNCHANGED <<accepted, acceptance, ever, alone>>

CommitReturn(r) ==
    LET t == returning[r] IN
    /\ t.phase = "commit"
    /\ direct' = [direct EXCEPT ![t.learner] =
           [u \in Unit |-> IF u \in t.direct THEN 0 ELSE @[u]]]
    /\ recognized' = recognized \ t.rows
    /\ returning' = [returning EXCEPT ![r] = NoReturn]
    /\ UNCHANGED <<accepted, acceptance, ever, alone>>

\* A failure, or the database chose this transaction to break a deadlock.
RollbackReturn(r) ==
    /\ r \in Open
    /\ returning' = [returning EXCEPT ![r] = NoReturn]
    /\ UNCHANGED <<accepted, direct, recognized, acceptance, ever, alone>>

--------------------------------------------------------------------------------
Next ==
    \/ \E P \in Publishable : AcceptCurriculumProposal(P)
    \/ CommitAcceptance
    \/ RollbackAcceptance
    \/ \E l \in Learner, u \in Unit : SetUnitCompleted(l, u)
    \/ \E r \in Requests :
          \/ \E l \in Learner, u \in Unit : BeginReturn(r, l, u)
          \/ DeleteDirect(r)
          \/ DeleteDerived(r)
          \/ DeleteUnsupported(r)
          \/ CommitReturn(r)
          \/ RollbackReturn(r)

Spec == Init /\ [][Next]_vars

--------------------------------------------------------------------------------
(***************************************************************************)
(* Properties.                                                             *)
(***************************************************************************)

\* The rows among R that the completions E support, each from before its own
\* proposal and through rows that are supported themselves.
Grounded(R, E) ==
    LET upTo[k \in 0..Latest] ==
            IF k = 0 THEN {}
            ELSE upTo[k - 1] \cup
                 {row \in R : row.proposal = k /\ Supported(row, E, upTo[k - 1])}
    IN upTo[Latest]

\* Every row the accepted proposals could ever grant.
AllRows ==
    UNION {UNION {{[learner |-> l, unit |-> u, proposal |-> k, rule |-> x] :
                       l \in Learner, u \in x.targets} :
               x \in accepted[k].rules} : k \in 1..Latest}

\* Nobody is granted what they never learned: every recognition follows, one
\* proposal at a time, from completions its learner recorded before, however
\* acceptances, completions and returns were interleaved, and proposals that
\* recognize in circles or in chains do not feed themselves.
RecognizedFromEarlierEvidence == recognized \subseteq Grounded(AllRows, ever)

\* A recognition is granted when its proposal is published or never: a learner
\* who dismissed one does not see it come back, whatever they do next, and no
\* return rebuilds what earlier publications recognized.  The documentation of
\* recognitions says the opposite in one place (ReturnsRevealOtherRoutes).
GrantedAtPublication ==
    [][\A row \in recognized' \ recognized :
          row.proposal = Len(accepted') /\ Len(accepted') = Latest + 1]_vars

\* While no two transactions overlap, returning progress leaves no recognition
\* without a chain of evidence.  A learner who completed a unit twice is left
\* out: the second completion replaces the evidence of the first, and what
\* followed from it stays until the learner's next return of any unit.
ChainsOfEvidence ==
    alone /\ Quiet =>
        \A row \in recognized :
            (\A d, e \in ever : d[1] = row.learner /\ e[1] = d[1] /\ e[2] = d[2] => d = e)
            => row \in Grounded(recognized, Completions(direct))

\* While no two transactions overlap, returning a unit removes its own rows and,
\* of the rest, exactly what is not supported any more.
ExactReturn ==
    \A r \in Requests : CommitReturn(r) =>
        LET t == returning[r]
            own(R) == {row \in R : row.learner = t.learner}
        IN own(recognized') =
              Grounded({row \in own(recognized) : row.unit # t.unit}, Completions(direct'))

ReturnIsExact == [][alone => ExactReturn]_vars

\* What the documentation of recognitions says of the learning interface: a
\* learner who returns a direct completion sees the recognition of the unit that
\* their other direct completions still support.
ReturnsRevealOtherRoutes ==
    [][\A r \in Requests : alone /\ CommitReturn(r) /\ returning[r].direct # {} =>
          {row \in recognized :
              /\ row.learner = returning[r].learner /\ row.unit = returning[r].unit
              /\ Supported(row, Completions(direct'), {})} \subseteq recognized']_vars

\* What the product specification says of recognitions: they reach every learner
\* who had completed all the sources before the proposal was accepted.
CompletedBeforeIsRecognized ==
    [][\A k \in {Len(accepted')} \ {Latest} :
          Materialized(k, accepted'[k].rules, Completions(direct), recognized)
              \subseteq recognized']_vars

================================================================================
