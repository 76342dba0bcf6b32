------------------------------ MODULE LearningPaths ------------------------------
(***************************************************************************)
(* Learners' paths, and the recognitions that move their targets           *)
(* (internal/services/learning_paths.go, internal/db/learning_paths.go,    *)
(* called by services.AcceptCurriculumProposal).                           *)
(*                                                                         *)
(* Requests check the units of a path before their transaction begins, and *)
(* acceptances migrate paths row by row.  A step is one SQL statement at   *)
(* READ COMMITTED; it waits for the row locks of other transactions:       *)
(*   - of a path, taken by updates, deletions and the touch of a migration *)
(*     and shared by insertions of its targets, which refer to it,         *)
(*   - of a target, taken by its deletion and its insertion.               *)
(* Updates lock the path before its targets and migrations lock it after,  *)
(* so the two can wait for each other, and the database aborts one.        *)
(***************************************************************************)
EXTENDS Publications

CONSTANTS Path,              \* path identities, issued once each
          Publishable,       \* the proposals an administrator may accept
          Initial,           \* the first publication
          Requests,          \* learners' requests
          MaxPublications    \* bound: proposals accepted

ASSUME PublishableAssumption == Publishable \subseteq Publication /\ Initial \in Publication
ASSUME BoundsAssumption == MaxPublications \in Nat \ {0}

VARIABLES
    accepted,    \* the accepted proposals, oldest first
    paths,       \* learning_paths
    rows,        \* learning_path_units, pairs <<path, unit>>
    acceptance,  \* the open acceptance: what is left to do, its own writes, and
                 \* seen, the targets it read of paths nobody has updated since
    request,     \* the requests and their open transactions
    listed       \* history: <<path, unit, proposals accepted when listed>>

vars == <<accepted, paths, rows, acceptance, request, listed>>

\* What a migration does to a path: the sources it removes, the targets it adds.
Migration == [path : Path, gone : SUBSET Unit, add : SUBSET Unit]

Closed == [open |-> FALSE]
Idle == [phase |-> "idle"]

TypeOK ==
    /\ accepted \in Seq(Publishable \cup {Initial}) /\ Len(accepted) <= MaxPublications
    /\ paths \subseteq Path
    /\ rows \subseteq paths \X Unit
    /\ \/ acceptance = Closed
       \/ /\ acceptance.open /\ acceptance.publication \in Publishable
          /\ acceptance.current \subseteq Migration /\ acceptance.todo \subseteq Migration
          /\ acceptance.gone \subseteq rows /\ acceptance.seen \subseteq Path \X Unit
          /\ acceptance.added \subseteq (Path \X Unit) \ rows
          /\ acceptance.touched \subseteq Path
    /\ \A r \in Requests :
          \/ request[r] = Idle
          \/ /\ request[r].phase = "create" /\ request[r].units \in (SUBSET Unit) \ {{}}
          \/ /\ request[r].phase \in {"update", "clear", "insert", "delete", "cascade"}
             /\ request[r].path \in Path /\ request[r].left \subseteq request[r].units
             /\ ({request[r].path} \X request[r].gone) \subseteq rows
             /\ request[r].added \subseteq request[r].units

Init ==
    /\ accepted = <<Initial>>
    /\ paths = {}
    /\ rows = {}
    /\ acceptance = Closed
    /\ request = [r \in Requests |-> Idle]
    /\ listed = {}

--------------------------------------------------------------------------------
Units == PublishedBy(accepted)
TargetsOf(R, p) == {u \in Unit : <<p, u>> \in R}

\* Locks: the path of a request, and the targets of each transaction.
HoldsPath(r) == request[r].phase \in {"clear", "insert", "cascade"}
HolderOf(p) == {r \in Requests : HoldsPath(r) /\ request[r].path = p}
HeldTargets(r) ==
    IF request[r].phase = "insert"
    THEN {request[r].path} \X (request[r].gone \cup request[r].added) ELSE {}
MigratedTargets == IF acceptance.open THEN acceptance.gone \cup acceptance.added ELSE {}
TouchedPaths == IF acceptance.open THEN acceptance.touched ELSE {}

\* The paths an insertion of the acceptance refers to.
SharedPaths == IF acceptance.open THEN {x[1] : x \in acceptance.added} ELSE {}

--------------------------------------------------------------------------------
(***************************************************************************)
(* Acceptance: MigrateLearningPathTargets reads what every path needs,     *)
(* then changes one path after another in the order of a Go map.           *)
(***************************************************************************)

\* Mutant: the targets of a recognition activate the recognitions beside it.
PlanFeeding(P) ==
    LET active(S) == {x \in P.rules : x.sources \cap S # {}}
        grown(S) == S \cup UNION {x.targets : x \in active(S)}
        plan(p) == [path |-> p, gone |-> TargetsOf(rows, p) \cap P.deleted
                                           \cap UNION {x.sources : x \in P.rules},
                    add |-> UNION {x.targets : x \in active(grown(TargetsOf(rows, p)))}]
    IN {plan(p) : p \in {q \in paths : active(TargetsOf(rows, q)) # {}}}

\* Mutant: only what is published already becomes a target.
PlanPublished(P) ==
    LET active(p) == {x \in P.rules : x.sources \cap TargetsOf(rows, p) # {}}
        plan(p) == [path |-> p,
                    gone |-> TargetsOf(rows, p) \cap P.deleted
                                \cap UNION {x.sources : x \in P.rules},
                    add |-> Units \cap UNION {x.targets : x \in active(p)}]
    IN {plan(p) : p \in {q \in paths : active(q) # {}}}

\* Mutant: sources leave the path whether or not they are deleted.
PlanReplacing(P) ==
    LET active(p) == {x \in P.rules : x.sources \cap TargetsOf(rows, p) # {}}
        plan(p) == [path |-> p,
                    gone |-> TargetsOf(rows, p) \cap UNION {x.sources : x \in P.rules},
                    add |-> UNION {x.targets : x \in active(p)}]
    IN {plan(p) : p \in {q \in paths : active(q) # {}}}

Plan(P) ==
    LET active(p) == {x \in P.rules : x.sources \cap TargetsOf(rows, p) # {}}
        plan(p) == [path |-> p,
                    gone |-> TargetsOf(rows, p) \cap P.deleted
                                \cap UNION {x.sources : x \in P.rules},
                    add |-> UNION {x.targets : x \in active(p)}]
    IN {plan(p) : p \in {q \in paths : active(q) # {}}}

AcceptCurriculumProposal(P) ==
    /\ ~acceptance.open
    /\ Len(accepted) < MaxPublications
    /\ CanFollow(accepted, P)
    /\ acceptance' = [open |-> TRUE, publication |-> P, seen |-> rows,
                      todo |-> Plan(P), current |-> {},
                      gone |-> {}, added |-> {}, touched |-> {}]
    /\ UNCHANGED <<accepted, paths, rows, request, listed>>

\* The migration under way, or any of the others once it is done.
NextMigrations ==
    IF ~acceptance.open THEN {}
    ELSE IF acceptance.current # {} THEN acceptance.current ELSE acceptance.todo

\* The statement of the migration m is done and leaves the migrations now.
Migrated(m, now) ==
    [acceptance EXCEPT !.todo = @ \ {m}, !.current = now]

RemoveSource(m, u) ==
    /\ u \in m.gone
    /\ \A r \in Requests : <<m.path, u>> \notin HeldTargets(r)
    /\ acceptance' = [Migrated(m, {[m EXCEPT !.gone = @ \ {u}]}) EXCEPT
                          !.gone = @ \cup ({<<m.path, u>>} \cap rows)]
    /\ UNCHANGED <<accepted, paths, rows, request, listed>>

AddTarget(m, u) ==
    /\ m.gone = {}
    /\ u \in m.add
    /\ \A r \in Requests : <<m.path, u>> \notin HeldTargets(r)
    /\ LET next == Migrated(m, {[m EXCEPT !.add = @ \ {u}]})
       IN \/ /\ <<m.path, u>> \in rows
             /\ acceptance' = next
          \/ /\ <<m.path, u>> \notin rows
             /\ m.path \in paths
             /\ \A r \in HolderOf(m.path) : request[r].phase # "cascade"
             /\ acceptance' = [next EXCEPT !.added = @ \cup {<<m.path, u>>}]
    /\ UNCHANGED <<accepted, paths, rows, request, listed>>

TouchPath(m) ==
    /\ m.gone = {} /\ m.add = {}
    /\ HolderOf(m.path) = {}
    /\ acceptance' = [Migrated(m, {}) EXCEPT !.touched = @ \cup ({m.path} \cap paths)]
    /\ UNCHANGED <<accepted, paths, rows, request, listed>>

CommitAcceptance ==
    /\ acceptance.open /\ NextMigrations = {}
    /\ accepted' = Append(accepted, acceptance.publication)
    /\ rows' = (rows \ acceptance.gone) \cup acceptance.added
    /\ acceptance' = Closed
    /\ UNCHANGED <<paths, request, listed>>

\* The path of a migration is gone: its insertion violates the foreign key.
AddToMissingPath(m) ==
    /\ m.gone = {} /\ m.add # {}
    /\ m.path \notin paths
    /\ acceptance' = Closed
    /\ UNCHANGED <<accepted, paths, rows, request, listed>>

--------------------------------------------------------------------------------
(***************************************************************************)
(* Requests.  The units of a path are looked up one by one, each by a      *)
(* query of its own, before the transaction begins.                        *)
(***************************************************************************)
Transaction(phase, p, S) ==
    [phase |-> phase, path |-> p, units |-> S, left |-> S, gone |-> {}, added |-> {}]

Unissued == {p \in Path : \A x \in listed : x[1] # p}
Creations == {r \in Requests : request[r].phase = "create"}

ValidateCreation(r, S) ==
    /\ request[r] = Idle
    /\ Cardinality(Creations) < Cardinality(Unissued)
    /\ S # {} /\ S \subseteq Units
    /\ request' = [request EXCEPT ![r] = [phase |-> "create", units |-> S]]
    /\ UNCHANGED <<accepted, paths, rows, acceptance, listed>>

\* The new path is nobody else's before the commit: one step.
CreateLearningPath(r, p) ==
    /\ request[r].phase = "create"
    /\ p \in Unissued
    /\ paths' = paths \cup {p}
    /\ rows' = rows \cup ({p} \X request[r].units)
    /\ listed' = listed \cup ({p} \X request[r].units \X {Len(accepted)})
    /\ request' = [request EXCEPT ![r] = Idle]
    /\ UNCHANGED <<accepted, acceptance>>

ValidateUpdate(r, p, S) ==
    /\ request[r] = Idle
    /\ p \in paths
    /\ S # {} /\ S \subseteq Units
    /\ request' = [request EXCEPT ![r] = Transaction("update", p, S)]
    /\ UNCHANGED <<accepted, paths, rows, acceptance, listed>>

CanLock(r) ==
    HolderOf(request[r].path) = {} /\ request[r].path \notin TouchedPaths

\* Mutant: an update that finds no path returns without ending its transaction.
LockLeavingOpen(r) ==
    /\ request[r].phase = "update"
    /\ request[r].path \in paths /\ CanLock(r)
    /\ request' = [request EXCEPT ![r] = [@ EXCEPT !.phase = "clear"]]
    /\ UNCHANGED <<accepted, paths, rows, acceptance, listed>>

\* Mutant: an update writes the targets without locking the path.
UpdateWithoutLock(r) ==
    /\ request[r].phase = "update"
    /\ request' = [request EXCEPT ![r] =
           IF request[r].path \in paths THEN [@ EXCEPT !.phase = "clear"] ELSE Idle]
    /\ UNCHANGED <<accepted, paths, rows, acceptance, listed>>

\* UPDATE learning_paths; without a row the request ends with "not found".
UpdateLearningPath(r) ==
    /\ request[r].phase = "update"
    /\ CanLock(r)
    /\ request' = [request EXCEPT ![r] =
           IF request[r].path \in paths THEN [@ EXCEPT !.phase = "clear"] ELSE Idle]
    /\ UNCHANGED <<accepted, paths, rows, acceptance, listed>>

\* ReplaceLearningPathUnits: the deletion ...
ClearUnits(r) ==
    LET mine == TargetsOf(rows, request[r].path)
    IN /\ request[r].phase = "clear"
       /\ ({request[r].path} \X mine) \cap MigratedTargets = {}
       /\ request' = [request EXCEPT ![r] = [@ EXCEPT !.phase = "insert", !.gone = mine]]
       /\ UNCHANGED <<accepted, paths, rows, acceptance, listed>>

\* ... and the insertions.
InsertUnit(r, u) ==
    /\ request[r].phase = "insert"
    /\ u \in request[r].left
    /\ <<request[r].path, u>> \notin MigratedTargets
    /\ request' = [request EXCEPT ![r].left = @ \ {u}, ![r].added = @ \cup {u}]
    /\ UNCHANGED <<accepted, paths, rows, acceptance, listed>>

\* History: the migration of p is raced.
Raced(p) ==
    acceptance' = IF acceptance.open
                  THEN [acceptance EXCEPT !.seen = {x \in @ : x[1] # p}] ELSE Closed

CommitUpdate(r) ==
    LET t == request[r] IN
    /\ t.phase = "insert" /\ t.left = {}
    /\ rows' = (rows \ ({t.path} \X t.gone)) \cup ({t.path} \X t.added)
    /\ listed' = listed \cup ({t.path} \X t.units \X {Len(accepted)})
    /\ request' = [request EXCEPT ![r] = Idle]
    /\ Raced(t.path)
    /\ UNCHANGED <<accepted, paths>>

RequestDeletion(r, p) ==
    /\ request[r] = Idle
    /\ p \in paths
    /\ request' = [request EXCEPT ![r] = Transaction("delete", p, {})]
    /\ UNCHANGED <<accepted, paths, rows, acceptance, listed>>

\* DELETE learning_paths: it locks the row, also against those who refer to it,
DeleteLearningPath(r) ==
    /\ request[r].phase = "delete"
    /\ CanLock(r)
    /\ request[r].path \notin SharedPaths
    /\ request' = [request EXCEPT ![r] =
           IF request[r].path \in paths THEN [@ EXCEPT !.phase = "cascade"] ELSE Idle]
    /\ UNCHANGED <<accepted, paths, rows, acceptance, listed>>

\* then cascades to the targets, in the same statement and transaction.
CascadeDeletion(r) ==
    LET p == request[r].path IN
    /\ request[r].phase = "cascade"
    /\ \A x \in MigratedTargets : x[1] # p
    /\ paths' = paths \ {p}
    /\ rows' = {x \in rows : x[1] # p}
    /\ request' = [request EXCEPT ![r] = Idle]
    /\ UNCHANGED <<accepted, acceptance, listed>>

--------------------------------------------------------------------------------
(***************************************************************************)
(* Failures roll a transaction back at any time.  Two transactions that    *)
(* wait for each other are found by the database, which aborts one.        *)
(***************************************************************************)
AcceptanceWaitsFor(r) ==
    \E m \in NextMigrations :
        /\ HoldsPath(r) /\ request[r].path = m.path
        /\ \/ \E u \in m.gone : <<m.path, u>> \in HeldTargets(r)
           \/ /\ m.gone = {}
              /\ \E u \in m.add : \/ <<m.path, u>> \in HeldTargets(r)
                                  \/ request[r].phase = "cascade"
           \/ m.gone = {} /\ m.add = {}

WaitsForAcceptance(r) ==
    LET p == request[r].path IN
    \/ /\ request[r].phase = "clear"
       /\ ({p} \X TargetsOf(rows, p)) \cap MigratedTargets # {}
    \/ /\ request[r].phase = "insert"
       /\ \E u \in request[r].left : <<p, u>> \in MigratedTargets
    \/ /\ request[r].phase = "cascade"
       /\ \E x \in MigratedTargets : x[1] = p

Rollback(r) == request' = [request EXCEPT ![r] = Idle] /\ UNCHANGED acceptance
RollbackAcceptance == acceptance' = Closed /\ UNCHANGED request

BreakDeadlock ==
    /\ \E r \in Requests : /\ AcceptanceWaitsFor(r) /\ WaitsForAcceptance(r)
                           /\ Rollback(r) \/ RollbackAcceptance
    /\ UNCHANGED <<accepted, paths, rows, listed>>

Fail ==
    /\ \/ \E r \in Requests : request[r] # Idle /\ Rollback(r)
       \/ acceptance.open /\ RollbackAcceptance
    /\ UNCHANGED <<accepted, paths, rows, listed>>

--------------------------------------------------------------------------------
Migrate ==
    \E m \in NextMigrations :
        \/ \E u \in Unit : RemoveSource(m, u) \/ AddTarget(m, u)
        \/ AddToMissingPath(m)
        \/ TouchPath(m)

Step(r) ==
    \/ \E p \in Path : CreateLearningPath(r, p)
    \/ UpdateLearningPath(r)
    \/ ClearUnits(r)
    \/ \E u \in Unit : InsertUnit(r, u)
    \/ CommitUpdate(r)
    \/ DeleteLearningPath(r)
    \/ CascadeDeletion(r)

Next ==
    \/ \E P \in Publishable : AcceptCurriculumProposal(P)
    \/ Migrate
    \/ CommitAcceptance
    \/ \E r \in Requests :
          \/ \E S \in SUBSET Unit : ValidateCreation(r, S)
          \/ \E p \in Path, S \in SUBSET Unit : ValidateUpdate(r, p, S)
          \/ \E p \in Path : RequestDeletion(r, p)
          \/ Step(r)
    \/ BreakDeadlock
    \/ Fail

\* A transaction runs its statements to the end, row locks are granted in the
\* order they are asked for, and the database looks for deadlocks.
Fairness ==
    /\ \A r \in Requests : SF_vars(Step(r))
    /\ SF_vars(Migrate)
    /\ WF_vars(CommitAcceptance)
    /\ WF_vars(BreakDeadlock)

Spec == Init /\ [][Next]_vars /\ Fairness

--------------------------------------------------------------------------------
(***************************************************************************)
(* Properties.                                                             *)
(***************************************************************************)

\* No path is ever left without a target: updates replace all of them and
\* migrations remove sources while others run, but none commits in between.
EveryPathHasATarget == \A p \in paths : TargetsOf(rows, p) # {}

\* The targets that follow from those of p that were listed before a proposal,
\* one proposal at a time.
Recognized(p) ==
    LET upTo[k \in 1..Len(accepted)] ==
            LET before == IF k = 1 THEN {}
                          ELSE upTo[k - 1] \cup {x[2] : x \in {y \in listed : y[1] = p /\ y[3] < k}}
            IN before \cup UNION {x.targets : x \in {y \in accepted[k].rules :
                                                        y.sources \cap before # {}}}
    IN upTo[Len(accepted)]

\* No path gets a target that its learner did not list and no recognition of an
\* accepted proposal led to, one proposal at a time: recognitions accepted
\* together do not feed one another.
TargetsAreWanted ==
    \A x \in rows : \/ \E y \in listed : y[1] = x[1] /\ y[2] = x[2]
                    \/ x[2] \in Recognized(x[1])

\* A migration that nobody raced adds the targets of every recognition with a
\* source in the path, and removes exactly the sources the proposal deletes.
MigrationIsExact ==
    [][CommitAcceptance =>
        LET P == acceptance.publication
        IN \A p \in paths :
              LET old == TargetsOf(acceptance.seen, p)
                  active == {x \in P.rules : x.sources \cap old # {}}
              IN old # {}
                 => TargetsOf(rows', p) =
                       (old \ (P.deleted \cap UNION {x.sources : x \in active}))
                          \cup UNION {x.targets : x \in active}
      ]_vars

\* An update leaves the path with the units it listed and nothing else, whatever
\* other updates, deletions and migrations of the path are open.
UpdateStoresItsList ==
    [][\A r \in Requests : CommitUpdate(r) =>
          TargetsOf(rows', request[r].path) = request[r].units]_vars

\* Every acceptance, and every request that creates or updates a path or has
\* begun to delete one, ends, although updates and migrations lock paths and
\* targets in opposite orders.  A deletion that waits is not promised its turn:
\* updates and insertions share the path and may hold it alternately.
EveryTransactionEnds ==
    /\ \A r \in Requests :
          request[r].phase \notin {"idle", "delete"} ~> request[r] = Idle
    /\ acceptance.open ~> ~acceptance.open

\* What the product specification says of publications: every target of a path
\* that matches a source adds all targets of the recognition.
TargetsFollowRecognitions ==
    [][CommitAcceptance =>
          \A x \in acceptance.publication.rules, p \in paths :
              x.sources \cap TargetsOf(rows, p) # {} =>
                  x.targets \subseteq TargetsOf(rows', p)]_vars

================================================================================
