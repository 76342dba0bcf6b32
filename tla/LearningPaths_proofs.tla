-------------------------- MODULE LearningPaths_proofs --------------------------
(***************************************************************************)
(* Proofs about LearningPaths, and StudyGuide, which reads its paths, for  *)
(* every set of units, paths, requests, proposals and readers.             *)
(*                                                                         *)
(* An update and a migration of one path may be open at once.  Neither     *)
(* spoils the other because the targets one of them has written are not    *)
(* the other's to write, and because a migration ends with the path, which *)
(* it can only have when no update does: until then it owes the path a     *)
(* step, and before the last of its insertions it owes it a target.        *)
(***************************************************************************)
EXTENDS StudyGuide, WellFoundedInduction, SequenceTheorems, FiniteSetTheorems, TLAPS

Pairs == Path \X Unit

Creation == [phase : {"create"}, units : (SUBSET Unit) \ {{}}]

Work ==
  [phase : {"update", "clear", "insert", "delete", "cascade"}, path : Path,
   units : SUBSET Unit, left : SUBSET Unit, gone : SUBSET Unit, added : SUBSET Unit]

Opened ==
  [open : {TRUE}, publication : Publishable, seen : SUBSET Pairs,
   todo : SUBSET Migration, current : SUBSET Migration,
   gone : SUBSET Pairs, added : SUBSET Pairs, touched : SUBSET Path]

Typed ==
  /\ accepted \in Seq(Publishable \cup {Initial}) /\ Len(accepted) <= MaxPublications
  /\ paths \subseteq Path
  /\ rows \subseteq Pairs
  /\ acceptance \in Opened \cup {Closed}
  /\ acceptance.open => Len(accepted) < MaxPublications
  /\ request \in [Requests -> Work \cup Creation \cup {Idle}]

\* Targets belong to paths, and the identity of a path is issued once.
Issued == Path \ Unissued

TargetsBelong ==
  /\ paths \subseteq Issued
  /\ \A p \in Path, u \in Unit : <<p, u>> \in rows => p \in paths

\* An update has a unit to list; once it has cleared the path, the committed
\* targets are those it removes.
Updates ==
  \A r \in Requests : request[r].phase \notin {"idle", "create"} =>
    /\ request[r].phase \in {"update", "clear", "insert"} => request[r].units # {}
    /\ request[r].left \cup request[r].added = request[r].units
    /\ request[r].phase # "insert" => request[r].gone = {} /\ request[r].added = {}
    /\ request[r].phase = "insert" =>
         \A u \in Unit : <<request[r].path, u>> \in rows <=> u \in request[r].gone

\* One request at a time holds a path, and the path is there.
PathsAreHeld ==
  /\ \A r \in Requests : HoldsPath(r) => request[r].path \in paths
  /\ \A r, q \in Requests :
       HoldsPath(r) /\ HoldsPath(q) /\ request[r].path = request[q].path => r = q

Outstanding == acceptance.todo \cup acceptance.current

\* A migration adds targets, none of which its proposal deletes, after it has
\* removed those that it deletes.
MigrationsAdd ==
  acceptance.open =>
    /\ \A m, n \in acceptance.current : m = n
    /\ \A m \in Outstanding : /\ m.gone # {} => m.add # {}
                          /\ m.gone \subseteq acceptance.publication.deleted
                          /\ m.add \cap acceptance.publication.deleted = {}

\* What a migration has written is nobody else's.
TargetsAreHeld ==
  acceptance.open =>
    /\ \A p \in Path, u \in Unit :
         /\ <<p, u>> \in acceptance.gone => /\ <<p, u>> \in rows
                                            /\ u \in acceptance.publication.deleted
         /\ <<p, u>> \in acceptance.added => p \in paths /\ <<p, u>> \notin rows
    /\ \A r \in Requests, u \in Unit :
         request[r].phase = "insert" /\ u \in request[r].gone \cup request[r].added =>
           <<request[r].path, u>> \notin acceptance.gone \cup acceptance.added

\* A migration that has written has still to touch the path, or holds it.
MigrationsTouch ==
  acceptance.open =>
    /\ \A r \in Requests : HoldsPath(r) => request[r].path \notin acceptance.touched
    /\ \A p \in Path, u \in Unit : <<p, u>> \in acceptance.gone \cup acceptance.added =>
         p \in acceptance.touched \/ \E m \in Outstanding : m.path = p

\* What the acceptance leaves to a path if it commits now, or owes it.
MigrationsLeaveTargets ==
  acceptance.open =>
    \A p \in paths :
      \/ \E u \in Unit : \/ <<p, u>> \in rows /\ <<p, u>> \notin acceptance.gone
                         \/ <<p, u>> \in acceptance.added
      \/ \E m \in Outstanding : m.path = p /\ m.add # {}

Inv ==
  /\ Typed /\ TargetsBelong /\ EveryPathHasATarget /\ Updates /\ PathsAreHeld
  /\ MigrationsAdd /\ TargetsAreHeld /\ MigrationsTouch /\ MigrationsLeaveTargets

--------------------------------------------------------------------------------
\* The inductive invariant, initially.
LEMMA InitInv == Init => Inv
<1> SUFFICES ASSUME Init PROVE Inv
  OBVIOUS
<1>1. Typed
  <2>1. <<Initial>> \in Seq(Publishable \cup {Initial}) /\ Len(<<Initial>>) = 1
    OBVIOUS
  <2> QED BY <2>1, BoundsAssumption DEF Init, Typed, Closed
<1>2. \A r \in Requests : request[r].phase = "idle"
  BY DEF Init, Idle
<1> QED BY <1>1, <1>2 DEF Init, Inv, TargetsBelong, EveryPathHasATarget, Updates, PathsAreHeld,
             HoldsPath, MigrationsAdd, TargetsAreHeld, MigrationsTouch, MigrationsLeaveTargets,
             Closed

\* The fields of a request that is neither idle nor a creation.
LEMMA Works ==
  ASSUME Typed, NEW r \in Requests, request[r].phase \notin {"idle", "create"}
  PROVE  request[r] \in Work
BY DEF Typed, Idle, Creation

\* The fields of an acceptance that is open.
LEMMA OpenAcceptance ==
  ASSUME Typed, acceptance.open
  PROVE  acceptance \in Opened
BY DEF Typed, Closed

\* The rules of a proposal and its targets.
LEMMA Publications ==
  ASSUME NEW P \in Publishable, NEW x \in P.rules
  PROVE  /\ x.sources \subseteq Unit /\ x.sources # {}
         /\ x.targets \subseteq Unit /\ x.targets # {}
BY PublishableAssumption DEF Publication, Rule

(***************************************************************************)
(* Steps of a request that write nothing others can see: what its locks    *)
(* keep away from a migration is all that can go wrong.                    *)
(***************************************************************************)
RequestInv(now) ==
  /\ now \in Work \cup Creation \cup {Idle}
  /\ now.phase \notin {"idle", "create"} =>
       /\ now.phase \in {"update", "clear", "insert"} => now.units # {}
       /\ now.left \cup now.added = now.units
       /\ now.phase # "insert" => now.gone = {} /\ now.added = {}
       /\ now.phase = "insert" => \A u \in Unit : <<now.path, u>> \in rows <=> u \in now.gone

\* A statement of a request that moves that request only.
LEMMA RequestStep ==
  ASSUME Inv, NEW r \in Requests, NEW now,
         request' = [request EXCEPT ![r] = now], RequestInv(now),
         UNCHANGED <<accepted, paths, rows, acceptance, listed>>,
         now.phase \in {"clear", "insert", "cascade"} =>
           \/ HoldsPath(r) /\ now.path = request[r].path
           \/ /\ now.path \in paths /\ HolderOf(now.path) = {}
              /\ now.path \notin TouchedPaths,
         now.phase = "insert" =>
           \A u \in now.gone \cup now.added : <<now.path, u>> \notin MigratedTargets
  PROVE  Inv'
<1>1. /\ request'[r] = now
      /\ \A q \in Requests \ {r} : request'[q] = request[q]
  BY DEF Inv, Typed
<1>2. Typed'
  BY DEF Inv, Typed, RequestInv
<1>3. TargetsBelong' /\ EveryPathHasATarget' /\ MigrationsAdd' /\ MigrationsLeaveTargets'
  BY DEF Inv, TargetsBelong, Issued, Unissued, EveryPathHasATarget, TargetsOf, MigrationsAdd,
         MigrationsLeaveTargets, Outstanding
<1>4. Updates'
  BY <1>1 DEF Inv, Updates, RequestInv
<1>5. \A q \in Requests \ {r} : HoldsPath(q)' <=> HoldsPath(q)
  BY <1>1 DEF HoldsPath
<1>6. PathsAreHeld'
  <2>1. HoldsPath(r)' => now.path \in paths
    BY <1>1 DEF Inv, PathsAreHeld, HoldsPath
  <2>2. ASSUME NEW q \in Requests \ {r}, HoldsPath(q), HoldsPath(r)'
        PROVE  request[q].path # now.path
    BY <1>1, <2>2 DEF Inv, PathsAreHeld, HoldsPath, HolderOf
  <2> QED BY <1>1, <1>5, <2>1, <2>2 DEF Inv, PathsAreHeld
<1>7. TargetsAreHeld'
  <2>1. acceptance.open /\ now.phase = "insert" =>
          \A u \in now.gone \cup now.added :
            <<now.path, u>> \notin acceptance.gone \cup acceptance.added
    BY DEF MigratedTargets
  <2> QED BY <1>1, <2>1 DEF Inv, TargetsAreHeld
<1>8. MigrationsTouch'
  <2>1. acceptance.open /\ HoldsPath(r)' => now.path \notin acceptance.touched
    BY <1>1 DEF Inv, MigrationsTouch, HoldsPath, TouchedPaths
  <2> QED BY <1>1, <1>5, <2>1 DEF Inv, MigrationsTouch, Outstanding
<1> QED BY <1>2, <1>3, <1>4, <1>6, <1>7, <1>8 DEF Inv

\* The transaction of a request, as Transaction makes it.
LEMMA NewTransaction ==
  ASSUME NEW phase \in {"update", "delete"}, NEW p \in Path, NEW S \in SUBSET Unit,
         phase = "update" => S # {}
  PROVE  /\ RequestInv(Transaction(phase, p, S))
         /\ Transaction(phase, p, S).phase = phase
BY DEF Transaction, RequestInv, Work

\* Requests begin with what they checked of the curriculum.
LEMMA BeginRequestStep ==
  ASSUME Inv, NEW r \in Requests,
         \/ \E S \in SUBSET Unit : ValidateCreation(r, S)
         \/ \E p \in Path, S \in SUBSET Unit : ValidateUpdate(r, p, S)
         \/ \E p \in Path : RequestDeletion(r, p)
  PROVE  Inv'
<1>1. ASSUME NEW S \in SUBSET Unit, ValidateCreation(r, S)
      PROVE  Inv'
  <2> DEFINE now == [phase |-> "create", units |-> S]
  <2>1. request' = [request EXCEPT ![r] = now] /\ S # {}
        /\ UNCHANGED <<accepted, paths, rows, acceptance, listed>>
    BY <1>1 DEF ValidateCreation
  <2>2. now.phase = "create" /\ now \in Creation
    BY <2>1 DEF Creation
  <2> HIDE DEF now
  <2>3. RequestInv(now)
    BY <2>2 DEF RequestInv
  <2> QED BY <2>1, <2>2, <2>3, RequestStep
<1>2. ASSUME NEW p \in Path, NEW S \in SUBSET Unit, ValidateUpdate(r, p, S)
      PROVE  Inv'
  <2> DEFINE now == Transaction("update", p, S)
  <2>1. request' = [request EXCEPT ![r] = now] /\ S # {}
        /\ UNCHANGED <<accepted, paths, rows, acceptance, listed>>
    BY <1>2 DEF ValidateUpdate
  <2>2. RequestInv(now) /\ now.phase = "update"
    BY <2>1, NewTransaction
  <2> HIDE DEF now
  <2> QED BY <2>1, <2>2, RequestStep
<1>3. ASSUME NEW p \in Path, RequestDeletion(r, p)
      PROVE  Inv'
  <2> DEFINE now == Transaction("delete", p, {})
  <2>1. request' = [request EXCEPT ![r] = now]
        /\ UNCHANGED <<accepted, paths, rows, acceptance, listed>>
    BY <1>3 DEF RequestDeletion
  <2>2. RequestInv(now) /\ now.phase = "delete"
    BY NewTransaction
  <2> HIDE DEF now
  <2> QED BY <2>1, <2>2, RequestStep
<1> QED BY <1>1, <1>2, <1>3

\* A request that ends, with or without an answer.
LEMMA EndRequestStep ==
  ASSUME Inv, NEW r \in Requests, request' = [request EXCEPT ![r] = Idle],
         UNCHANGED <<accepted, paths, rows, acceptance, listed>>
  PROVE  Inv'
<1>1. Idle.phase = "idle" /\ RequestInv(Idle)
  BY DEF Idle, RequestInv
<1> QED BY <1>1, RequestStep

\* The locks of an update and of a deletion.
LEMMA LockPathStep ==
  ASSUME Inv, NEW r \in Requests, UpdateLearningPath(r) \/ DeleteLearningPath(r)
  PROVE  Inv'
<1> DEFINE phase == IF request[r].phase = "update" THEN "clear" ELSE "cascade"
           now == [request[r] EXCEPT !.phase = phase]
<1>1. /\ request[r].phase \in {"update", "delete"} /\ CanLock(r)
      /\ UNCHANGED <<accepted, paths, rows, acceptance, listed>>
      /\ request' = [request EXCEPT ![r] = IF request[r].path \in paths THEN now ELSE Idle]
  BY DEF UpdateLearningPath, DeleteLearningPath
<1>2. CASE request[r].path \notin paths
  BY <1>1, <1>2, EndRequestStep
<1>3. CASE request[r].path \in paths
  <2>1. request[r] \in Work
    BY <1>1, Works DEF Inv
  <2>2. /\ now \in Work /\ now.phase = phase /\ now.path = request[r].path
        /\ now.units = request[r].units /\ now.left = request[r].left
        /\ now.added = request[r].added /\ now.gone = request[r].gone
    BY <2>1 DEF Work
  <2> HIDE DEF now
  <2>3. RequestInv(now)
    BY <1>1, <2>2 DEF RequestInv, Inv, Updates
  <2>4. request' = [request EXCEPT ![r] = now]
    BY <1>1, <1>3
  <2>5. HolderOf(now.path) = {} /\ now.path \notin TouchedPaths /\ now.phase # "insert"
    BY <1>1, <2>2 DEF CanLock
  <2> QED BY <1>1, <1>3, <2>2, <2>3, <2>4, <2>5, RequestStep
<1> QED BY <1>2, <1>3

\* The statements of an update.
LEMMA WriteTargetsStep ==
  ASSUME Inv, NEW r \in Requests, ClearUnits(r) \/ \E u \in Unit : InsertUnit(r, u)
  PROVE  Inv'
<1>1. CASE ClearUnits(r)
  <2> DEFINE p == request[r].path
             mine == TargetsOf(rows, p)
             now == [request[r] EXCEPT !.phase = "insert", !.gone = mine]
  <2>1. /\ request[r].phase = "clear" /\ ({p} \X mine) \cap MigratedTargets = {}
        /\ request' = [request EXCEPT ![r] = now]
        /\ UNCHANGED <<accepted, paths, rows, acceptance, listed>>
    BY <1>1 DEF ClearUnits
  <2>2. request[r] \in Work
    BY <2>1, Works DEF Inv
  <2>3. mine \subseteq Unit /\ \A u \in Unit : u \in mine <=> <<p, u>> \in rows
    BY DEF TargetsOf
  <2>4. /\ now \in Work /\ now.phase = "insert" /\ now.path = p /\ now.gone = mine
        /\ now.units = request[r].units /\ now.left = request[r].left
        /\ now.added = request[r].added
    BY <2>2, <2>3 DEF Work
  <2>5. HoldsPath(r) /\ \A u \in mine : <<p, u>> \notin MigratedTargets
    BY <2>1 DEF HoldsPath
  <2> HIDE DEF now, p, mine
  <2>6. RequestInv(now) /\ now.added = {}
    BY <2>1, <2>3, <2>4 DEF RequestInv, Inv, Updates
  <2> QED BY <2>1, <2>4, <2>5, <2>6, RequestStep DEF p
<1>2. ASSUME NEW u \in Unit, InsertUnit(r, u)
      PROVE  Inv'
  <2> DEFINE t == request[r]
             now == [t EXCEPT !.left = t.left \ {u}, !.added = t.added \cup {u}]
  <2>1. /\ t.phase = "insert" /\ u \in t.left /\ <<t.path, u>> \notin MigratedTargets
        /\ request' = [request EXCEPT ![r] = now]
        /\ UNCHANGED <<accepted, paths, rows, acceptance, listed>>
    BY <1>2 DEF InsertUnit, Inv, Typed
  <2>2. t \in Work
    BY <2>1, Works DEF Inv
  <2>3. /\ now \in Work /\ now.phase = "insert" /\ now.path = t.path /\ now.gone = t.gone
        /\ now.units = t.units /\ now.left = t.left \ {u} /\ now.added = t.added \cup {u}
    BY <2>1, <2>2 DEF Work
  <2> HIDE DEF now
  <2>4. RequestInv(now)
    BY <2>1, <2>3 DEF RequestInv, Inv, Updates
  <2>5. HoldsPath(r) /\ \A v \in t.gone \cup t.added : <<t.path, v>> \notin MigratedTargets
    BY <2>1, <2>2 DEF HoldsPath, Inv, TargetsAreHeld, MigratedTargets, Work
  <2> QED BY <2>1, <2>3, <2>4, <2>5, RequestStep
<1> QED BY <1>1, <1>2

(***************************************************************************)
(* Commits of requests.                                                    *)
(***************************************************************************)
\* Who has been listed stays listed.
LEMMA IssuedGrows ==
  ASSUME listed \subseteq listed' PROVE Issued \subseteq Issued'
BY DEF Issued, Unissued

\* A new path is inserted with its targets.
LEMMA CreateStep ==
  ASSUME Inv, NEW r \in Requests, NEW p \in Path, CreateLearningPath(r, p)
  PROVE  Inv'
<1> DEFINE S == request[r].units
<1>1. /\ request[r].phase = "create" /\ p \in Unissued
      /\ paths' = paths \cup {p} /\ rows' = rows \cup ({p} \X S)
      /\ listed' = listed \cup ({p} \X S \X {Len(accepted)})
      /\ request' = [request EXCEPT ![r] = Idle] /\ UNCHANGED <<accepted, acceptance>>
  BY DEF CreateLearningPath
<1>2. S \subseteq Unit /\ S # {}
  <2>1. request[r] \in Creation
    BY <1>1 DEF Inv, Typed, Work, Idle
  <2> QED BY <2>1 DEF Creation
<1> HIDE DEF S
<1>3. p \notin paths
  BY <1>1 DEF Inv, TargetsBelong, Issued
<1>4. \A q \in Path, u \in Unit :
        <<q, u>> \in rows' <=> <<q, u>> \in rows \/ (q = p /\ u \in S)
  BY <1>1
<1>5. /\ request'[r].phase = "idle"
      /\ \A q \in Requests \ {r} : request'[q] = request[q]
  BY <1>1 DEF Inv, Typed, Idle
<1>6. Typed'
  <2>1. rows' \subseteq Pairs /\ paths' \subseteq Path
    BY <1>1, <1>2 DEF Inv, Typed, Pairs
  <2>2. request' \in [Requests -> Work \cup Creation \cup {Idle}]
    BY <1>1 DEF Inv, Typed
  <2> QED BY <1>1, <2>1, <2>2 DEF Inv, Typed
<1>7. TargetsBelong'
  <2>1. p \in Issued'
    <3>1. PICK u \in S : TRUE
      BY <1>2
    <3>2. <<p, u, Len(accepted)>> \in listed' /\ <<p, u, Len(accepted)>>[1] = p
      BY <1>1, <3>1
    <3> QED BY <3>2 DEF Issued, Unissued
  <2>2. Issued \subseteq Issued'
    BY <1>1, IssuedGrows
  <2> QED BY <1>1, <1>4, <2>1, <2>2 DEF Inv, TargetsBelong
<1>8. EveryPathHasATarget'
  BY <1>1, <1>2, <1>4 DEF Inv, Typed, EveryPathHasATarget, TargetsOf
<1>9. Updates'
  <2>1. ASSUME NEW q \in Requests \ {r}, request[q].phase = "insert", NEW u \in Unit
        PROVE  <<request[q].path, u>> \in rows' <=> <<request[q].path, u>> \in rows
    <3>1. request[q].path \in paths /\ request[q].path \in Path
      BY <2>1 DEF Inv, PathsAreHeld, HoldsPath, Typed
    <3> QED BY <1>3, <1>4, <3>1
  <2> QED BY <1>5, <2>1 DEF Inv, Updates
<1>10. \A q \in Requests : HoldsPath(q)' => q # r /\ HoldsPath(q) /\ request'[q] = request[q]
  BY <1>5 DEF HoldsPath
<1>11. PathsAreHeld'
  BY <1>1, <1>10 DEF Inv, PathsAreHeld
<1>12. MigrationsAdd'
  BY <1>1 DEF Inv, MigrationsAdd, Outstanding
<1>13. TargetsAreHeld'
  BY <1>1, <1>3, <1>4, <1>5 DEF Inv, TargetsAreHeld
<1>14. MigrationsTouch'
  BY <1>1, <1>10 DEF Inv, MigrationsTouch, Outstanding
<1>15. MigrationsLeaveTargets'
  <2>1. acceptance.open => \E u \in Unit : <<p, u>> \in rows' /\ <<p, u>> \notin acceptance.gone
    BY <1>2, <1>3, <1>4 DEF Inv, TargetsAreHeld, TargetsBelong
  <2>2. \A q \in paths, u \in Unit : <<q, u>> \in rows => <<q, u>> \in rows'
    BY <1>1
  <2> QED BY <1>1, <2>1, <2>2 DEF Inv, MigrationsLeaveTargets, Outstanding
<1> QED BY <1>6, <1>7, <1>8, <1>9, <1>11, <1>12, <1>13, <1>14, <1>15 DEF Inv

\* The commit of an update, as far as the path is concerned.
LEMMA UpdatedTargets ==
  ASSUME Inv, NEW r \in Requests, CommitUpdate(r)
  PROVE  /\ request[r] \in Work /\ request[r].path \in paths
         /\ request[r].units # {} /\ request[r].added = request[r].units
         /\ \A p \in Path, u \in Unit :
              <<p, u>> \in rows' <=> IF p = request[r].path THEN u \in request[r].added
                                                          ELSE <<p, u>> \in rows
<1> DEFINE t == request[r]
<1>1. /\ t.phase = "insert" /\ t.left = {}
      /\ rows' = (rows \ ({t.path} \X t.gone)) \cup ({t.path} \X t.added)
  BY DEF CommitUpdate
<1>2. t \in Work
  BY <1>1, Works DEF Inv
<1>3. t.units # {} /\ t.added = t.units /\ t.path \in paths
  BY <1>1 DEF Inv, Updates, PathsAreHeld, HoldsPath
<1>4. \A u \in Unit : <<t.path, u>> \in rows => u \in t.gone
  BY <1>1 DEF Inv, Updates
<1> HIDE DEF t
<1>5. \A p \in Path, u \in Unit :
        <<p, u>> \in rows' <=>
          \/ <<p, u>> \in rows /\ ~(p = t.path /\ u \in t.gone)
          \/ p = t.path /\ u \in t.added
  BY <1>1
<1> QED BY <1>2, <1>3, <1>4, <1>5 DEF t

\* An update commits the list it was given.
LEMMA CommitUpdateStep ==
  ASSUME Inv, NEW r \in Requests, CommitUpdate(r)
  PROVE  Inv'
<1> DEFINE t == request[r]
           S == t.added
<1>1. /\ t.phase = "insert" /\ listed \subseteq listed'
      /\ request' = [request EXCEPT ![r] = Idle] /\ UNCHANGED <<accepted, paths>>
      /\ acceptance' = IF acceptance.open
                        THEN [acceptance EXCEPT !.seen = {x \in acceptance.seen : x[1] # t.path}]
                        ELSE Closed
  BY DEF CommitUpdate, Raced
<1>2. /\ t \in Work /\ t.path \in paths /\ S # {} /\ S \subseteq Unit /\ t.path \in Path
      /\ \A p \in Path, u \in Unit :
           <<p, u>> \in rows' <=> IF p = t.path THEN u \in S ELSE <<p, u>> \in rows
  BY UpdatedTargets DEF Work
<1>3. rows' \subseteq Pairs
  BY <1>2 DEF CommitUpdate, Inv, Typed, Pairs
<1> HIDE DEF S
<1>4. /\ request'[r].phase = "idle"
      /\ \A q \in Requests \ {r} : request'[q] = request[q]
  BY <1>1 DEF Inv, Typed, Idle
<1>5. /\ acceptance' \in Opened \cup {Closed} /\ acceptance'.open = acceptance.open
      /\ acceptance.open => /\ acceptance'.publication = acceptance.publication
                            /\ acceptance'.todo = acceptance.todo
                            /\ acceptance'.current = acceptance.current
                            /\ acceptance'.gone = acceptance.gone
                            /\ acceptance'.added = acceptance.added
                            /\ acceptance'.touched = acceptance.touched
  <2>1. CASE acceptance.open
    <3>1. acceptance \in Opened
      BY <2>1, OpenAcceptance DEF Inv
    <3>2. {x \in acceptance.seen : x[1] # t.path} \in SUBSET Pairs
      BY <3>1 DEF Opened
    <3> QED BY <1>1, <2>1, <3>1, <3>2 DEF Opened
  <2>2. CASE ~acceptance.open
    <3>1. acceptance = Closed
      BY <2>2 DEF Inv, Typed, Opened
    <3> QED BY <1>1, <2>2, <3>1
  <2> QED BY <2>1, <2>2
<1>6. Typed'
  <2>1. request' \in [Requests -> Work \cup Creation \cup {Idle}]
    BY <1>1 DEF Inv, Typed
  <2> QED BY <1>1, <1>3, <1>5, <2>1 DEF Inv, Typed
<1>7. TargetsBelong'
  BY <1>1, <1>2, IssuedGrows DEF Inv, TargetsBelong
<1>8. EveryPathHasATarget'
  BY <1>1, <1>2 DEF Inv, Typed, EveryPathHasATarget, TargetsOf
<1>9. HoldsPath(r)
  BY <1>1 DEF HoldsPath
<1>10. \A q \in Requests \ {r} : HoldsPath(q) => request[q].path # t.path
  BY <1>9 DEF Inv, PathsAreHeld
<1>11. \A q \in Requests : HoldsPath(q)' => q # r /\ HoldsPath(q) /\ request'[q] = request[q]
  BY <1>4 DEF HoldsPath
<1>12. Updates'
  <2>1. ASSUME NEW q \in Requests \ {r}, request[q].phase = "insert", NEW u \in Unit
        PROVE  <<request[q].path, u>> \in rows' <=> <<request[q].path, u>> \in rows
    <3>1. HoldsPath(q) /\ request[q].path \in Path
      BY <2>1, Works DEF HoldsPath, Inv, Work
    <3> QED BY <1>2, <1>10, <3>1
  <2> QED BY <1>4, <2>1 DEF Inv, Updates
<1>13. PathsAreHeld'
  BY <1>1, <1>11 DEF Inv, PathsAreHeld
<1>14. MigrationsAdd'
  BY <1>5 DEF Inv, MigrationsAdd, Outstanding
<1>15. TargetsAreHeld'
  <2>1. \A u \in Unit : <<t.path, u>> \in rows => u \in t.gone
    BY <1>1 DEF Inv, Updates
  <2>2. acceptance.open => \A u \in t.gone \cup S :
          <<t.path, u>> \notin acceptance.gone \cup acceptance.added
    BY <1>1, <1>2 DEF Inv, TargetsAreHeld, Work, S
  <2>3. acceptance.open => \A p \in Path, u \in Unit :
          <<p, u>> \in acceptance.gone \cup acceptance.added => p # t.path \/ u \notin S
    BY <2>2
  <2>4. acceptance.open => \A p \in Path, u \in Unit :
          <<p, u>> \in acceptance.gone => p # t.path
    BY <2>1, <2>2 DEF Inv, TargetsAreHeld
  <2> HIDE DEF t
  <2> QED BY <1>1, <1>2, <1>4, <1>5, <2>3, <2>4 DEF Inv, TargetsAreHeld
<1>16. MigrationsTouch'
  BY <1>5, <1>11 DEF Inv, MigrationsTouch, Outstanding
<1>17. MigrationsLeaveTargets'
  <2>1. acceptance.open => \E u \in Unit : <<t.path, u>> \in rows' /\ <<t.path, u>> \notin acceptance.gone
    BY <1>1, <1>2 DEF Inv, TargetsAreHeld, S
  <2>2. \A p \in paths : p \in Path
    BY DEF Inv, Typed
  <2> HIDE DEF t
  <2> QED BY <1>1, <1>2, <1>5, <2>1, <2>2 DEF Inv, MigrationsLeaveTargets, Outstanding
<1> QED BY <1>6, <1>7, <1>8, <1>12, <1>13, <1>14, <1>15, <1>16, <1>17 DEF Inv

\* A deleted path takes its targets along.
LEMMA CascadeStep ==
  ASSUME Inv, NEW r \in Requests, CascadeDeletion(r)
  PROVE  Inv'
<1> DEFINE p == request[r].path
<1>1. /\ request[r].phase = "cascade" /\ \A x \in MigratedTargets : x[1] # p
      /\ paths' = paths \ {p} /\ rows' = {x \in rows : x[1] # p}
      /\ request' = [request EXCEPT ![r] = Idle] /\ UNCHANGED <<accepted, acceptance, listed>>
  BY DEF CascadeDeletion
<1>2. request[r] \in Work /\ p \in Path /\ HoldsPath(r)
  BY <1>1, Works DEF Inv, Work, HoldsPath
<1> HIDE DEF p
<1>3. \A q \in Path, u \in Unit : <<q, u>> \in rows' <=> <<q, u>> \in rows /\ q # p
  BY <1>1
<1>4. /\ request'[r].phase = "idle"
      /\ \A q \in Requests \ {r} : request'[q] = request[q]
  BY <1>1 DEF Inv, Typed, Idle
<1>5. Typed'
  <2>1. request' \in [Requests -> Work \cup Creation \cup {Idle}]
    BY <1>1 DEF Inv, Typed
  <2> QED BY <1>1, <2>1 DEF Inv, Typed
<1>6. TargetsBelong'
  BY <1>1, <1>3 DEF Inv, TargetsBelong, Issued, Unissued
<1>7. EveryPathHasATarget'
  BY <1>1, <1>3 DEF Inv, Typed, EveryPathHasATarget, TargetsOf
<1>8. \A q \in Requests \ {r} : HoldsPath(q) => request[q].path # p
  BY <1>2 DEF Inv, PathsAreHeld, p
<1>9. \A q \in Requests : HoldsPath(q)' => q # r /\ HoldsPath(q) /\ request'[q] = request[q]
  BY <1>4 DEF HoldsPath
<1>10. Updates'
  <2>1. ASSUME NEW q \in Requests \ {r}, request[q].phase = "insert", NEW u \in Unit
        PROVE  <<request[q].path, u>> \in rows' <=> <<request[q].path, u>> \in rows
    <3>1. HoldsPath(q) /\ request[q].path \in Path
      BY <2>1, Works DEF HoldsPath, Inv, Work
    <3> QED BY <1>3, <1>8, <3>1
  <2> QED BY <1>4, <2>1 DEF Inv, Updates
<1>11. PathsAreHeld'
  BY <1>1, <1>8, <1>9 DEF Inv, PathsAreHeld
<1>12. MigrationsAdd'
  BY <1>1 DEF Inv, MigrationsAdd, Outstanding
<1>13. acceptance.open => \A q \in Path, u \in Unit :
         <<q, u>> \in acceptance.gone \cup acceptance.added => q # p
  BY <1>1 DEF MigratedTargets
<1>14. TargetsAreHeld'
  BY <1>1, <1>3, <1>4, <1>13 DEF Inv, TargetsAreHeld
<1>15. MigrationsTouch'
  BY <1>1, <1>9 DEF Inv, MigrationsTouch, Outstanding
<1>16. MigrationsLeaveTargets'
  <2>1. \A q \in paths : q \in Path
    BY DEF Inv, Typed
  <2> QED BY <1>1, <1>3, <2>1 DEF Inv, MigrationsLeaveTargets, Outstanding
<1> QED BY <1>5, <1>6, <1>7, <1>10, <1>11, <1>12, <1>14, <1>15, <1>16 DEF Inv

(***************************************************************************)
(* Acceptances.                                                            *)
(***************************************************************************)
\* The transaction ends without its migrations.
LEMMA EndAcceptanceStep ==
  ASSUME Inv, acceptance' = Closed, UNCHANGED <<accepted, paths, rows, request, listed>>
  PROVE  Inv'
BY DEF Inv, Closed, Typed, TargetsBelong, Issued, Unissued, EveryPathHasATarget, TargetsOf, Updates,
       PathsAreHeld, HoldsPath, MigrationsAdd, TargetsAreHeld, MigrationsTouch,
       MigrationsLeaveTargets

\* Nothing of the paths and requests changes while a migration goes on.
LEMMA MigrationStep ==
  ASSUME Inv, UNCHANGED <<accepted, paths, rows, request, listed>>,
         acceptance' \in Opened, acceptance.open \/ Len(accepted) < MaxPublications,
         MigrationsAdd', TargetsAreHeld', MigrationsTouch', MigrationsLeaveTargets'
  PROVE  Inv'
BY DEF Inv, Typed, TargetsBelong, Issued, Unissued, EveryPathHasATarget, TargetsOf, Updates,
       PathsAreHeld, HoldsPath

\* An acceptance plans its migrations with the paths it sees.
LEMMA AcceptStep ==
  ASSUME Inv, NEW P \in Publishable, AcceptCurriculumProposal(P)
  PROVE  Inv'
<1>1. /\ CanFollow(accepted, P) /\ Len(accepted) < MaxPublications
      /\ UNCHANGED <<accepted, paths, rows, request, listed>>
      /\ acceptance' = [open |-> TRUE, publication |-> P, seen |-> rows,
                         todo |-> Plan(P), current |-> {},
                         gone |-> {}, added |-> {}, touched |-> {}]
  BY DEF AcceptCurriculumProposal
<1>2. ASSUME NEW m \in Plan(P)
      PROVE  /\ m \in Migration /\ m.add # {} /\ m.gone \subseteq P.deleted
             /\ m.add \cap P.deleted = {}
  <2> DEFINE active(p) == {x \in P.rules : x.sources \cap TargetsOf(rows, p) # {}}
  <2>1. PICK p \in paths : /\ active(p) # {}
                           /\ m = [path |-> p,
                                   gone |-> TargetsOf(rows, p) \cap P.deleted
                                               \cap UNION {x.sources : x \in P.rules},
                                   add |-> UNION {x.targets : x \in active(p)}]
    BY <1>2 DEF Plan
  <2>2. m.path = p /\ p \in Path /\ m.gone \subseteq Unit /\ m.gone \subseteq P.deleted
    BY <2>1 DEF TargetsOf, Inv, Typed
  <2>3. \A x \in active(p) : x.targets \subseteq Unit /\ x.targets # {} /\ x.targets \cap P.deleted = {}
    BY <1>1, Publications DEF CanFollow
  <2> HIDE DEF active
  <2>4. m.add \subseteq Unit /\ m.add # {} /\ m.add \cap P.deleted = {}
    BY <2>1, <2>3
  <2>5. m \in Migration
    BY <2>1, <2>2, <2>4 DEF Migration
  <2> QED BY <2>2, <2>4, <2>5
<1>3. acceptance' \in Opened
  <2>1. Plan(P) \in SUBSET Migration /\ rows \in SUBSET Pairs
    BY <1>2 DEF Inv, Typed
  <2> QED BY <1>1, <2>1 DEF Opened
<1>4. Outstanding' = Plan(P) /\ acceptance'.publication = P
  BY <1>1 DEF Outstanding
<1>5. MigrationsAdd'
  <2>1. acceptance'.current = {}
    BY <1>1
  <2> QED BY <1>2, <1>4, <2>1 DEF MigrationsAdd
<1>6. TargetsAreHeld' /\ MigrationsTouch'
  BY <1>1 DEF TargetsAreHeld, MigrationsTouch
<1>7. MigrationsLeaveTargets'
  BY <1>1 DEF MigrationsLeaveTargets, Inv, EveryPathHasATarget, TargetsOf
<1> QED BY <1>1, <1>3, <1>5, <1>6, <1>7, MigrationStep

\* The migration m goes on as n.
LEMMA Goes ==
  ASSUME Inv, NEW m \in NextMigrations, NEW now \in SUBSET Migration
  PROVE  LET a == Migrated(m, now) IN
         /\ acceptance.open /\ m \in Outstanding /\ m \in Migration /\ a \in Opened /\ a.current = now
         /\ a.todo \cup a.current = (Outstanding \ {m}) \cup now
         /\ a.publication = acceptance.publication /\ a.seen = acceptance.seen
         /\ a.gone = acceptance.gone /\ a.added = acceptance.added
         /\ a.touched = acceptance.touched
<1>1. acceptance.open /\ acceptance \in Opened
  BY OpenAcceptance DEF NextMigrations, Inv
<1>2. m \in Outstanding /\ m \in Migration
  BY <1>1 DEF NextMigrations, Outstanding, Opened
<1>3. (acceptance.todo \ {m}) \cup now = (Outstanding \ {m}) \cup now
  BY <1>1 DEF NextMigrations, Outstanding, Inv, MigrationsAdd
<1> QED BY <1>1, <1>2, <1>3 DEF Migrated, Opened

\* The statements of a migration, as far as the acceptance is concerned.
LEMMA Removes ==
  ASSUME Inv, NEW m \in NextMigrations, NEW u \in Unit, RemoveSource(m, u)
  PROVE  /\ m \in Migration /\ m \in Outstanding /\ acceptance.open /\ u \in m.gone
         /\ \A r \in Requests : <<m.path, u>> \notin HeldTargets(r)
         /\ UNCHANGED <<accepted, paths, rows, request, listed>>
         /\ acceptance' \in Opened /\ acceptance'.publication = acceptance.publication
         /\ acceptance'.seen = acceptance.seen
         /\ acceptance'.added = acceptance.added /\ acceptance'.touched = acceptance.touched
         /\ \E n \in Migration : /\ n.path = m.path /\ n.gone = m.gone \ {u} /\ n.add = m.add
                                /\ acceptance'.current = {n} /\ Outstanding' = (Outstanding \ {m}) \cup {n}
         /\ \A q \in Path, v \in Unit :
              <<q, v>> \in acceptance'.gone <=>
                <<q, v>> \in acceptance.gone \/ (q = m.path /\ v = u /\ <<m.path, u>> \in rows)
<1> DEFINE n == [m EXCEPT !.gone = @ \ {u}]
           a == Migrated(m, {n})
           p == m.path
           more == {<<p, u>>} \cap rows
<1>1. m \in Migration /\ m \in Outstanding /\ acceptance.open
  BY Goes
<1>2. /\ n \in Migration /\ n.path = p /\ n.gone = m.gone \ {u} /\ n.add = m.add /\ p \in Path
  BY <1>1 DEF Migration
<1>3. /\ u \in m.gone /\ UNCHANGED <<accepted, paths, rows, request, listed>>
      /\ \A r \in Requests : <<p, u>> \notin HeldTargets(r)
      /\ acceptance' = [a EXCEPT !.gone = @ \cup more]
  BY DEF RemoveSource
<1> HIDE DEF n
<1>4. /\ a \in Opened /\ a.current = {n} /\ a.todo \cup a.current = (Outstanding \ {m}) \cup {n}
      /\ a.publication = acceptance.publication /\ a.seen = acceptance.seen
      /\ a.gone = acceptance.gone /\ a.added = acceptance.added
      /\ a.touched = acceptance.touched
  BY <1>2, Goes
<1> HIDE DEF a
<1>5. /\ acceptance' \in Opened /\ acceptance'.current = {n}
      /\ Outstanding' = (Outstanding \ {m}) \cup {n}
      /\ acceptance'.publication = acceptance.publication /\ acceptance'.seen = acceptance.seen
      /\ acceptance'.gone = acceptance.gone \cup more
      /\ acceptance'.added = acceptance.added /\ acceptance'.touched = acceptance.touched
  BY <1>3, <1>4 DEF Opened, Outstanding, Inv, Typed
<1>6. \A q \in Path, v \in Unit :
        <<q, v>> \in acceptance'.gone <=>
          <<q, v>> \in acceptance.gone \/ (q = p /\ v = u /\ <<p, u>> \in rows)
  BY <1>5
<1> HIDE DEF more
<1>7. \E k \in Migration : /\ k.path = m.path /\ k.gone = m.gone \ {u} /\ k.add = m.add
                          /\ acceptance'.current = {k} /\ Outstanding' = (Outstanding \ {m}) \cup {k}
  BY <1>2, <1>5
<1> QED BY <1>1, <1>3, <1>5, <1>6, <1>7

\* The statements of a migration: sources go,
LEMMA RemoveSourceStep ==
  ASSUME Inv, NEW m \in NextMigrations, NEW u \in Unit, RemoveSource(m, u)
  PROVE  Inv'
<1> DEFINE p == m.path
<1>1. m \in Migration /\ m \in Outstanding /\ acceptance.open
  BY Removes
<1>2. PICK n \in Migration :
        /\ n.path = p /\ n.gone = m.gone \ {u} /\ n.add = m.add
        /\ acceptance'.current = {n} /\ Outstanding' = (Outstanding \ {m}) \cup {n}
  BY Removes
<1>3. /\ u \in m.gone /\ UNCHANGED <<accepted, paths, rows, request, listed>>
      /\ \A r \in Requests : <<p, u>> \notin HeldTargets(r)
  BY Removes
<1>5. /\ acceptance' \in Opened
      /\ acceptance'.publication = acceptance.publication
      /\ acceptance'.added = acceptance.added /\ acceptance'.touched = acceptance.touched
  BY Removes
<1>6. \A q \in Path, v \in Unit :
        <<q, v>> \in acceptance'.gone <=>
          <<q, v>> \in acceptance.gone \/ (q = p /\ v = u /\ <<p, u>> \in rows)
  BY Removes
<1> HIDE DEF p
<1>7. MigrationsAdd'
  BY <1>1, <1>2, <1>3, <1>5 DEF Inv, MigrationsAdd
<1>8. u \in acceptance.publication.deleted
  BY <1>1, <1>3 DEF Inv, MigrationsAdd
<1>9. TargetsAreHeld'
  <2>1. \A r \in Requests, v \in Unit :
          request[r].phase = "insert" /\ v \in request[r].gone \cup request[r].added =>
            ~(request[r].path = p /\ v = u) /\ request[r].path \in Path
    BY <1>3, Works DEF HeldTargets, Inv, Work
  <2>2. \A q \in Path, v \in Unit :
         /\ <<q, v>> \in acceptance'.gone => <<q, v>> \in rows /\ v \in acceptance.publication.deleted
         /\ <<q, v>> \in acceptance.added => q \in paths /\ <<q, v>> \notin rows
    BY <1>1, <1>6, <1>8 DEF Inv, TargetsAreHeld
  <2>3. \A r \in Requests, v \in Unit :
         request[r].phase = "insert" /\ v \in request[r].gone \cup request[r].added =>
           <<request[r].path, v>> \notin acceptance'.gone \cup acceptance.added
    BY <1>1, <1>6, <2>1 DEF Inv, TargetsAreHeld
  <2> QED BY <1>3, <1>5, <2>2, <2>3 DEF TargetsAreHeld
<1>10. MigrationsTouch'
  BY <1>1, <1>2, <1>3, <1>5, <1>6 DEF Inv, MigrationsTouch, HoldsPath, p
<1>11. MigrationsLeaveTargets'
  <2>1. n.add # {}
    BY <1>1, <1>2, <1>3 DEF Inv, MigrationsAdd
  <2>2. ASSUME NEW q \in paths
        PROVE  \/ \E v \in Unit : \/ <<q, v>> \in rows /\ <<q, v>> \notin acceptance'.gone
                                 \/ <<q, v>> \in acceptance.added
               \/ \E o \in Outstanding' : o.path = q /\ o.add # {}
    <3>1. CASE q = p
      BY <1>2, <1>5, <2>1, <3>1
    <3>2. CASE q # p
      <4>1. q \in Path
        BY DEF Inv, Typed
      <4> QED BY <1>1, <1>2, <1>5, <1>6, <3>2, <4>1 DEF Inv, MigrationsLeaveTargets, p
    <3> QED BY <3>1, <3>2
  <2> QED BY <1>3, <1>5, <2>2 DEF MigrationsLeaveTargets
<1> QED BY <1>1, <1>3, <1>5, <1>7, <1>9, <1>10, <1>11, MigrationStep

\* targets come (what that writes, and that the invariant goes on),
LEMMA Adds ==
  ASSUME Inv, NEW m \in NextMigrations, NEW u \in Unit, AddTarget(m, u)
  PROVE  /\ m \in Migration /\ m \in Outstanding /\ acceptance.open /\ m.gone = {} /\ u \in m.add
         /\ \A r \in Requests : <<m.path, u>> \notin HeldTargets(r)
         /\ <<m.path, u>> \notin rows => m.path \in paths
         /\ UNCHANGED <<accepted, paths, rows, request, listed>>
         /\ acceptance' \in Opened /\ acceptance'.publication = acceptance.publication
         /\ acceptance'.seen = acceptance.seen
         /\ acceptance'.gone = acceptance.gone /\ acceptance'.touched = acceptance.touched
         /\ \E n \in Migration : /\ n.path = m.path /\ n.gone = m.gone /\ n.add = m.add \ {u}
                                /\ acceptance'.current = {n} /\ Outstanding' = (Outstanding \ {m}) \cup {n}
         /\ \A q \in Path, v \in Unit :
              <<q, v>> \in acceptance'.added <=>
                <<q, v>> \in acceptance.added \/ (q = m.path /\ v = u /\ <<m.path, u>> \notin rows)
<1> DEFINE n == [m EXCEPT !.add = @ \ {u}]
           a == Migrated(m, {n})
           p == m.path
           more == {<<p, u>>} \ rows
<1>1. m \in Migration /\ m \in Outstanding /\ acceptance.open
  BY Goes
<1>2. /\ n \in Migration /\ n.path = p /\ n.gone = m.gone /\ n.add = m.add \ {u} /\ p \in Path
  BY <1>1 DEF Migration
<1>3. /\ m.gone = {} /\ u \in m.add /\ UNCHANGED <<accepted, paths, rows, request, listed>>
      /\ \A r \in Requests : <<p, u>> \notin HeldTargets(r)
      /\ <<p, u>> \notin rows => p \in paths
      /\ acceptance' = IF <<p, u>> \in rows THEN a ELSE [a EXCEPT !.added = @ \cup {<<p, u>>}]
  BY DEF AddTarget
<1> HIDE DEF n
<1>4. /\ a \in Opened /\ a.current = {n} /\ a.todo \cup a.current = (Outstanding \ {m}) \cup {n}
      /\ a.publication = acceptance.publication /\ a.seen = acceptance.seen
      /\ a.gone = acceptance.gone /\ a.added = acceptance.added
      /\ a.touched = acceptance.touched
  BY <1>2, Goes
<1> HIDE DEF a
<1>5. /\ acceptance' \in Opened /\ acceptance'.current = {n}
      /\ Outstanding' = (Outstanding \ {m}) \cup {n}
      /\ acceptance'.publication = acceptance.publication /\ acceptance'.seen = acceptance.seen
      /\ acceptance'.gone = acceptance.gone
      /\ acceptance'.added = acceptance.added \cup more /\ acceptance'.touched = acceptance.touched
  <2>1. CASE <<p, u>> \in rows
    BY <1>3, <1>4, <2>1 DEF Opened, Outstanding
  <2>2. CASE <<p, u>> \notin rows
    <3>1. <<p, u>> \in Pairs
      BY <1>2 DEF Pairs
    <3> QED BY <1>3, <1>4, <2>2, <3>1 DEF Opened, Outstanding
  <2> QED BY <2>1, <2>2
<1>6. \A q \in Path, v \in Unit :
        <<q, v>> \in acceptance'.added <=>
          <<q, v>> \in acceptance.added \/ (q = p /\ v = u /\ <<p, u>> \notin rows)
  BY <1>5
<1> HIDE DEF more
<1>7. \E k \in Migration : /\ k.path = m.path /\ k.gone = m.gone /\ k.add = m.add \ {u}
                          /\ acceptance'.current = {k} /\ Outstanding' = (Outstanding \ {m}) \cup {k}
  BY <1>2, <1>5
<1> QED BY <1>1, <1>3, <1>5, <1>6, <1>7

LEMMA AddTargetStep ==
  ASSUME Inv, NEW m \in NextMigrations, NEW u \in Unit, AddTarget(m, u)
  PROVE  Inv'
<1> DEFINE p == m.path
<1>1. m \in Migration /\ m \in Outstanding /\ acceptance.open
  BY Adds
<1>2. PICK n \in Migration :
        /\ n.path = p /\ n.gone = m.gone /\ n.add = m.add \ {u}
        /\ acceptance'.current = {n} /\ Outstanding' = (Outstanding \ {m}) \cup {n}
  BY Adds
<1>3. /\ m.gone = {} /\ u \in m.add /\ UNCHANGED <<accepted, paths, rows, request, listed>>
      /\ \A r \in Requests : <<p, u>> \notin HeldTargets(r)
      /\ <<p, u>> \notin rows => p \in paths
  BY Adds
<1>5. /\ acceptance' \in Opened
      /\ acceptance'.publication = acceptance.publication
      /\ acceptance'.gone = acceptance.gone /\ acceptance'.touched = acceptance.touched
  BY Adds
<1>6. \A q \in Path, v \in Unit :
        <<q, v>> \in acceptance'.added <=>
          <<q, v>> \in acceptance.added \/ (q = p /\ v = u /\ <<p, u>> \notin rows)
  BY Adds
<1> HIDE DEF p
<1>7. MigrationsAdd'
  BY <1>1, <1>2, <1>3, <1>5 DEF Inv, MigrationsAdd
<1>8. u \notin acceptance.publication.deleted
  BY <1>1, <1>3 DEF Inv, MigrationsAdd
<1>9. TargetsAreHeld'
  <2>1. \A r \in Requests, v \in Unit :
          request[r].phase = "insert" /\ v \in request[r].gone \cup request[r].added =>
            ~(request[r].path = p /\ v = u) /\ request[r].path \in Path
    BY <1>3, Works DEF HeldTargets, Inv, Work
  <2>2. \A q \in Path, v \in Unit :
         /\ <<q, v>> \in acceptance.gone => <<q, v>> \in rows /\ v \in acceptance.publication.deleted
         /\ <<q, v>> \in acceptance'.added => q \in paths /\ <<q, v>> \notin rows
    BY <1>1, <1>3, <1>6 DEF Inv, TargetsAreHeld
  <2>3. \A r \in Requests, v \in Unit :
         request[r].phase = "insert" /\ v \in request[r].gone \cup request[r].added =>
           <<request[r].path, v>> \notin acceptance.gone \cup acceptance'.added
    BY <1>1, <1>6, <2>1 DEF Inv, TargetsAreHeld
  <2> QED BY <1>3, <1>5, <2>2, <2>3 DEF TargetsAreHeld
<1>10. MigrationsTouch'
  BY <1>1, <1>2, <1>3, <1>5, <1>6 DEF Inv, MigrationsTouch, HoldsPath, p
<1>11. MigrationsLeaveTargets'
  <2>1. \/ <<p, u>> \in rows /\ <<p, u>> \notin acceptance.gone
        \/ <<p, u>> \in acceptance'.added
    BY <1>1, <1>2, <1>3, <1>6, <1>8 DEF Inv, TargetsAreHeld, Migration
  <2>2. ASSUME NEW q \in paths
        PROVE  \/ \E v \in Unit : \/ <<q, v>> \in rows /\ <<q, v>> \notin acceptance.gone
                                 \/ <<q, v>> \in acceptance'.added
               \/ \E o \in Outstanding' : o.path = q /\ o.add # {}
    <3>1. CASE q = p
      BY <2>1, <3>1
    <3>2. CASE q # p
      <4>1. q \in Path
        BY DEF Inv, Typed
      <4> QED BY <1>1, <1>2, <1>5, <1>6, <3>2, <4>1 DEF Inv, MigrationsLeaveTargets, p
    <3> QED BY <3>1, <3>2
  <2> QED BY <1>3, <1>5, <2>2 DEF MigrationsLeaveTargets
<1> QED BY <1>1, <1>3, <1>5, <1>7, <1>9, <1>10, <1>11, MigrationStep

\* and the path is touched (likewise).
LEMMA Touches ==
  ASSUME Inv, NEW m \in NextMigrations, TouchPath(m)
  PROVE  /\ acceptance.open /\ m \in Outstanding /\ m.gone = {} /\ m.add = {} /\ HolderOf(m.path) = {}
         /\ UNCHANGED <<accepted, paths, rows, request, listed>>
         /\ acceptance' \in Opened /\ acceptance'.current = {} /\ Outstanding' = Outstanding \ {m}
         /\ acceptance'.publication = acceptance.publication
         /\ acceptance'.seen = acceptance.seen
         /\ acceptance'.gone = acceptance.gone /\ acceptance'.added = acceptance.added
         /\ acceptance'.touched = acceptance.touched \cup ({m.path} \cap paths)
<1> DEFINE a == Migrated(m, {})
           p == m.path
<1>1. /\ m.gone = {} /\ m.add = {} /\ HolderOf(p) = {}
      /\ UNCHANGED <<accepted, paths, rows, request, listed>>
      /\ acceptance' = [a EXCEPT !.touched = @ \cup ({p} \cap paths)]
  BY DEF TouchPath
<1>2. /\ acceptance.open /\ m \in Outstanding /\ a \in Opened /\ a.current = {}
      /\ a.todo \cup a.current = Outstanding \ {m}
      /\ a.publication = acceptance.publication /\ a.seen = acceptance.seen
      /\ a.gone = acceptance.gone /\ a.added = acceptance.added
      /\ a.touched = acceptance.touched
  BY Goes
<1> HIDE DEF a
<1>3. /\ acceptance' \in Opened /\ acceptance'.current = {}
      /\ Outstanding' = Outstanding \ {m}
      /\ acceptance'.publication = acceptance.publication /\ acceptance'.seen = acceptance.seen
      /\ acceptance'.gone = acceptance.gone /\ acceptance'.added = acceptance.added
      /\ acceptance'.touched = acceptance.touched \cup ({p} \cap paths)
  BY <1>1, <1>2 DEF Opened, Outstanding, Inv, Typed
<1> QED BY <1>1, <1>2, <1>3

LEMMA TouchPathStep ==
  ASSUME Inv, NEW m \in NextMigrations, TouchPath(m)
  PROVE  Inv'
<1> DEFINE p == m.path
<1>1. /\ m.gone = {} /\ m.add = {} /\ HolderOf(p) = {}
      /\ UNCHANGED <<accepted, paths, rows, request, listed>>
  BY Touches
<1>2. acceptance.open /\ m \in Outstanding
  BY Touches
<1>3. /\ acceptance' \in Opened /\ acceptance'.current = {}
      /\ Outstanding' = Outstanding \ {m}
      /\ acceptance'.publication = acceptance.publication
      /\ acceptance'.gone = acceptance.gone
      /\ acceptance'.added = acceptance.added
      /\ acceptance'.touched = acceptance.touched \cup ({p} \cap paths)
  BY Touches
<1> HIDE DEF p
<1>4. MigrationsAdd' /\ TargetsAreHeld'
  BY <1>1, <1>2, <1>3 DEF Inv, MigrationsAdd, TargetsAreHeld
<1>5. MigrationsTouch'
  <2>1. \A r \in Requests : HoldsPath(r) => request[r].path \notin acceptance'.touched
    BY <1>1, <1>2, <1>3 DEF Inv, MigrationsTouch, HolderOf
  <2>2. \A q \in Path, v \in Unit :
          <<q, v>> \in acceptance.gone \cup acceptance.added => q \in paths
    BY <1>2 DEF Inv, TargetsAreHeld, TargetsBelong
  <2>3. \A q \in Path, v \in Unit : <<q, v>> \in acceptance.gone \cup acceptance.added =>
          q \in acceptance'.touched \/ \E o \in Outstanding' : o.path = q
    BY <1>2, <1>3, <2>2 DEF Inv, MigrationsTouch, p
  <2> QED BY <1>1, <1>3, <2>1, <2>3 DEF MigrationsTouch, HoldsPath
<1>6. MigrationsLeaveTargets'
  BY <1>1, <1>2, <1>3 DEF Inv, MigrationsLeaveTargets
<1> QED BY <1>1, <1>2, <1>3, <1>4, <1>5, <1>6, MigrationStep

\* The paths that an acceptance has changed are held when it commits, so no
\* update is under way there.
LEMMA CommitAcceptanceStep ==
  ASSUME Inv, CommitAcceptance
  PROVE  Inv'
<1>1. /\ acceptance.open /\ NextMigrations = {}
      /\ accepted' = Append(accepted, acceptance.publication)
      /\ rows' = (rows \ acceptance.gone) \cup acceptance.added
      /\ acceptance' = Closed /\ UNCHANGED <<paths, request, listed>>
  BY DEF CommitAcceptance
<1>2. Outstanding = {} /\ acceptance \in Opened
  BY <1>1, OpenAcceptance DEF NextMigrations, Outstanding, Inv
<1>3. \A p \in Path, u \in Unit :
        <<p, u>> \in rows' <=>
          (<<p, u>> \in rows /\ <<p, u>> \notin acceptance.gone) \/ <<p, u>> \in acceptance.added
  BY <1>1
<1>4. TargetsBelong'
  BY <1>1, <1>3 DEF Inv, TargetsBelong, TargetsAreHeld, Issued, Unissued
<1>5. EveryPathHasATarget'
  BY <1>1, <1>2, <1>3 DEF Inv, Typed, EveryPathHasATarget, TargetsOf, MigrationsLeaveTargets
<1>6. Updates'
  <2>1. ASSUME NEW r \in Requests, request[r].phase = "insert", NEW u \in Unit
        PROVE  <<request[r].path, u>> \in rows' <=> <<request[r].path, u>> \in rows
    <3>1. HoldsPath(r) /\ request[r].path \in Path
      BY <2>1, Works DEF HoldsPath, Inv, Work
    <3>2. <<request[r].path, u>> \notin acceptance.gone \cup acceptance.added
      BY <1>1, <1>2, <3>1 DEF Inv, MigrationsTouch
    <3> QED BY <1>3, <3>1, <3>2
  <2> QED BY <1>1, <2>1 DEF Inv, Updates
<1>7. PathsAreHeld'
  BY <1>1 DEF Inv, PathsAreHeld, HoldsPath
<1>8. MigrationsAdd' /\ TargetsAreHeld' /\ MigrationsTouch' /\ MigrationsLeaveTargets'
  BY <1>1 DEF MigrationsAdd, TargetsAreHeld, MigrationsTouch, MigrationsLeaveTargets, Closed
<1>9. Typed'
  <2>1. /\ accepted \in Seq(Publishable \cup {Initial}) /\ acceptance.publication \in Publishable
        /\ Len(accepted) < MaxPublications
    BY <1>1, <1>2 DEF Inv, Typed, Opened
  <2>2. accepted' \in Seq(Publishable \cup {Initial}) /\ Len(accepted') = Len(accepted) + 1
    BY <1>1, <2>1
  <2>3. Len(accepted') <= MaxPublications
    BY <2>1, <2>2, BoundsAssumption
  <2>4. rows' \subseteq Pairs
    BY <1>1, <1>2 DEF Inv, Typed, Opened
  <2> QED BY <1>1, <2>2, <2>3, <2>4 DEF Inv, Typed, Closed
<1> QED BY <1>4, <1>5, <1>6, <1>7, <1>8, <1>9 DEF Inv

--------------------------------------------------------------------------------
\* Hence every step.
LEMMA StepInv == Inv /\ [Next]_vars => Inv'
<1> SUFFICES ASSUME Inv, [Next]_vars PROVE Inv'
  OBVIOUS
<1>1. CASE UNCHANGED vars
  <2>1. UNCHANGED <<accepted, paths, rows, acceptance, request, listed>>
    BY <1>1 DEF vars
  <2>2. Typed' /\ TargetsBelong' /\ EveryPathHasATarget'
    BY <2>1 DEF Inv, Typed, TargetsBelong, Issued, Unissued, EveryPathHasATarget, TargetsOf
  <2>3. Updates' /\ PathsAreHeld' /\ MigrationsAdd' /\ TargetsAreHeld'
    BY <2>1 DEF Inv, Updates, PathsAreHeld, HoldsPath, MigrationsAdd, Outstanding, TargetsAreHeld
  <2>4. MigrationsTouch' /\ MigrationsLeaveTargets'
    BY <2>1 DEF Inv, MigrationsTouch, HoldsPath, Outstanding, MigrationsLeaveTargets
  <2> QED BY <2>2, <2>3, <2>4 DEF Inv
<1>2. ASSUME NEW P \in Publishable, AcceptCurriculumProposal(P)
      PROVE  Inv'
  BY <1>2, AcceptStep
<1>3. CASE Migrate
  <2>1. ASSUME NEW m \in NextMigrations, AddToMissingPath(m)
        PROVE  Inv'
    BY <2>1, EndAcceptanceStep DEF AddToMissingPath
  <2> QED BY <1>3, <2>1, RemoveSourceStep, AddTargetStep, TouchPathStep DEF Migrate
<1>4. CASE CommitAcceptance
  BY <1>4, CommitAcceptanceStep
<1>5. ASSUME NEW r \in Requests,
             \/ \E S \in SUBSET Unit : ValidateCreation(r, S)
             \/ \E p \in Path, S \in SUBSET Unit : ValidateUpdate(r, p, S)
             \/ \E p \in Path : RequestDeletion(r, p)
      PROVE  Inv'
  BY <1>5, BeginRequestStep
<1>6. ASSUME NEW r \in Requests, Step(r)
      PROVE  Inv'
  BY <1>6, CreateStep, LockPathStep, WriteTargetsStep, CommitUpdateStep, CascadeStep DEF Step
<1>7. CASE BreakDeadlock \/ Fail
  <2>1. PICK r : \/ r \in Requests /\ Rollback(r)
                \/ RollbackAcceptance
    BY <1>7 DEF BreakDeadlock, Fail
  <2>2. UNCHANGED <<accepted, paths, rows, listed>>
    BY <1>7 DEF BreakDeadlock, Fail
  <2> QED BY <2>1, <2>2, EndRequestStep, EndAcceptanceStep DEF Rollback, RollbackAcceptance
<1> QED BY <1>1, <1>2, <1>3, <1>4, <1>5, <1>6, <1>7 DEF Next

\* The inductive invariant holds.
THEOREM Invariant == Spec => []Inv
BY InitInv, StepInv, PTL DEF Spec

\* The tables hold paths and targets that exist, and a transaction writes what
\* it said it would.
THEOREM TypeCorrect == Spec => []TypeOK
<1>1. Inv => TypeOK
  <2> SUFFICES ASSUME Inv PROVE TypeOK
    OBVIOUS
  <2>1. rows \subseteq paths \X Unit
    BY DEF Inv, Typed, TargetsBelong, Pairs
  <2>2. ASSUME acceptance # Closed
        PROVE  /\ acceptance.open /\ acceptance.publication \in Publishable
               /\ acceptance.current \subseteq Migration /\ acceptance.todo \subseteq Migration
               /\ acceptance.gone \subseteq rows /\ acceptance.seen \subseteq Path \X Unit
               /\ acceptance.added \subseteq (Path \X Unit) \ rows
               /\ acceptance.touched \subseteq Path
    <3>1. acceptance \in Opened /\ acceptance.open
      BY <2>2 DEF Inv, Typed, Opened
    <3>2. acceptance.gone \subseteq rows /\ acceptance.added \subseteq (Path \X Unit) \ rows
      BY <3>1 DEF Inv, TargetsAreHeld, Opened, Pairs
    <3> QED BY <3>1, <3>2 DEF Opened, Pairs
  <2>3. ASSUME NEW r \in Requests, request[r] # Idle, request[r].phase # "create"
        PROVE  /\ request[r].phase \in {"update", "clear", "insert", "delete", "cascade"}
               /\ request[r].path \in Path /\ request[r].left \subseteq request[r].units
               /\ ({request[r].path} \X request[r].gone) \subseteq rows
               /\ request[r].added \subseteq request[r].units
    <3>1. request[r] \in Work
      BY <2>3 DEF Inv, Typed, Creation
    <3>2. /\ request[r].left \cup request[r].added = request[r].units
          /\ request[r].phase # "insert" => request[r].gone = {}
          /\ request[r].phase = "insert" =>
               \A u \in Unit : <<request[r].path, u>> \in rows <=> u \in request[r].gone
      BY <3>1 DEF Inv, Updates, Work
    <3>3. ({request[r].path} \X request[r].gone) \subseteq rows
      BY <3>1, <3>2 DEF Work
    <3> QED BY <3>1, <3>2, <3>3 DEF Work
  <2>4. \A r \in Requests : request[r] # Idle /\ request[r].phase = "create" =>
          request[r].units \in (SUBSET Unit) \ {{}}
    BY DEF Inv, Typed, Creation, Work
  <2> QED BY <2>1, <2>2, <2>3, <2>4 DEF Inv, Typed, TypeOK
<1> QED BY <1>1, Invariant, PTL

\* The property of the run: no path is left without a target (updates replace
\* all of them, migrations remove sources, and both are open at once).
THEOREM PathsHaveTargets == Spec => []EveryPathHasATarget
BY Invariant, PTL DEF Inv

\* An update that commits leaves the path with its list, whatever is open.
THEOREM UpdatesStoreTheirLists == Spec => UpdateStoresItsList
<1>1. Inv /\ [Next]_vars =>
        [\A r \in Requests : CommitUpdate(r) =>
           TargetsOf(rows', request[r].path) = request[r].units]_vars
  <2> SUFFICES ASSUME Inv, NEW r \in Requests, CommitUpdate(r)
               PROVE  TargetsOf(rows', request[r].path) = request[r].units
    OBVIOUS
  <2>1. /\ request[r] \in Work /\ request[r].added = request[r].units
        /\ \A p \in Path, u \in Unit :
             <<p, u>> \in rows' <=> IF p = request[r].path THEN u \in request[r].added
                                                         ELSE <<p, u>> \in rows
    BY UpdatedTargets
  <2> QED BY <2>1 DEF TargetsOf, Work
<1> QED BY <1>1, Invariant, PTL DEF Spec, UpdateStoresItsList

--------------------------------------------------------------------------------
(***************************************************************************)
(* What a migration owes a path that nobody has raced.                     *)
(***************************************************************************)
Old(p) == TargetsOf(acceptance.seen, p)
Active(p) == {x \in acceptance.publication.rules : x.sources \cap Old(p) # {}}
Leaving(p) == Old(p) \cap acceptance.publication.deleted \cap UNION {x.sources : x \in Active(p)}
Coming(p) == UNION {x.targets : x \in Active(p)}

\* What leaves has been removed or is still to be, and so for what comes.
Owed(p) ==
  \A u \in Unit :
    /\ <<p, u>> \in rows <=> u \in Old(p)
    /\ u \in Leaving(p) <=> \/ <<p, u>> \in acceptance.gone
                            \/ \E m \in Outstanding : m.path = p /\ u \in m.gone
    /\ \/ <<p, u>> \in acceptance.added
       \/ \E m \in Outstanding : m.path = p /\ u \in m.add
       => u \in Coming(p)
    /\ u \in Coming(p) => \/ u \in Old(p) \/ <<p, u>> \in acceptance.added
                           \/ \E m \in Outstanding : m.path = p /\ u \in m.add

MigrationsFollow ==
  acceptance.open =>
    /\ \A p \in Path, u \in Unit : <<p, u>> \in acceptance.seen => p \in Issued
    /\ \A x \in acceptance.publication.rules :
          x.targets \cap acceptance.publication.deleted = {}
    /\ \A p \in paths : Old(p) # {} => Owed(p)

\* What a path is owed depends on the targets the acceptance has read of it.
LEMMA OwedAlike ==
  ASSUME NEW p, acceptance'.publication = acceptance.publication, Old(p)' = Old(p)
  PROVE  Active(p)' = Active(p) /\ Leaving(p)' = Leaving(p) /\ Coming(p)' = Coming(p)
BY DEF Active, Leaving, Coming

\* Steps of others: the paths that the acceptance has read and nobody has
\* updated since keep their targets.
LEMMA OthersStep ==
  ASSUME MigrationsFollow, acceptance.open, listed \subseteq listed',
         acceptance'.publication = acceptance.publication, Outstanding' = Outstanding,
         acceptance'.gone = acceptance.gone, acceptance'.added = acceptance.added,
         acceptance'.seen \subseteq acceptance.seen,
         \A p \in paths' : Old(p)' # {} =>
            /\ p \in paths /\ Old(p)' = Old(p)
            /\ \A u \in Unit : <<p, u>> \in rows' <=> <<p, u>> \in rows
  PROVE  MigrationsFollow'
<1>1. \A p \in Path, u \in Unit : <<p, u>> \in acceptance'.seen => p \in Issued'
  BY IssuedGrows DEF MigrationsFollow
<1>2. ASSUME NEW p \in paths', Old(p)' # {}
      PROVE  Owed(p)'
  <2>1. /\ Owed(p) /\ Old(p)' = Old(p)
        /\ \A u \in Unit : <<p, u>> \in rows' <=> <<p, u>> \in rows
    BY <1>2 DEF MigrationsFollow
  <2>2. Leaving(p)' = Leaving(p) /\ Coming(p)' = Coming(p)
    BY <2>1, OwedAlike
  <2> QED BY <2>1, <2>2 DEF Owed
<1> QED BY <1>1, <1>2 DEF MigrationsFollow

\* Steps of the acceptance: its statements are about one path at a time.
LEMMA StatementStep ==
  ASSUME MigrationsFollow, acceptance.open, UNCHANGED <<paths, rows, listed>>,
         acceptance'.publication = acceptance.publication,
         acceptance'.seen = acceptance.seen,
         \A p \in paths : Old(p) # {} /\ Owed(p) =>
            \A u \in Unit :
              /\ (<<p, u>> \in acceptance'.gone \/ \E m \in Outstanding' : m.path = p /\ u \in m.gone)
                 <=> \/ <<p, u>> \in acceptance.gone
                     \/ \E m \in Outstanding : m.path = p /\ u \in m.gone
              /\ \/ <<p, u>> \in acceptance'.added
                 \/ \E m \in Outstanding' : m.path = p /\ u \in m.add
                 => \/ <<p, u>> \in acceptance.added
                    \/ \E m \in Outstanding : m.path = p /\ u \in m.add
              /\ \/ <<p, u>> \in acceptance.added
                 \/ \E m \in Outstanding : m.path = p /\ u \in m.add
                 => \/ u \in Old(p) \/ <<p, u>> \in acceptance'.added
                    \/ \E m \in Outstanding' : m.path = p /\ u \in m.add
  PROVE  MigrationsFollow'
<1>1. \A p : Old(p)' = Old(p)
  BY DEF Old, TargetsOf
<1>2. ASSUME NEW p \in paths, Old(p) # {}
      PROVE  Owed(p)'
  <2>1. Owed(p)
    BY <1>2 DEF MigrationsFollow
  <2>2. Leaving(p)' = Leaving(p) /\ Coming(p)' = Coming(p) /\ Old(p)' = Old(p)
    BY <1>1, OwedAlike
  <2> QED BY <1>2, <2>1, <2>2 DEF Owed
<1>3. Issued' = Issued
  BY DEF Issued, Unissued
<1> QED BY <1>1, <1>2, <1>3 DEF MigrationsFollow

\* A plan follows the recognitions of the publication,
LEMMA PlanFollows ==
  ASSUME Inv, NEW P \in Publishable, AcceptCurriculumProposal(P)
  PROVE  MigrationsFollow'
<1> DEFINE active(p) == {x \in P.rules : x.sources \cap TargetsOf(rows, p) # {}}
           plan(p) == [path |-> p, gone |-> TargetsOf(rows, p) \cap P.deleted
                                              \cap UNION {x.sources : x \in P.rules},
                       add |-> UNION {x.targets : x \in active(p)}]
<1>1. /\ CanFollow(accepted, P) /\ UNCHANGED <<accepted, paths, rows, request, listed>>
      /\ acceptance' = [open |-> TRUE, publication |-> P, seen |-> rows,
                         todo |-> Plan(P), current |-> {},
                         gone |-> {}, added |-> {}, touched |-> {}]
  BY DEF AcceptCurriculumProposal
<1>2. /\ acceptance'.publication = P /\ acceptance'.seen = rows /\ Outstanding' = Plan(P)
      /\ acceptance'.gone = {} /\ acceptance'.added = {}
  BY <1>1 DEF Outstanding
<1>3. \A m \in Plan(P) : \E p \in paths : active(p) # {} /\ m = plan(p)
  BY DEF Plan
<1>4. \A p \in paths : active(p) # {} => plan(p) \in Plan(P)
  BY DEF Plan
<1>5. ASSUME NEW p \in paths
      PROVE  Owed(p)'
  <2>1. Old(p)' = TargetsOf(rows, p) /\ Active(p)' = active(p)
    BY <1>2 DEF Old, Active
  <2>2. /\ Leaving(p)' = TargetsOf(rows, p) \cap P.deleted \cap UNION {x.sources : x \in active(p)}
        /\ Coming(p)' = UNION {x.targets : x \in active(p)}
    BY <1>2, <2>1 DEF Leaving, Coming
  <2>3. plan(p).path = p /\ plan(p).gone = Leaving(p)' /\ plan(p).add = Coming(p)'
    BY <2>2
  <2>4. \A m \in Plan(P) : m.path = p => active(p) # {} /\ m = plan(p)
    BY <1>3
  <2>5. active(p) = {} => Leaving(p)' = {} /\ Coming(p)' = {}
    BY <2>2
  <2>6. plan(p) \in Plan(P) \/ active(p) = {}
    BY <1>4
  <2> DEFINE n == plan(p)
  <2>7. n.path = p /\ n.gone = Leaving(p)' /\ n.add = Coming(p)' /\ \A m \in Plan(P) : m.path = p => m = n
    BY <2>3, <2>4
  <2>8. n \in Plan(P) \/ (Leaving(p)' = {} /\ Coming(p)' = {})
    BY <2>5, <2>6
  <2>9. \A u \in Unit : <<p, u>> \in rows <=> u \in Old(p)'
    BY <2>1 DEF TargetsOf
  <2> HIDE DEF n, active, plan
  <2> QED BY <1>1, <1>2, <2>7, <2>8, <2>9 DEF Owed
<1>6. \A x \in P.rules : x.targets \cap P.deleted = {}
  BY <1>1 DEF CanFollow
<1>7. \A p \in Path, u \in Unit : <<p, u>> \in rows => p \in Issued'
  BY <1>1 DEF Inv, TargetsBelong, Issued, Unissued
<1> QED BY <1>1, <1>2, <1>5, <1>6, <1>7 DEF MigrationsFollow

\* the statements of a migration follow the plan,
LEMMA StatementsFollow ==
  ASSUME Inv, MigrationsFollow, NEW m \in NextMigrations,
         \/ \E u \in Unit : RemoveSource(m, u) \/ AddTarget(m, u)
         \/ TouchPath(m)
  PROVE  MigrationsFollow'
<1>1. \A p \in paths : p \in Path
  BY DEF Inv, Typed
<1>2. ASSUME NEW u \in Unit, RemoveSource(m, u)
      PROVE  MigrationsFollow'
  <2>1. /\ m \in Outstanding /\ u \in m.gone /\ acceptance.open
        /\ UNCHANGED <<paths, rows, listed>> /\ acceptance'.publication = acceptance.publication
        /\ acceptance'.seen = acceptance.seen /\ acceptance'.added = acceptance.added
    BY <1>2, Removes
  <2>2. PICK n \in Migration :
          /\ n.path = m.path /\ n.gone = m.gone \ {u} /\ n.add = m.add
          /\ Outstanding' = (Outstanding \ {m}) \cup {n}
    BY <1>2, Removes
  <2>3. \A q \in Path, v \in Unit :
          <<q, v>> \in acceptance'.gone <=>
            <<q, v>> \in acceptance.gone \/ (q = m.path /\ v = u /\ <<m.path, u>> \in rows)
    BY <1>2, Removes
  <2>4. ASSUME NEW p \in paths, Owed(p), p = m.path
        PROVE  <<p, u>> \in rows
    BY <2>1, <2>4 DEF Owed, Leaving
  <2>5. ASSUME NEW p \in paths, Owed(p), NEW v \in Unit
        PROVE  (<<p, v>> \in acceptance'.gone \/ \E o \in Outstanding' : o.path = p /\ v \in o.gone)
                 <=> \/ <<p, v>> \in acceptance.gone
                     \/ \E o \in Outstanding : o.path = p /\ v \in o.gone
    BY <1>1, <2>1, <2>2, <2>3, <2>4, <2>5
  <2>6. ASSUME NEW p, NEW v \in Unit
        PROVE  (\E o \in Outstanding' : o.path = p /\ v \in o.add)
                 <=> \E o \in Outstanding : o.path = p /\ v \in o.add
    BY <2>1, <2>2
  <2> QED BY <2>1, <2>5, <2>6, StatementStep
<1>3. ASSUME NEW u \in Unit, AddTarget(m, u)
      PROVE  MigrationsFollow'
  <2>1. /\ m \in Outstanding /\ u \in m.add /\ acceptance.open
        /\ UNCHANGED <<paths, rows, listed>> /\ acceptance'.publication = acceptance.publication
        /\ acceptance'.seen = acceptance.seen /\ acceptance'.gone = acceptance.gone
    BY <1>3, Adds
  <2>2. PICK n \in Migration :
          /\ n.path = m.path /\ n.gone = m.gone /\ n.add = m.add \ {u}
          /\ Outstanding' = (Outstanding \ {m}) \cup {n}
    BY <1>3, Adds
  <2>3. \A q \in Path, v \in Unit :
          <<q, v>> \in acceptance'.added <=>
            <<q, v>> \in acceptance.added \/ (q = m.path /\ v = u /\ <<m.path, u>> \notin rows)
    BY <1>3, Adds
  <2>4. ASSUME NEW p \in paths, Owed(p), p = m.path, u \notin Old(p)
        PROVE  <<p, u>> \notin rows
    BY <2>4 DEF Owed
  <2>5. ASSUME NEW p, NEW v \in Unit
        PROVE  (\E o \in Outstanding' : o.path = p /\ v \in o.gone)
                 <=> \E o \in Outstanding : o.path = p /\ v \in o.gone
    BY <2>1, <2>2
  <2>6. ASSUME NEW p \in paths, NEW v \in Unit
        PROVE  \/ <<p, v>> \in acceptance'.added
               \/ \E o \in Outstanding' : o.path = p /\ v \in o.add
               => \/ <<p, v>> \in acceptance.added
                  \/ \E o \in Outstanding : o.path = p /\ v \in o.add
    BY <1>1, <2>1, <2>2, <2>3
  <2>7. ASSUME NEW p \in paths, Owed(p), NEW v \in Unit
        PROVE  \/ <<p, v>> \in acceptance.added
               \/ \E o \in Outstanding : o.path = p /\ v \in o.add
               => \/ v \in Old(p) \/ <<p, v>> \in acceptance'.added
                  \/ \E o \in Outstanding' : o.path = p /\ v \in o.add
    BY <1>1, <2>1, <2>2, <2>3, <2>4, <2>7
  <2> QED BY <2>1, <2>5, <2>6, <2>7, StatementStep
<1>4. CASE TouchPath(m)
  <2>1. /\ m.gone = {} /\ m.add = {} /\ acceptance.open /\ Outstanding' = Outstanding \ {m}
        /\ UNCHANGED <<paths, rows, listed>> /\ acceptance'.publication = acceptance.publication
        /\ acceptance'.seen = acceptance.seen /\ acceptance'.gone = acceptance.gone
        /\ acceptance'.added = acceptance.added
    BY <1>4, Touches
  <2>2. ASSUME NEW p, NEW v \in Unit
        PROVE  /\ (\E o \in Outstanding' : o.path = p /\ v \in o.gone)
                     <=> \E o \in Outstanding : o.path = p /\ v \in o.gone
               /\ (\E o \in Outstanding' : o.path = p /\ v \in o.add)
                     <=> \E o \in Outstanding : o.path = p /\ v \in o.add
    BY <2>1
  <2> QED BY <2>1, <2>2, StatementStep
<1> QED BY <1>2, <1>3, <1>4

\* Requests: an update is seen by the history, and a new path by nobody.
LEMMA RequestsFollow ==
  ASSUME Inv, MigrationsFollow, NEW r \in Requests,
         \/ \E p \in Path : CreateLearningPath(r, p)
         \/ CommitUpdate(r)
         \/ CascadeDeletion(r)
  PROVE  MigrationsFollow'
<1>1. CASE ~acceptance.open
  <2>1. ~acceptance'.open
    BY <1>1 DEF CreateLearningPath, CommitUpdate, Raced, CascadeDeletion, Closed
  <2> QED BY <2>1 DEF MigrationsFollow
<1>2. CASE acceptance.open
  <2>1. \A p \in paths : p \in Path
    BY DEF Inv, Typed
  <2>2. ASSUME NEW p \in Path, CreateLearningPath(r, p)
        PROVE  MigrationsFollow'
    <3>1. /\ p \in Unissued /\ paths' = paths \cup {p}
          /\ rows' = rows \cup ({p} \X request[r].units)
          /\ listed \subseteq listed' /\ UNCHANGED acceptance
      BY <2>2 DEF CreateLearningPath
    <3>2. Old(p) = {}
      BY <1>2, <3>1 DEF Old, TargetsOf, MigrationsFollow, Issued
    <3>3. \A q : Old(q)' = Old(q)
      BY <3>1 DEF Old, TargetsOf
    <3> QED BY <1>2, <3>1, <3>2, <3>3, OthersStep DEF Outstanding
  <2>3. CASE CommitUpdate(r)
    <3> DEFINE t == request[r]
    <3>1. /\ listed \subseteq listed' /\ UNCHANGED paths
          /\ acceptance' = [acceptance EXCEPT !.seen = {x \in acceptance.seen : x[1] # t.path}]
      BY <1>2, <2>3 DEF CommitUpdate, Raced
    <3>2. acceptance \in Opened
      BY <1>2, OpenAcceptance DEF Inv
    <3>3. /\ acceptance'.publication = acceptance.publication /\ Outstanding' = Outstanding
          /\ acceptance'.gone = acceptance.gone /\ acceptance'.added = acceptance.added
          /\ acceptance'.seen = {x \in acceptance.seen : x[1] # t.path}
      BY <3>1, <3>2 DEF Opened, Outstanding
    <3>4. \A p \in Path, u \in Unit :
            <<p, u>> \in rows' <=> IF p = t.path THEN u \in t.added ELSE <<p, u>> \in rows
      BY <2>3, UpdatedTargets
    <3> HIDE DEF t
    <3>5. ASSUME NEW p \in paths
          PROVE  Old(p)' = IF p = t.path THEN {} ELSE Old(p)
      BY <3>3 DEF Old, TargetsOf
    <3> QED BY <1>2, <2>1, <3>1, <3>3, <3>4, <3>5, OthersStep
  <2>4. CASE CascadeDeletion(r)
    <3> DEFINE p == request[r].path
    <3>1. /\ paths' = paths \ {p} /\ rows' = {x \in rows : x[1] # p}
          /\ UNCHANGED <<acceptance, listed>>
      BY <2>4 DEF CascadeDeletion
    <3>2. \A q : Old(q)' = Old(q)
      BY <3>1 DEF Old, TargetsOf
    <3> QED BY <1>2, <3>1, <3>2, OthersStep DEF Outstanding
  <2> QED BY <2>2, <2>3, <2>4
<1> QED BY <1>1, <1>2

\* and so does every step.
LEMMA FollowStep == Inv /\ MigrationsFollow /\ [Next]_vars => MigrationsFollow'
<1> SUFFICES ASSUME Inv, MigrationsFollow, [Next]_vars PROVE MigrationsFollow'
  OBVIOUS
<1>1. ASSUME UNCHANGED <<paths, rows, acceptance, listed>>
      PROVE  MigrationsFollow'
  <2>1. CASE acceptance.open
    <3>1. \A p : Old(p)' = Old(p)
      BY <1>1 DEF Old, TargetsOf
    <3> QED BY <1>1, <2>1, <3>1, OthersStep DEF Outstanding
  <2> QED BY <1>1, <2>1 DEF MigrationsFollow
<1>2. ASSUME acceptance' = Closed
      PROVE  MigrationsFollow'
  BY <1>2 DEF MigrationsFollow, Closed
<1>3. CASE UNCHANGED vars
  BY <1>1, <1>3 DEF vars
<1>4. ASSUME NEW P \in Publishable, AcceptCurriculumProposal(P)
      PROVE  MigrationsFollow'
  BY <1>4, PlanFollows
<1>5. CASE Migrate
  BY <1>2, <1>5, StatementsFollow DEF Migrate, AddToMissingPath
<1>6. CASE CommitAcceptance
  BY <1>2, <1>6 DEF CommitAcceptance
<1>7. ASSUME NEW r \in Requests,
             \/ \E S \in SUBSET Unit : ValidateCreation(r, S)
             \/ \E p \in Path, S \in SUBSET Unit : ValidateUpdate(r, p, S)
             \/ \E p \in Path : RequestDeletion(r, p)
      PROVE  MigrationsFollow'
  BY <1>1, <1>7 DEF ValidateCreation, ValidateUpdate, RequestDeletion
<1>8. ASSUME NEW r \in Requests, Step(r)
      PROVE  MigrationsFollow'
  <2>1. ASSUME \/ UpdateLearningPath(r) \/ ClearUnits(r) \/ DeleteLearningPath(r)
               \/ \E u \in Unit : InsertUnit(r, u)
        PROVE  UNCHANGED <<paths, rows, acceptance, listed>>
    BY <2>1 DEF UpdateLearningPath, ClearUnits, DeleteLearningPath, InsertUnit
  <2> QED BY <1>1, <1>8, <2>1, RequestsFollow DEF Step
<1>9. CASE BreakDeadlock \/ Fail
  BY <1>1, <1>2, <1>9 DEF BreakDeadlock, Fail, Rollback, RollbackAcceptance
<1> QED BY <1>3, <1>4, <1>5, <1>6, <1>7, <1>8, <1>9 DEF Next

\* The property of the run: a migration that nobody raced adds the targets of
\* every recognition that has a source in the path and removes exactly the
\* deleted sources, row by row and whatever other requests do meanwhile.
THEOREM MigrationsExact == Spec => MigrationIsExact
<1>1. Init => MigrationsFollow
  BY DEF Init, MigrationsFollow, Closed
<1>2. Inv /\ MigrationsFollow /\ [Next]_vars =>
        [CommitAcceptance =>
           LET P == acceptance.publication
           IN \A p \in paths :
                 LET old == TargetsOf(acceptance.seen, p)
                     active == {x \in P.rules : x.sources \cap old # {}}
                 IN old # {}
                    => TargetsOf(rows', p) =
                          (old \ (P.deleted \cap UNION {x.sources : x \in active}))
                             \cup UNION {x.targets : x \in active}]_vars
  <2> SUFFICES ASSUME Inv, MigrationsFollow, CommitAcceptance, NEW p \in paths, Old(p) # {}
               PROVE  TargetsOf(rows', p) =
                        (Old(p) \ (acceptance.publication.deleted
                                       \cap UNION {x.sources : x \in Active(p)})) \cup Coming(p)
    BY DEF Old, Active, Coming
  <2>1. /\ acceptance.open /\ rows' = (rows \ acceptance.gone) \cup acceptance.added
        /\ Outstanding = {}
    BY DEF CommitAcceptance, NextMigrations, Outstanding
  <2>2. Owed(p) /\ \A x \in acceptance.publication.rules :
                      x.targets \cap acceptance.publication.deleted = {}
    BY <2>1 DEF MigrationsFollow
  <2>3. acceptance.publication \in Publishable
    BY <2>1, OpenAcceptance DEF Inv, Opened
  <2>4. Coming(p) \subseteq Unit
    BY <2>3, Publications DEF Coming, Active
  <2>5. Coming(p) \cap acceptance.publication.deleted = {}
    BY <2>2 DEF Coming, Active
  <2>6. Leaving(p) \subseteq acceptance.publication.deleted
    BY DEF Leaving
  <2>7. ASSUME NEW u \in Unit
        PROVE  <<p, u>> \in rows' <=> (u \in Old(p) /\ u \notin Leaving(p)) \/ u \in Coming(p)
    BY <2>1, <2>2, <2>5, <2>6 DEF Owed
  <2>8. Old(p) \subseteq Unit
    BY DEF Old, TargetsOf
  <2>9. TargetsOf(rows', p) = (Old(p) \ Leaving(p)) \cup Coming(p)
    BY <2>4, <2>7, <2>8 DEF TargetsOf
  <2> QED BY <2>9 DEF Leaving
<1> QED BY <1>1, <1>2, Invariant, FollowStep, PTL DEF Spec, MigrationIsExact

--------------------------------------------------------------------------------
(***************************************************************************)
(* Targets are wanted.  Recognized is computed one publication at a time;  *)
(* of that computation the proof needs that it grows with what is listed   *)
(* and that a publication adds what its recognitions make of the targets   *)
(* before it.                                                              *)
(***************************************************************************)
LEMMA SetInduction ==
  ASSUME NEW S, 0 \in S, \A n \in Nat : n \in S => n + 1 \in S
  PROVE  Nat \subseteq S
<1> DEFINE T == Nat \ S
<1> SUFFICES ASSUME T # {} PROVE FALSE
  OBVIOUS
<1>1. \E m \in T : \A n \in T : ~ (<<n, m>> \in OpToRel(<, Nat))
  <2>1. T \subseteq Nat
    OBVIOUS
  <2> HIDE DEF T
  <2> QED BY <2>1, WFMin, NatLessThanWellFounded, Zenon
<1>2. PICK m \in T : \A n \in T : ~ (n < m)
  BY <1>1, Zenon DEF OpToRel
<1>3. m # 0 /\ m - 1 \in Nat /\ (m - 1) + 1 = m
  BY <1>2
<1> QED BY <1>2, <1>3

\* What a publication makes of the targets S.
Grown(S, rules) == S \cup UNION {x.targets : x \in {y \in rules : y.sources \cap S # {}}}

Before(f, L, p, k) ==
  IF k = 1 THEN {} ELSE f[k - 1] \cup {x[2] : x \in {y \in L : y[1] = p /\ y[3] < k}}

\* The function whose last value Recognized is.
Stages(f, acc, L, p, n) == f = [k \in 1..n |-> Grown(Before(f, L, p, k), acc[k].rules)]

RecognizedUpTo(n, acc, L, p) ==
    LET upTo[k \in 1..n] ==
            LET before == IF k = 1 THEN {}
                          ELSE upTo[k - 1] \cup {x[2] : x \in {y \in L : y[1] = p /\ y[3] < k}}
            IN before \cup UNION {x.targets : x \in {y \in acc[k].rules :
                                                        y.sources \cap before # {}}}
    IN upTo[n]

\* What a path is about, one publication after another.
LEMMA StagesExist ==
  ASSUME NEW acc, NEW L, NEW p
  PROVE  \A n \in Nat : \E f : Stages(f, acc, L, p, n)
<1> DEFINE S == {n \in Nat : \E f : Stages(f, acc, L, p, n)}
<1>1. 0 \in S
  <2> DEFINE f == [k \in 1..0 |-> {}]
  <2>1. \A k \in 1..0 : f[k] = Grown(Before(f, L, p, k), acc[k].rules)
    OBVIOUS
  <2>2. f = [k \in 1..0 |-> f[k]]
    OBVIOUS
  <2>3. Stages(f, acc, L, p, 0)
    <3> HIDE DEF f
    <3> QED BY <2>1, <2>2, Zenon DEF Stages
  <2> QED BY <2>3
<1>2. ASSUME NEW n \in Nat, n \in S PROVE n + 1 \in S
  <2>1. PICK f : Stages(f, acc, L, p, n)
    BY <1>2
  <2> DEFINE last == Grown(Before(f, L, p, n + 1), acc[n + 1].rules)
             g == [k \in 1..(n + 1) |-> IF k = n + 1 THEN last ELSE f[k]]
  <2>2. \A k \in 1..(n + 1) : g[k] = IF k = n + 1 THEN last ELSE f[k]
    OBVIOUS
  <2>3. g = [k \in 1..(n + 1) |-> g[k]]
    OBVIOUS
  <2> HIDE DEF g
  <2>4. \A k \in 1..(n + 1) : Before(g, L, p, k) = Before(f, L, p, k)
    <3> SUFFICES ASSUME NEW k \in 1..(n + 1), k # 1 PROVE g[k - 1] = f[k - 1]
      BY Zenon DEF Before
    <3>1. k - 1 \in 1..(n + 1) /\ k - 1 # n + 1
      OBVIOUS
    <3> QED BY <2>2, <3>1
  <2>5. \A k \in 1..n : f[k] = Grown(Before(f, L, p, k), acc[k].rules)
    BY <2>1, Zenon DEF Stages
  <2>6. ASSUME NEW k \in 1..(n + 1) PROVE g[k] = Grown(Before(g, L, p, k), acc[k].rules)
    <3>1. k \in 1..n \/ k = n + 1
      OBVIOUS
    <3> QED BY <2>2, <2>4, <2>5, <3>1
  <2>7. Stages(g, acc, L, p, n + 1)
    BY <2>3, <2>6, Zenon DEF Stages
  <2> QED BY <2>7
<1>3. Nat \subseteq S
  <2> HIDE DEF S
  <2> QED BY <1>1, <1>2, SetInduction
<1> QED BY <1>3

\* The stages are determined by the publications.
LEMMA RecognizedStages ==
  ASSUME NEW acc, NEW L, NEW p, NEW n \in Nat
  PROVE  \E f : Stages(f, acc, L, p, n) /\ RecognizedUpTo(n, acc, L, p) = f[n]
<1> DEFINE f == CHOOSE f : Stages(f, acc, L, p, n)
<1>1. RecognizedUpTo(n, acc, L, p) = f[n]
  BY Zenon DEF RecognizedUpTo, Stages, Grown, Before
<1>2. Stages(f, acc, L, p, n)
  BY StagesExist, Zenon
<1> QED BY <1>1, <1>2, Zenon

\* Rules add units and are monotonic,
LEMMA GrownGrows ==
  ASSUME NEW S, NEW T, S \subseteq T, NEW rules
  PROVE  S \subseteq Grown(S, rules) /\ Grown(S, rules) \subseteq Grown(T, rules)
BY DEF Grown

\* More listed, and more published, is more recognized.
LEMMA StagesGrow ==
  ASSUME NEW acc, NEW more, NEW L, NEW M, L \subseteq M, NEW p,
         NEW n \in Nat, NEW m \in Nat, n <= m, \A k \in 1..n : more[k] = acc[k],
         NEW f, Stages(f, acc, L, p, n), NEW g, Stages(g, more, M, p, m)
  PROVE  \A k \in 1..n : f[k] \subseteq g[k]
<1> DEFINE S == {k \in Nat : k \in 1..n => f[k] \subseteq g[k]}
<1>1. 0 \in S
  OBVIOUS
<1>2. ASSUME NEW j \in Nat, j \in S PROVE j + 1 \in S
  <2> DEFINE k == j + 1
  <2> SUFFICES ASSUME k \in 1..n PROVE f[k] \subseteq g[k]
    OBVIOUS
  <2>1. /\ k \in 1..m /\ k - 1 = j /\ (k # 1 => f[j] \subseteq g[j])
    BY <1>2
  <2> HIDE DEF k
  <2>2. /\ f[k] = Grown(Before(f, L, p, k), acc[k].rules)
        /\ g[k] = Grown(Before(g, M, p, k), acc[k].rules)
    BY <2>1, Zenon DEF Stages
  <2>3. Before(f, L, p, k) \subseteq Before(g, M, p, k)
    BY <2>1 DEF Before
  <2> QED BY <2>2, <2>3, GrownGrows
<1>3. Nat \subseteq S
  <2> HIDE DEF S
  <2> QED BY <1>1, <1>2, SetInduction
<1> QED BY <1>3

\* and so is what they recognize of longer lists.
LEMMA RecognizedGrows ==
  ASSUME NEW acc, NEW L, NEW M, L \subseteq M, NEW p, NEW n \in Nat \ {0}
  PROVE  RecognizedUpTo(n, acc, L, p) \subseteq RecognizedUpTo(n, acc, M, p)
<1>1. PICK f : Stages(f, acc, L, p, n) /\ RecognizedUpTo(n, acc, L, p) = f[n]
  BY RecognizedStages
<1>2. PICK g : Stages(g, acc, M, p, n) /\ RecognizedUpTo(n, acc, M, p) = g[n]
  BY RecognizedStages
<1>3. f[n] \subseteq g[n]
  <2>1. n \in Nat /\ n <= n /\ n \in 1..n /\ \A k \in 1..n : acc[k] = acc[k]
    OBVIOUS
  <2>2. \A k \in 1..n : f[k] \subseteq g[k]
    BY <1>1, <1>2, <2>1, StagesGrow, Zenon
  <2> QED BY <2>1, <2>2
<1> QED BY <1>1, <1>2, <1>3

\* A further publication adds what its rules make of the units so far.
LEMMA NextRecognized ==
  ASSUME NEW acc, NEW more, NEW L, NEW p, NEW n \in Nat \ {0},
         \A k \in 1..n : more[k] = acc[k]
  PROVE  Grown(RecognizedUpTo(n, acc, L, p) \cup {x[2] : x \in {y \in L : y[1] = p /\ y[3] < n + 1}},
               more[n + 1].rules)
           \subseteq RecognizedUpTo(n + 1, more, L, p)
<1> DEFINE m == n + 1
<1>1. PICK f : Stages(f, acc, L, p, n) /\ RecognizedUpTo(n, acc, L, p) = f[n]
  BY RecognizedStages
<1>2. PICK g : Stages(g, more, L, p, m) /\ RecognizedUpTo(m, more, L, p) = g[m]
  BY RecognizedStages
<1>3. f[n] \subseteq g[n]
  <2>1. m \in Nat /\ n <= m /\ n \in 1..n
    OBVIOUS
  <2> HIDE DEF m
  <2>2. \A k \in 1..n : f[k] \subseteq g[k]
    BY <1>1, <1>2, <2>1, StagesGrow
  <2> QED BY <2>1, <2>2
<1>4. m \in 1..m /\ m # 1 /\ m - 1 = n
  OBVIOUS
<1>5. g[m] = Grown(Before(g, L, p, m), more[m].rules)
  <2> HIDE DEF m
  <2> QED BY <1>2, <1>4, Zenon DEF Stages
<1>6. f[n] \cup {x[2] : x \in {y \in L : y[1] = p /\ y[3] < m}} \subseteq Before(g, L, p, m)
  <2> HIDE DEF m
  <2> QED BY <1>3, <1>4 DEF Before
<1> QED BY <1>1, <1>2, <1>5, <1>6, GrownGrows

--------------------------------------------------------------------------------
ListedOf(p) == {x[2] : x \in {y \in listed : y[1] = p}}
Wanted(p) == Recognized(p) \cup ListedOf(p)

\* A recognition of the open acceptance leads from a wanted target to u.
LeadsTo(p, u) ==
  \E x \in acceptance.publication.rules : u \in x.targets /\ x.sources \cap Wanted(p) # {}

\* What an acceptance has inserted or will insert follows from what was wanted
\* before it.
MigrationsLead ==
  acceptance.open =>
    /\ \A m \in Outstanding, u \in Unit : u \in m.add => LeadsTo(m.path, u)
    /\ \A p \in Path, u \in Unit : <<p, u>> \in acceptance.added => LeadsTo(p, u)

TargetsWanted ==
  /\ Len(accepted) # 0
  /\ listed \subseteq Path \X Unit \X (1..Len(accepted))
  /\ \A p \in Path, u \in Unit : <<p, u>> \in rows => u \in Wanted(p)
  /\ MigrationsLead

\* The length and the fields of what history is made of.
LEMMA Lengths == ASSUME Typed, TargetsWanted PROVE Len(accepted) \in Nat \ {0}
BY DEF Typed, TargetsWanted

\* Recognized, at the last publication, in this state and the next.
LEMMA RecognizedIsUpTo ==
  ASSUME NEW p PROVE Recognized(p) = RecognizedUpTo(Len(accepted), accepted, listed, p)
BY DEF Recognized, RecognizedUpTo

LEMMA RecognizedIsUpToNext ==
  ASSUME NEW p PROVE Recognized(p)' = RecognizedUpTo(Len(accepted'), accepted', listed', p)
BY DEF Recognized, RecognizedUpTo

\* What was wanted is wanted when more is listed.
LEMMA WantedGrows ==
  ASSUME Typed, TargetsWanted, UNCHANGED accepted, listed \subseteq listed', NEW p
  PROVE  Wanted(p) \subseteq Wanted(p)'
<1> DEFINE n == Len(accepted)
<1>1. n \in Nat \ {0}
  BY Lengths
<1>2. ListedOf(p) \subseteq ListedOf(p)'
  BY DEF ListedOf
<1> DEFINE M == listed'
<1>3. Recognized(p) = RecognizedUpTo(n, accepted, listed, p)
  BY RecognizedIsUpTo
<1>4. Recognized(p)' = RecognizedUpTo(n, accepted, M, p)
  BY RecognizedIsUpToNext
<1>5. listed \subseteq M
  OBVIOUS
<1> HIDE DEF n, M
<1>6. RecognizedUpTo(n, accepted, listed, p) \subseteq RecognizedUpTo(n, accepted, M, p)
  BY <1>1, <1>5, RecognizedGrows
<1> QED BY <1>2, <1>3, <1>4, <1>6 DEF Wanted

\* A step that publishes nothing: targets come from what it lists, and an
\* acceptance goes on with what it has to insert.
LEMMA WantedStep ==
  ASSUME Typed, TargetsWanted, UNCHANGED accepted, listed \subseteq listed',
         listed' \subseteq Path \X Unit \X (1..Len(accepted)),
         \A p \in Path, u \in Unit : <<p, u>> \in rows' => <<p, u>> \in rows \/ u \in ListedOf(p)',
         acceptance'.open =>
           /\ acceptance.open /\ acceptance'.publication = acceptance.publication
           /\ \A m \in Outstanding', u \in Unit :
                u \in m.add => \E o \in Outstanding : o.path = m.path /\ u \in o.add
           /\ \A p \in Path, u \in Unit : <<p, u>> \in acceptance'.added =>
                <<p, u>> \in acceptance.added \/ \E o \in Outstanding : o.path = p /\ u \in o.add
  PROVE  TargetsWanted'
<1>1. \A p : Wanted(p) \subseteq Wanted(p)'
  BY WantedGrows
<1>2. \A p \in Path, u \in Unit : <<p, u>> \in rows' => u \in Wanted(p)'
  BY <1>1 DEF TargetsWanted, Wanted
<1>3. MigrationsLead'
  <2> SUFFICES ASSUME acceptance'.open PROVE MigrationsLead'
    BY DEF MigrationsLead
  <2>1. \A p, u : LeadsTo(p, u) => LeadsTo(p, u)'
    BY <1>1 DEF LeadsTo
  <2>2. /\ \A m \in Outstanding, u \in Unit : u \in m.add => LeadsTo(m.path, u)
        /\ \A p \in Path, u \in Unit : <<p, u>> \in acceptance.added => LeadsTo(p, u)
    BY DEF TargetsWanted, MigrationsLead
  <2>3. \A m \in Outstanding', u \in Unit : u \in m.add => LeadsTo(m.path, u)'
    <3> SUFFICES ASSUME NEW m \in Outstanding', NEW u \in Unit, u \in m.add PROVE LeadsTo(m.path, u)'
      OBVIOUS
    <3>1. PICK o \in Outstanding : o.path = m.path /\ u \in o.add
      OBVIOUS
    <3>2. LeadsTo(o.path, u)
      BY <2>2, <3>1
    <3> QED BY <2>1, <3>1, <3>2
  <2>4. \A p \in Path, u \in Unit : <<p, u>> \in acceptance'.added => LeadsTo(p, u)'
    <3> SUFFICES ASSUME NEW p \in Path, NEW u \in Unit, <<p, u>> \in acceptance'.added
                 PROVE  LeadsTo(p, u)'
      OBVIOUS
    <3>1. CASE <<p, u>> \in acceptance.added
      BY <2>1, <2>2, <3>1
    <3>2. ASSUME NEW o \in Outstanding, o.path = p, u \in o.add PROVE LeadsTo(p, u)'
      BY <2>1, <2>2, <3>2
    <3> QED BY <3>1, <3>2
  <2> QED BY <2>3, <2>4 DEF MigrationsLead
<1> QED BY <1>2, <1>3 DEF TargetsWanted

\* A statement of the acceptance inserts what its plan has, and plans no more.
LEMMA StatementWanted ==
  ASSUME Inv, TargetsWanted, NEW m \in NextMigrations,
         \/ \E u \in Unit : RemoveSource(m, u) \/ AddTarget(m, u)
         \/ TouchPath(m)
  PROVE  TargetsWanted'
<1>1. listed \subseteq Path \X Unit \X (1..Len(accepted))
  BY DEF TargetsWanted
<1>2. ASSUME NEW u \in Unit, RemoveSource(m, u) PROVE TargetsWanted'
  <2>1. PICK n : n.path = m.path /\ n.add = m.add /\ Outstanding' = (Outstanding \ {m}) \cup {n}
    BY <1>2, Removes
  <2>2. /\ m \in Outstanding /\ acceptance.open /\ UNCHANGED <<accepted, rows, listed>>
        /\ acceptance'.publication = acceptance.publication
        /\ acceptance'.added = acceptance.added
    BY <1>2, Removes
  <2>3. \A o \in Outstanding', v \in Unit :
          v \in o.add => \E q \in Outstanding : q.path = o.path /\ v \in q.add
    BY <2>1, <2>2
  <2> QED BY <1>1, <2>2, <2>3, WantedStep DEF Inv
<1>3. ASSUME NEW u \in Unit, AddTarget(m, u) PROVE TargetsWanted'
  <2>1. PICK n : n.path = m.path /\ n.add = m.add \ {u} /\ Outstanding' = (Outstanding \ {m}) \cup {n}
    BY <1>3, Adds
  <2>2. /\ m \in Outstanding /\ acceptance.open /\ UNCHANGED <<accepted, rows, listed>> /\ u \in m.add
        /\ acceptance'.publication = acceptance.publication
    BY <1>3, Adds
  <2>3. \A o \in Outstanding', v \in Unit :
          v \in o.add => \E q \in Outstanding : q.path = o.path /\ v \in q.add
    BY <2>1, <2>2
  <2>4. ASSUME NEW q \in Path, NEW v \in Unit, <<q, v>> \in acceptance'.added
        PROVE  <<q, v>> \in acceptance.added \/ \E o \in Outstanding : o.path = q /\ v \in o.add
    <3>1. <<q, v>> \in acceptance.added \/ (q = m.path /\ v = u)
      <4>1. \A x \in Path, w \in Unit :
              <<x, w>> \in acceptance'.added <=>
                <<x, w>> \in acceptance.added \/ (x = m.path /\ w = u /\ <<m.path, u>> \notin rows)
        BY <1>3, Adds, Zenon
      <4> QED BY <2>4, <4>1, Zenon
    <3> QED BY <2>2, <3>1
  <2> QED BY <1>1, <2>2, <2>3, <2>4, WantedStep DEF Inv
<1>4. CASE TouchPath(m)
  <2>1. /\ Outstanding' = Outstanding \ {m} /\ acceptance.open /\ UNCHANGED <<accepted, rows, listed>>
        /\ acceptance'.publication = acceptance.publication
        /\ acceptance'.added = acceptance.added
    BY <1>4, Touches
  <2>2. \A o \in Outstanding', v \in Unit :
          v \in o.add => \E q \in Outstanding : q.path = o.path /\ v \in q.add
    BY <2>1
  <2> QED BY <1>1, <2>1, <2>2, WantedStep DEF Inv
<1> QED BY <1>2, <1>3, <1>4

\* Whatever does not concern the acceptance and lists what it writes.
LEMMA RequestWanted ==
  ASSUME Inv, TargetsWanted, UNCHANGED accepted, listed \subseteq listed',
         listed' \subseteq Path \X Unit \X (1..Len(accepted)),
         \A p \in Path, u \in Unit : <<p, u>> \in rows' => <<p, u>> \in rows \/ u \in ListedOf(p)',
         acceptance'.open => /\ acceptance.open /\ Outstanding' = Outstanding
                             /\ acceptance'.publication = acceptance.publication
                             /\ acceptance'.added = acceptance.added
  PROVE  TargetsWanted'
BY WantedStep DEF Inv

\* Requests commit what was listed.
LEMMA RequestsWanted ==
  ASSUME Inv, TargetsWanted, NEW r \in Requests,
         \/ \E p \in Path : CreateLearningPath(r, p)
         \/ CommitUpdate(r)
         \/ CascadeDeletion(r)
  PROVE  TargetsWanted'
<1> DEFINE n == Len(accepted)
<1>1. n \in 1..n
  BY Lengths DEF Inv
<1>2. listed \subseteq Path \X Unit \X (1..n)
  BY DEF TargetsWanted
<1>3. ASSUME NEW p \in Path, NEW S \in SUBSET Unit, listed' = listed \cup ({p} \X S \X {n})
      PROVE  /\ listed' \subseteq Path \X Unit \X (1..n)
             /\ \A u \in S : u \in ListedOf(p)'
  <2>1. listed' \subseteq Path \X Unit \X (1..n)
    BY <1>1, <1>2, <1>3
  <2>2. ASSUME NEW u \in S PROVE u \in ListedOf(p)'
    <3> DEFINE y == <<p, u, n>>
    <3>1. y \in listed' /\ y[1] = p /\ y[2] = u
      BY <1>3
    <3> HIDE DEF y
    <3> QED BY <3>1 DEF ListedOf
  <2> QED BY <2>1, <2>2
<1> HIDE DEF n
<1>4. ASSUME NEW p \in Path, CreateLearningPath(r, p) PROVE TargetsWanted'
  <2> DEFINE S == request[r].units
  <2>1. request[r] \in Creation
    BY <1>4 DEF CreateLearningPath, Inv, Typed, Work, Idle
  <2>2. S \in SUBSET Unit
    BY <2>1 DEF Creation
  <2>3. /\ listed' = listed \cup ({p} \X S \X {n}) /\ rows' = rows \cup ({p} \X S)
        /\ UNCHANGED <<accepted, acceptance>>
    BY <1>4 DEF CreateLearningPath, n
  <2> HIDE DEF S
  <2>4. listed' \subseteq Path \X Unit \X (1..n) /\ \A u \in S : u \in ListedOf(p)'
    BY <1>3, <2>2, <2>3
  <2>5. \A q \in Path, u \in Unit : <<q, u>> \in rows' => <<q, u>> \in rows \/ u \in ListedOf(q)'
    BY <2>3, <2>4
  <2> QED BY <2>3, <2>4, <2>5, RequestWanted DEF Outstanding, n
<1>5. CASE CommitUpdate(r)
  <2> DEFINE t == request[r]
  <2>1. t \in Work /\ t.added = t.units
    BY <1>5, UpdatedTargets
  <2>2. PICK p \in Path, S \in SUBSET Unit : p = t.path /\ S = t.units
    BY <2>1 DEF Work
  <2>3. \A q \in Path, u \in Unit :
          <<q, u>> \in rows' <=> IF q = p THEN u \in S ELSE <<q, u>> \in rows
    BY <1>5, <2>1, <2>2, UpdatedTargets
  <2>4. listed' = listed \cup ({p} \X S \X {n}) /\ UNCHANGED accepted /\ Raced(p)
    BY <1>5, <2>2 DEF CommitUpdate, n
  <2>5. listed' \subseteq Path \X Unit \X (1..n) /\ \A u \in S : u \in ListedOf(p)'
    BY <1>3, <2>4
  <2>6. \A q \in Path, u \in Unit : <<q, u>> \in rows' => <<q, u>> \in rows \/ u \in ListedOf(q)'
    BY <2>3, <2>5
  <2>7. acceptance'.open => /\ acceptance.open /\ Outstanding' = Outstanding
                            /\ acceptance'.publication = acceptance.publication
                            /\ acceptance'.added = acceptance.added
    <3> SUFFICES ASSUME acceptance'.open
                 PROVE  /\ acceptance.open /\ Outstanding' = Outstanding
                        /\ acceptance'.publication = acceptance.publication
                        /\ acceptance'.added = acceptance.added
      OBVIOUS
    <3>1. acceptance.open
      BY <2>4 DEF Raced, Closed
    <3>2. acceptance \in Opened
      BY <3>1, OpenAcceptance DEF Inv
    <3>3. acceptance' = [acceptance EXCEPT !.seen = {x \in acceptance.seen : x[1] # p}]
      BY <2>4, <3>1 DEF Raced
    <3> QED BY <3>1, <3>2, <3>3 DEF Opened, Outstanding
  <2> QED BY <2>4, <2>5, <2>6, <2>7, RequestWanted DEF n
<1>6. CASE CascadeDeletion(r)
  <2>1. rows' \subseteq rows /\ UNCHANGED <<accepted, acceptance, listed>>
    BY <1>6 DEF CascadeDeletion
  <2> QED BY <1>2, <2>1, RequestWanted DEF Outstanding, n
<1> QED BY <1>4, <1>5, <1>6

\* The plan of an acceptance starts from the targets there are.
LEMMA PlanWanted ==
  ASSUME Inv, TargetsWanted, NEW P \in Publishable, AcceptCurriculumProposal(P)
  PROVE  TargetsWanted'
<1> DEFINE active(p) == {x \in P.rules : x.sources \cap TargetsOf(rows, p) # {}}
<1>1. /\ UNCHANGED <<accepted, rows, listed>>
      /\ acceptance' = [open |-> TRUE, publication |-> P, seen |-> rows,
                         todo |-> Plan(P), current |-> {},
                         gone |-> {}, added |-> {}, touched |-> {}]
  BY DEF AcceptCurriculumProposal
<1>2. acceptance'.publication = P /\ Outstanding' = Plan(P) /\ acceptance'.added = {}
  BY <1>1 DEF Outstanding
<1>3. \A m \in Plan(P) : m.path \in paths /\ m.add = UNION {x.targets : x \in active(m.path)}
  BY DEF Plan
<1>4. \A p : Wanted(p)' = Wanted(p)
  BY <1>1 DEF Wanted, Recognized, ListedOf
<1>5. \A p \in Path : TargetsOf(rows, p) \subseteq Wanted(p)
  BY DEF TargetsWanted, TargetsOf
<1>6. paths \subseteq Path
  BY DEF Inv, Typed
<1>7. ASSUME NEW m \in Outstanding', NEW u \in Unit, u \in m.add PROVE LeadsTo(m.path, u)'
  <2>1. m.path \in Path /\ \E x \in active(m.path) : u \in x.targets
    BY <1>2, <1>3, <1>6, <1>7
  <2>2. PICK x \in P.rules : u \in x.targets /\ x.sources \cap TargetsOf(rows, m.path) # {}
    BY <2>1
  <2>3. x.sources \cap Wanted(m.path)' # {}
    BY <1>4, <1>5, <2>1, <2>2
  <2> QED BY <1>2, <2>2, <2>3 DEF LeadsTo
<1>8. MigrationsLead'
  BY <1>2, <1>7 DEF MigrationsLead
<1> QED BY <1>1, <1>4, <1>8 DEF TargetsWanted

\* The publication adds what its recognitions make of the wanted targets.
LEMMA CommitWanted ==
  ASSUME Inv, TargetsWanted, CommitAcceptance
  PROVE  TargetsWanted'
<1> DEFINE n == Len(accepted)
           more == accepted'
           P == acceptance.publication
<1>1. /\ acceptance.open /\ more = Append(accepted, P)
      /\ rows' = (rows \ acceptance.gone) \cup acceptance.added
      /\ acceptance' = Closed /\ UNCHANGED listed
  BY DEF CommitAcceptance
<1>2. n \in Nat \ {0} /\ accepted \in Seq(Publishable \cup {Initial})
  BY Lengths DEF Inv, Typed
<1>3. P \in Publishable
  BY <1>1, OpenAcceptance DEF Inv, Opened
<1> HIDE DEF P
<1>4. Len(more) = n + 1 /\ more[n + 1] = P /\ \A k \in 1..n : more[k] = accepted[k]
  BY <1>1, <1>2, <1>3
<1> HIDE DEF n, more
<1>5. ASSUME NEW p PROVE Grown(Wanted(p), P.rules) \subseteq Wanted(p)'
  <2> DEFINE S == {x[2] : x \in {y \in listed : y[1] = p /\ y[3] < n + 1}}
             R == RecognizedUpTo(n, accepted, listed, p)
  <2>1. Recognized(p) = R
    BY RecognizedIsUpTo DEF n
  <2>2. Recognized(p)' = RecognizedUpTo(n + 1, more, listed, p)
    BY <1>1, <1>4, RecognizedIsUpToNext DEF more
  <2>3. Grown(R \cup S, more[n + 1].rules) \subseteq RecognizedUpTo(n + 1, more, listed, p)
    BY <1>2, <1>4, NextRecognized
  <2>4. ListedOf(p) = S
    <3>1. \A y \in listed : y[3] < n + 1
      BY <1>2 DEF TargetsWanted, n
    <3> QED BY <3>1 DEF ListedOf
  <2> HIDE DEF S, R
  <2>5. Wanted(p) = R \cup S
    BY <2>1, <2>4 DEF Wanted
  <2> QED BY <1>4, <2>2, <2>3, <2>5 DEF Wanted
<1>6. ASSUME NEW p \in Path, NEW u \in Unit, <<p, u>> \in rows'
      PROVE  u \in Wanted(p)'
  <2>1. u \in Wanted(p) => u \in Grown(Wanted(p), P.rules)
    BY GrownGrows
  <2>2. CASE <<p, u>> \in rows
    BY <1>5, <2>1, <2>2 DEF TargetsWanted
  <2>3. CASE <<p, u>> \in acceptance.added
    <3>1. LeadsTo(p, u)
      BY <1>1, <2>3 DEF TargetsWanted, MigrationsLead
    <3>2. u \in Grown(Wanted(p), P.rules)
      BY <3>1 DEF LeadsTo, Grown, P
    <3> QED BY <1>5, <3>2
  <2> QED BY <1>1, <1>6, <2>2, <2>3
<1>7. Len(accepted') # 0 /\ listed' \subseteq Path \X Unit \X (1..Len(accepted'))
  <2>1. 1..n \subseteq 1..(n + 1) /\ n + 1 # 0
    BY <1>2
  <2> QED BY <1>1, <1>4, <2>1 DEF TargetsWanted, n, more
<1>8. MigrationsLead'
  BY <1>1 DEF MigrationsLead, Closed
<1> QED BY <1>6, <1>7, <1>8 DEF TargetsWanted

\* Hence every step keeps targets wanted.
LEMMA WantedNext == Inv /\ TargetsWanted /\ [Next]_vars => TargetsWanted'
<1> SUFFICES ASSUME Inv, TargetsWanted, [Next]_vars PROVE TargetsWanted'
  OBVIOUS
<1>1. ASSUME UNCHANGED <<accepted, rows, listed>>, acceptance' = acceptance \/ acceptance' = Closed
      PROVE  TargetsWanted'
  <2>1. acceptance'.open => acceptance' = acceptance /\ acceptance.open
    BY <1>1 DEF Closed
  <2>2. listed' \subseteq Path \X Unit \X (1..Len(accepted))
    BY <1>1 DEF TargetsWanted
  <2> QED BY <1>1, <2>1, <2>2, RequestWanted DEF Outstanding
<1>2. CASE UNCHANGED vars
  BY <1>1, <1>2 DEF vars
<1>3. ASSUME NEW P \in Publishable, AcceptCurriculumProposal(P)
      PROVE  TargetsWanted'
  BY <1>3, PlanWanted
<1>4. CASE Migrate
  BY <1>1, <1>4, StatementWanted DEF Migrate, AddToMissingPath
<1>5. CASE CommitAcceptance
  BY <1>5, CommitWanted
<1>6. ASSUME NEW r \in Requests,
             \/ \E S \in SUBSET Unit : ValidateCreation(r, S)
             \/ \E p \in Path, S \in SUBSET Unit : ValidateUpdate(r, p, S)
             \/ \E p \in Path : RequestDeletion(r, p)
      PROVE  TargetsWanted'
  BY <1>1, <1>6 DEF ValidateCreation, ValidateUpdate, RequestDeletion
<1>7. ASSUME NEW r \in Requests, Step(r)
      PROVE  TargetsWanted'
  <2>1. ASSUME \/ UpdateLearningPath(r) \/ ClearUnits(r) \/ DeleteLearningPath(r)
               \/ \E u \in Unit : InsertUnit(r, u)
        PROVE  UNCHANGED <<accepted, rows, acceptance, listed>>
    BY <2>1 DEF UpdateLearningPath, ClearUnits, DeleteLearningPath, InsertUnit
  <2> QED BY <1>1, <1>7, <2>1, RequestsWanted DEF Step
<1>8. CASE BreakDeadlock \/ Fail
  BY <1>1, <1>8 DEF BreakDeadlock, Fail, Rollback, RollbackAcceptance
<1> QED BY <1>2, <1>3, <1>4, <1>5, <1>6, <1>7, <1>8 DEF Next

LEMMA WantedInit == Init => TargetsWanted
<1>1. Len(<<Initial>>) # 0
  OBVIOUS
<1> QED BY <1>1 DEF Init, TargetsWanted, MigrationsLead, Closed

\* The invariant says what the property does.
LEMMA WantedTargets == Inv /\ TargetsWanted => TargetsAreWanted
<1> SUFFICES ASSUME Inv, TargetsWanted, NEW x \in rows
             PROVE  \/ \E y \in listed : y[1] = x[1] /\ y[2] = x[2]
                    \/ x[2] \in Recognized(x[1])
  BY DEF TargetsAreWanted
<1>1. x = <<x[1], x[2]>> /\ x[1] \in Path /\ x[2] \in Unit
  BY DEF Inv, Typed, Pairs
<1>2. x[2] \in Recognized(x[1]) \/ x[2] \in ListedOf(x[1])
  BY <1>1 DEF TargetsWanted, Wanted
<1> QED BY <1>2 DEF ListedOf

\* The property of the run: no path gets a target that its learner did not list
\* and no recognition of an accepted proposal led to, one proposal at a time
\* (MigrateLearningPathTargets).
THEOREM TargetsAreRecognized == Spec => []TargetsAreWanted
BY Invariant, WantedInit, WantedNext, WantedTargets, PTL DEF Spec

--------------------------------------------------------------------------------
(***************************************************************************)
(* What a learner is told. The units that can be reached in as many steps  *)
(* as there are units are the smallest set that is closed under the        *)
(* dependencies, and a set of units that is acyclic has a first one.       *)
(***************************************************************************)

\* The units V that E leads to from T, in n steps at most.
Reached(f, V, E, T, n) ==
  f = [k \in 0..n |-> IF k = 0 THEN T \cap V
                      ELSE f[k - 1] \cup {d[2] : d \in {e \in E : e[1] \in f[k - 1]}}]

ReachOf(V, E, T, n) ==
  LET reach[k \in 0..n] ==
        IF k = 0 THEN T \cap V
        ELSE reach[k - 1] \cup {d[2] : d \in {e \in E : e[1] \in reach[k - 1]}}
  IN reach[n]

LEMMA ReachedExist ==
  ASSUME NEW V, NEW E, NEW T
  PROVE  \A n \in Nat : \E f : Reached(f, V, E, T, n)
<1> DEFINE S == {n \in Nat : \E f : Reached(f, V, E, T, n)}
           Further(X) == X \cup {d[2] : d \in {e \in E : e[1] \in X}}
<1>1. 0 \in S
  <2> DEFINE f == [k \in 0..0 |-> T \cap V]
  <2>1. \A k \in 0..0 : k = 0 /\ f[k] = T \cap V
    OBVIOUS
  <2>2. f = [k \in 0..0 |-> f[k]]
    OBVIOUS
  <2>3. Reached(f, V, E, T, 0)
    <3> HIDE DEF f
    <3> QED BY <2>1, <2>2, Zenon DEF Reached
  <2> QED BY <2>3
<1>2. ASSUME NEW n \in Nat, n \in S PROVE n + 1 \in S
  <2>1. PICK f : Reached(f, V, E, T, n)
    BY <1>2
  <2> DEFINE last == Further(f[n])
             g == [k \in 0..(n + 1) |-> IF k = n + 1 THEN last ELSE f[k]]
  <2>2. \A k \in 0..(n + 1) : g[k] = IF k = n + 1 THEN last ELSE f[k]
    OBVIOUS
  <2>3. g = [k \in 0..(n + 1) |-> g[k]]
    OBVIOUS
  <2> HIDE DEF g, Further
  <2>4. \A k \in 0..n : f[k] = IF k = 0 THEN T \cap V ELSE Further(f[k - 1])
    BY <2>1, Zenon DEF Reached, Further
  <2>5. ASSUME NEW k \in 0..(n + 1) PROVE g[k] = IF k = 0 THEN T \cap V ELSE Further(g[k - 1])
    <3>1. CASE k = n + 1
      <4>1. k # 0 /\ k - 1 = n /\ n \in 0..(n + 1) /\ n # n + 1
        BY <3>1
      <4>2. g[k] = Further(f[n]) /\ g[n] = f[n]
        BY <2>2, <3>1, <4>1
      <4> QED BY <4>1, <4>2
    <3>2. CASE k # n + 1
      <4>1. k \in 0..n /\ g[k] = f[k]
        BY <2>2, <3>2
      <4>2. k # 0 => k - 1 \in 0..(n + 1) /\ k - 1 # n + 1
        BY <4>1
      <4>3. k # 0 => g[k - 1] = f[k - 1]
        BY <2>2, <4>2
      <4> QED BY <2>4, <4>1, <4>3
    <3> QED BY <3>1, <3>2
  <2>6. Reached(g, V, E, T, n + 1)
    BY <2>3, <2>5, Zenon DEF Reached, Further
  <2> QED BY <2>6
<1>3. Nat \subseteq S
  <2> HIDE DEF S
  <2> QED BY <1>1, <1>2, SetInduction
<1> QED BY <1>3

\* What the steps of f reach, and n of them.
Walks(f, V, E, T, n) ==
  /\ ReachOf(V, E, T, n) = f[n]
  /\ f[0] = T \cap V
  /\ \A k \in 0..n : k # 0 => f[k] = f[k - 1] \cup {d[2] : d \in {e \in E : e[1] \in f[k - 1]}}

\* The steps are determined by where they start.
LEMMA ReachedSteps ==
  ASSUME NEW V, NEW E, NEW T, NEW n \in Nat
  PROVE  \E f : Walks(f, V, E, T, n)
<1>1. \E f : Reached(f, V, E, T, n) /\ ReachOf(V, E, T, n) = f[n]
  <2> DEFINE f == CHOOSE f : Reached(f, V, E, T, n)
  <2>1. ReachOf(V, E, T, n) = f[n]
    BY Zenon DEF ReachOf, Reached
  <2>2. Reached(f, V, E, T, n)
    BY ReachedExist, Zenon
  <2> QED BY <2>1, <2>2, Zenon
<1>2. PICK f : Reached(f, V, E, T, n) /\ ReachOf(V, E, T, n) = f[n]
  BY <1>1, Zenon
<1>3. \A k \in 0..n : f[k] = IF k = 0 THEN T \cap V
                              ELSE f[k - 1] \cup {d[2] : d \in {e \in E : e[1] \in f[k - 1]}}
  BY <1>2, Zenon DEF Reached
<1>4. 0 \in 0..n
  OBVIOUS
<1>5. f[0] = T \cap V
  BY <1>3, <1>4, Zenon
<1>6. \A k \in 0..n : k # 0 => f[k] = f[k - 1] \cup {d[2] : d \in {e \in E : e[1] \in f[k - 1]}}
  BY <1>3, Zenon
<1> QED BY <1>2, <1>5, <1>6, Zenon DEF Walks

ClosedIn(S, V, E) == \A d \in E : d[1] \in S /\ d[2] \in V => d[2] \in S

\* After as many steps as there are units, nothing is left to reach: before that,
\* each step reaches one more.
LEMMA ReachEnds ==
  ASSUME NEW V \in SUBSET Unit, NEW E \in SUBSET (V \X V), NEW T, NEW n \in Nat, n = Cardinality(Unit)
  PROVE  /\ ReachOf(V, E, T, n) \subseteq V /\ T \cap V \subseteq ReachOf(V, E, T, n)
         /\ ClosedIn(ReachOf(V, E, T, n), V, E)
         /\ \A S \in SUBSET V : T \cap V \subseteq S /\ ClosedIn(S, V, E) => ReachOf(V, E, T, n) \subseteq S
<1>0. PICK f : Walks(f, V, E, T, n)
  BY ReachedSteps, Zenon
<1>1. /\ ReachOf(V, E, T, n) = f[n]
      /\ f[0] = T \cap V
      /\ \A k \in 0..n : k # 0 => f[k] = f[k - 1] \cup {d[2] : d \in {e \in E : e[1] \in f[k - 1]}}
  BY <1>0, Zenon DEF Walks
<1>2. ASSUME NEW k \in Nat, k + 1 <= n
      PROVE  f[k + 1] = f[k] \cup {d[2] : d \in {e \in E : e[1] \in f[k]}}
  <2>1. k + 1 \in 0..n /\ k + 1 # 0 /\ (k + 1) - 1 = k
    BY <1>2
  <2> QED BY <1>1, <2>1
<1>3. ASSUME NEW S \in SUBSET V, T \cap V \subseteq S, ClosedIn(S, V, E)
      PROVE  f[n] \subseteq S
  <2> DEFINE X == {k \in Nat : k <= n => f[k] \subseteq S}
  <2>1. 0 \in X
    BY <1>1, <1>3
  <2>2. ASSUME NEW k \in Nat, k \in X PROVE k + 1 \in X
    <3> SUFFICES ASSUME k + 1 <= n, NEW u \in f[k + 1] PROVE u \in S
      OBVIOUS
    <3>1. f[k] \subseteq S
      BY <2>2
    <3>2. u \in f[k] \/ \E d \in E : d[1] \in f[k] /\ u = d[2]
      BY <1>2
    <3> QED BY <1>3, <3>1, <3>2 DEF ClosedIn
  <2>3. Nat \subseteq X
    <3> HIDE DEF X
    <3> QED BY <2>1, <2>2, SetInduction
  <2> QED BY <2>3
<1>4. f[n] \subseteq V
  BY <1>3 DEF ClosedIn
<1> DEFINE X == {k \in Nat : k <= n =>
                   /\ T \cap V \subseteq f[k] /\ f[k] \subseteq V
                   /\ ClosedIn(f[k], V, E) \/ Cardinality(f[k]) >= k}
<1>5. IsFiniteSet(V)
  BY UnitAssumption, FS_Subset
<1>6. 0 \in X
  <2>1. f[0] \subseteq V /\ IsFiniteSet(f[0])
    BY <1>1, <1>5, FS_Subset
  <2>2. Cardinality(f[0]) >= 0
    BY <2>1, FS_CardinalityType
  <2> QED BY <1>1, <2>1, <2>2
<1>7. ASSUME NEW k \in Nat, k \in X PROVE k + 1 \in X
  <2> SUFFICES ASSUME k + 1 <= n
               PROVE  /\ T \cap V \subseteq f[k + 1] /\ f[k + 1] \subseteq V
                      /\ ClosedIn(f[k + 1], V, E) \/ Cardinality(f[k + 1]) >= k + 1
    OBVIOUS
  <2>1. /\ T \cap V \subseteq f[k] /\ f[k] \subseteq V
        /\ ClosedIn(f[k], V, E) \/ Cardinality(f[k]) >= k
    BY <1>7
  <2>2. \A u : u \in f[k + 1] <=> u \in f[k] \/ \E d \in E : d[1] \in f[k] /\ u = d[2]
    BY <1>2
  <2>3. \A d \in E : d[2] \in V
    OBVIOUS
  <2>4. f[k + 1] \subseteq V /\ f[k] \subseteq f[k + 1]
    BY <2>1, <2>2, <2>3
  <2>5. CASE ClosedIn(f[k], V, E)
    <3>1. f[k + 1] \subseteq f[k]
      BY <2>2, <2>3, <2>5 DEF ClosedIn
    <3>2. f[k + 1] = f[k]
      BY <2>4, <3>1
    <3> QED BY <2>1, <2>5, <3>2
  <2>6. CASE ~ClosedIn(f[k], V, E)
    <3>1. PICK d \in E : d[1] \in f[k] /\ d[2] \notin f[k]
      BY <2>6 DEF ClosedIn
    <3>2. d[2] \in f[k + 1]
      BY <2>2, <3>1
    <3>3. IsFiniteSet(f[k + 1]) /\ IsFiniteSet(f[k])
      BY <1>5, <2>1, <2>4, FS_Subset
    <3>4. f[k] # f[k + 1]
      BY <3>1, <3>2
    <3>5. Cardinality(f[k]) < Cardinality(f[k + 1])
      BY <2>4, <3>3, <3>4, FS_Subset, FS_CardinalityType
    <3>6. Cardinality(f[k]) \in Nat /\ Cardinality(f[k + 1]) \in Nat /\ Cardinality(f[k]) >= k
      BY <2>1, <2>6, <3>3, FS_CardinalityType
    <3>7. Cardinality(f[k + 1]) >= k + 1
      BY <3>5, <3>6
    <3> QED BY <2>1, <2>4, <3>7
  <2> QED BY <2>5, <2>6
<1>8. n \in X
  <2> HIDE DEF X
  <2> QED BY <1>6, <1>7, SetInduction
<1>9. ClosedIn(f[n], V, E)
  <2>1. CASE Cardinality(f[n]) >= n
    <3>1. IsFiniteSet(f[n]) /\ f[n] \subseteq Unit
      BY <1>4, <1>5, FS_Subset
    <3>2. Cardinality(f[n]) \in Nat /\ Cardinality(f[n]) <= n
      BY <3>1, UnitAssumption, FS_Subset, FS_CardinalityType
    <3>3. f[n] = Unit
      BY <2>1, <3>1, <3>2, UnitAssumption, FS_Subset
    <3> QED BY <3>3 DEF ClosedIn
  <2> QED BY <1>8, <2>1
<1> QED BY <1>1, <1>3, <1>4, <1>8, <1>9

--------------------------------------------------------------------------------
(***************************************************************************)
(* A read has, of each statement it has done, the result of the moment;    *)
(* the publications of that moment stay the first ones of the line.        *)
(***************************************************************************)
Answer ==
  [page : DOMAIN Statements, left : Seq({"paths", "units", "dependencies", "completed"}),
   heads : SUBSET Nat, units : SUBSET Unit, dependencies : SUBSET (Unit \X Unit),
   paths : {<<>>} \cup UNION {[S -> SUBSET Unit] : S \in SUBSET Path},
   completed : SUBSET Unit]

StudyTyped == completed \subseteq Unit /\ reading \in [Reader -> Answer \cup {NotReading}]

\* The statements that are left to do.
ToDo(g) == {g.left[i] : i \in 1..Len(g.left)}

\* The first k publications.
Line(k) == SubSeq(accepted, 1, k)

Reads(g) ==
  /\ g.heads \subseteq 1..Len(accepted)
  /\ g.heads = {} => "units" \in ToDo(g) /\ "dependencies" \in ToDo(g)
  /\ \E P \in DOMAIN Requires : g.dependencies \subseteq Requires[P]
  /\ \A k : g.heads = {k} =>
       /\ "units" \notin ToDo(g) => g.units = PublishedBy(Line(k))
       /\ "dependencies" \notin ToDo(g) => g.dependencies = DependenciesOf(Line(k))

ReadsAreOfTheirMoment == \A x \in Reader : reading[x] # NotReading => Reads(reading[x])

StudyInv == Inv /\ Len(accepted) # 0 /\ StudyTyped /\ ReadsAreOfTheirMoment

\* Publications are of units, and the last one has its dependencies.
LEMMA PublicationsOfUnits ==
  ASSUME Inv, Len(accepted) # 0
  PROVE  /\ Len(accepted) \in Nat \ {0} /\ Line(Len(accepted)) = accepted
         /\ Units \subseteq Unit /\ DependenciesOf(accepted) \subseteq Units \X Units
         /\ Last(accepted) \in DOMAIN Requires
         /\ DependenciesOf(accepted) \subseteq Requires[Last(accepted)]
<1>1. accepted \in Seq(Publishable \cup {Initial}) /\ Len(accepted) \in Nat
  BY DEF Inv, Typed
<1>3. Line(Len(accepted)) = accepted
  BY <1>1, SubSeqFull DEF Line
<1>4. Units \subseteq Unit
  <2>1. \A k \in DOMAIN accepted : accepted[k].created \subseteq Unit
    BY <1>1, PublishableAssumption DEF Publication
  <2> QED BY <2>1 DEF Units, PublishedBy, CreatedBy
<1>5. Last(accepted) \in DOMAIN Requires
  BY <1>1, RequiresAssumption DEF Last
<1> QED BY <1>1, <1>3, <1>4, <1>5 DEF DependenciesOf, Units

\* The publications grow at their end, by one that may be accepted.
LEMMA LineGrows ==
  ASSUME Inv, [Next]_vars
  PROVE  accepted' = accepted \/ \E P \in Publishable : accepted' = Append(accepted, P)
<1>1. CASE CommitAcceptance
  <2>1. acceptance.publication \in Publishable
    BY <1>1, OpenAcceptance DEF CommitAcceptance, Inv, Opened
  <2> QED BY <1>1, <2>1 DEF CommitAcceptance
<1>2. ~CommitAcceptance => accepted' = accepted
  BY DEF Next, vars, AcceptCurriculumProposal, Migrate, RemoveSource, AddTarget, AddToMissingPath, TouchPath,
         ValidateCreation, ValidateUpdate, RequestDeletion, Step, CreateLearningPath, UpdateLearningPath,
         ClearUnits, InsertUnit, CommitUpdate, DeleteLearningPath, CascadeDeletion, BreakDeadlock, Fail
<1> QED BY <1>1, <1>2

\* What was read stays what was published.
LEMMA LineStays ==
  ASSUME Inv, [Next]_vars, Inv'
  PROVE  /\ Len(accepted) <= Len(accepted')
         /\ \A k \in 1..Len(accepted) : Line(k)' = Line(k)
<1>1. accepted \in Seq(Publishable \cup {Initial}) /\ accepted' \in Seq(Publishable \cup {Initial})
  BY DEF Inv, Typed
<1>2. ASSUME NEW P \in Publishable, accepted' = Append(accepted, P)
      PROVE  Len(accepted) <= Len(accepted') /\ \A k \in 1..Len(accepted) : Line(k)' = Line(k)
  <2>1. Len(accepted') = Len(accepted) + 1
    BY <1>1, <1>2
  <2>2. ASSUME NEW k \in 1..Len(accepted) PROVE SubSeq(accepted', 1, k) = SubSeq(accepted, 1, k)
    <3>1. accepted' = accepted \o <<P>>
      BY <1>1, <1>2, AppendIsConcat
    <3>2. <<P>> \in Seq(Publishable \cup {Initial})
      OBVIOUS
    <3>3. 1 \in 1..Len(accepted)
      BY <1>1
    <3> QED BY <1>1, <3>1, <3>2, <3>3, SubSeqOfConcat1
  <2> QED BY <1>1, <2>1, <2>2 DEF Line
<1>3. CASE accepted' = accepted
  BY <1>1, <1>3 DEF Line
<1> QED BY <1>2, <1>3, LineGrows

\* So a read is still of its moment.
LEMMA ReadsStay ==
  ASSUME Inv, [Next]_vars, Inv', NEW g, Reads(g)
  PROVE  Reads(g)'
<1>1. /\ Len(accepted) <= Len(accepted')
      /\ \A k \in 1..Len(accepted) : Line(k)' = Line(k)
      /\ Len(accepted) \in Nat /\ Len(accepted') \in Nat
  BY LineStays DEF Inv, Typed
<1>2. g.heads \subseteq 1..Len(accepted') /\ \A k : g.heads = {k} => Line(k)' = Line(k)
  BY <1>1 DEF Reads
<1>3. ASSUME NEW k, g.heads = {k}
      PROVE  /\ "units" \notin ToDo(g) => g.units = PublishedBy(Line(k)')
             /\ "dependencies" \notin ToDo(g) => g.dependencies = DependenciesOf(Line(k)')
  BY <1>2, <1>3 DEF Reads
<1> QED BY <1>2, <1>3, Zenon DEF Reads, ToDo

\* A read that has done one more statement.
LEMMA StatementIsDone ==
  ASSUME NEW x \in Reader, NEW s, Reading(x, s), StudyInv
  PROVE  /\ reading[x] \in Answer
         /\ Tail(reading[x].left) \in Seq({"paths", "units", "dependencies", "completed"})
         /\ \A y : y.left = Tail(reading[x].left) => ToDo(reading[x]) = ToDo(y) \cup {s}
<1> DEFINE g == reading[x]
<1>1. g \in Answer /\ g.left # <<>> /\ Head(g.left) = s
  BY DEF Reading, StudyInv, StudyTyped
<1>2. g.left \in Seq({"paths", "units", "dependencies", "completed"})
  BY <1>1 DEF Answer
<1>3. PICK n, rest : /\ n \in Nat /\ rest = Tail(g.left) /\ Len(g.left) = n + 1 /\ Len(rest) = n
                     /\ \A i \in 1..n : rest[i] = g.left[i + 1]
  <2>1. Len(g.left) \in Nat \ {0}
    BY <1>1, <1>2
  <2>2. Len(Tail(g.left)) = Len(g.left) - 1 /\ \A i \in 1..(Len(g.left) - 1) : Tail(g.left)[i] = g.left[i + 1]
    BY <1>1, <1>2, HeadTailProperties
  <2>3. Len(g.left) - 1 \in Nat /\ Len(g.left) = (Len(g.left) - 1) + 1
    BY <2>1
  <2> QED BY <2>2, <2>3
<1>4. g.left[1] = s
  BY <1>1, <1>2
<1>5. ASSUME NEW y, y.left = rest PROVE ToDo(g) = ToDo(y) \cup {s}
  <2>1. \A i \in 1..(n + 1) : i = 1 \/ (i - 1 \in 1..n /\ (i - 1) + 1 = i)
    BY <1>3
  <2>2. \A i \in 1..n : i + 1 \in 1..(n + 1)
    BY <1>3
  <2>3. 1 \in 1..(n + 1)
    BY <1>3
  <2>4. ToDo(g) = {g.left[i] : i \in 1..(n + 1)} /\ ToDo(y) = {rest[i] : i \in 1..n}
    BY <1>3, <1>5 DEF ToDo
  <2> HIDE DEF g
  <2> QED BY <1>3, <1>4, <2>1, <2>2, <2>3, <2>4
<1> QED BY <1>1, <1>2, <1>3, <1>5, HeadTailProperties

\* A step of one read.
LEMMA ReadStep ==
  ASSUME StudyInv, UNCHANGED <<vars, completed>>, NEW x \in Reader, NEW y,
         reading' = [reading EXCEPT ![x] = y],
         y = NotReading \/ (y \in Answer /\ Reads(y))
  PROVE  StudyInv'
<1>1. UNCHANGED <<accepted, paths, rows, acceptance, request, listed>>
  BY DEF vars
<1>2. Inv'
  BY <1>1, StepInv DEF vars, StudyInv
<1>3. StudyTyped' /\ Len(accepted') # 0
  BY <1>1 DEF StudyInv, StudyTyped
<1>4. ASSUME NEW z \in Reader, reading'[z] # NotReading PROVE Reads(reading'[z])
  BY <1>4 DEF StudyInv, StudyTyped, ReadsAreOfTheirMoment
<1>5. ReadsAreOfTheirMoment'
  <2>1. \A z \in Reader : reading'[z] # NotReading => Reads(reading[z])'
    <3> SUFFICES ASSUME NEW z \in Reader, reading'[z] # NotReading PROVE Reads(reading[z])'
      OBVIOUS
    <3>1. Reads(reading'[z])
      BY <1>4
    <3>2. PICK g : g = reading'[z] /\ Reads(g)
      BY <3>1
    <3> QED BY <1>1, <3>2 DEF Reads, ToDo, Line, DependenciesOf
  <2> QED BY <2>1 DEF ReadsAreOfTheirMoment
<1> QED BY <1>2, <1>3, <1>5 DEF StudyInv

\* What a statement leaves of a read: x is done with s, at the last publication.
LEMMA OneMoreStatement ==
  ASSUME StudyInv, NEW x \in Reader, NEW s, Reading(x, s), NEW y \in Answer,
         y.left = Tail(reading[x].left), y.heads = reading[x].heads \cup {Len(accepted)},
         y.units = (IF s = "units" THEN Units ELSE reading[x].units),
         y.dependencies = (IF s = "dependencies" THEN DependenciesOf(accepted) ELSE reading[x].dependencies)
  PROVE  Reads(y)
<1> DEFINE g == reading[x]
           n == Len(accepted)
<1>1. ToDo(g) = ToDo(y) \cup {s}
  BY StatementIsDone
<1>2. Reads(g)
  BY DEF Reading, StudyInv, ReadsAreOfTheirMoment
<1>3. /\ n \in Nat \ {0} /\ Line(n) = accepted
      /\ Last(accepted) \in DOMAIN Requires
      /\ DependenciesOf(accepted) \subseteq Requires[Last(accepted)]
  BY PublicationsOfUnits DEF StudyInv
<1> HIDE DEF g, n
<1>4. y.heads \subseteq 1..Len(accepted) /\ y.heads # {}
  BY <1>2, <1>3 DEF Reads, g, n
<1>5. \E P \in DOMAIN Requires : y.dependencies \subseteq Requires[P]
  BY <1>2, <1>3 DEF Reads, g
<1>6. ASSUME NEW k, y.heads = {k}
      PROVE  /\ "units" \notin ToDo(y) => y.units = PublishedBy(Line(k))
             /\ "dependencies" \notin ToDo(y) => y.dependencies = DependenciesOf(Line(k))
  <2>1. k = n /\ (g.heads = {} \/ g.heads = {k})
    BY <1>6 DEF g, n
  <2>2. ASSUME "units" \notin ToDo(y) PROVE y.units = PublishedBy(Line(k))
    <3>1. CASE s = "units"
      BY <1>3, <2>1, <3>1 DEF Units
    <3>2. CASE s # "units"
      <4>1. "units" \notin ToDo(g)
        BY <1>1, <2>2, <3>2
      <4> QED BY <1>2, <2>1, <3>2, <4>1 DEF Reads, g
    <3> QED BY <3>1, <3>2
  <2>3. ASSUME "dependencies" \notin ToDo(y) PROVE y.dependencies = DependenciesOf(Line(k))
    <3>1. CASE s = "dependencies"
      BY <1>3, <2>1, <3>1
    <3>2. CASE s # "dependencies"
      <4>1. "dependencies" \notin ToDo(g)
        BY <1>1, <2>3, <3>2
      <4> QED BY <1>2, <2>1, <3>2, <4>1 DEF Reads, g
    <3> QED BY <3>1, <3>2
  <2> QED BY <2>2, <2>3
<1> QED BY <1>4, <1>5, <1>6 DEF Reads

\* The statements.
LEMMA StatementsRead ==
  ASSUME StudyInv, NEW x \in Reader,
         ListLearningPaths(x) \/ ListUnits(x) \/ ListDependencies(x) \/ CompletedUnitIDs(x)
  PROVE  StudyInv'
<1> DEFINE g == reading[x]
           n == Len(accepted)
           Names == {"paths", "units", "dependencies", "completed"}
<1>0. /\ \A s \in {"paths", "completed"} : s # "units" /\ s # "dependencies"
      /\ "units" # "dependencies" /\ "dependencies" # "units"
  OBVIOUS
<1>1. /\ Units \in SUBSET Unit /\ DependenciesOf(accepted) \in SUBSET (Unit \X Unit)
      /\ completed \in SUBSET Unit /\ n \in Nat
  BY PublicationsOfUnits DEF StudyInv, StudyTyped
<1>2. [p \in paths |-> TargetsOf(rows, p)] \in UNION {[S -> SUBSET Unit] : S \in SUBSET Path}
  BY DEF StudyInv, Inv, Typed, TargetsOf
<1>3. CASE ListLearningPaths(x)
  <2>1. /\ Reading(x, "paths") /\ UNCHANGED <<vars, completed>>
        /\ reading' = [reading EXCEPT ![x] =
             [g EXCEPT !["paths"] = [p \in paths |-> TargetsOf(rows, p)], !.left = Tail(g.left), !.heads = g.heads \cup {n}]]
    BY <1>3, Zenon DEF ListLearningPaths, After
  <2>2. g \in Answer /\ Tail(g.left) \in Seq(Names)
    BY <2>1, StatementIsDone
  <2>3. PICK y : y = [g EXCEPT !["paths"] = [p \in paths |-> TargetsOf(rows, p)], !.left = Tail(g.left), !.heads = g.heads \cup {n}]
    OBVIOUS
  <2>4. /\ y \in Answer /\ y.left = Tail(g.left) /\ y.heads = g.heads \cup {n}
        /\ y.units = g.units /\ y.dependencies = g.dependencies
    BY <1>1, <1>2, <2>2, <2>3 DEF Answer
  <2>5. Reads(y)
    BY <1>0, <2>1, <2>4, OneMoreStatement
  <2>6. reading' = [reading EXCEPT ![x] = y]
    BY <2>1, <2>3, Zenon
  <2> QED BY <2>1, <2>4, <2>5, <2>6, ReadStep
<1>4. CASE ListUnits(x)
  <2>1. /\ Reading(x, "units") /\ UNCHANGED <<vars, completed>>
        /\ reading' = [reading EXCEPT ![x] =
             [g EXCEPT !["units"] = Units, !.left = Tail(g.left), !.heads = g.heads \cup {n}]]
    BY <1>4, Zenon DEF ListUnits, After
  <2>2. g \in Answer /\ Tail(g.left) \in Seq(Names)
    BY <2>1, StatementIsDone
  <2>3. PICK y : y = [g EXCEPT !["units"] = Units, !.left = Tail(g.left), !.heads = g.heads \cup {n}]
    OBVIOUS
  <2>4. /\ y \in Answer /\ y.left = Tail(g.left) /\ y.heads = g.heads \cup {n}
        /\ y.units = Units /\ y.dependencies = g.dependencies
    BY <1>1, <1>2, <2>2, <2>3 DEF Answer
  <2>5. Reads(y)
    BY <1>0, <2>1, <2>4, OneMoreStatement
  <2>6. reading' = [reading EXCEPT ![x] = y]
    BY <2>1, <2>3, Zenon
  <2> QED BY <2>1, <2>4, <2>5, <2>6, ReadStep
<1>5. CASE ListDependencies(x)
  <2>1. /\ Reading(x, "dependencies") /\ UNCHANGED <<vars, completed>>
        /\ reading' = [reading EXCEPT ![x] =
             [g EXCEPT !["dependencies"] = DependenciesOf(accepted), !.left = Tail(g.left), !.heads = g.heads \cup {n}]]
    BY <1>5, Zenon DEF ListDependencies, After
  <2>2. g \in Answer /\ Tail(g.left) \in Seq(Names)
    BY <2>1, StatementIsDone
  <2>3. PICK y : y = [g EXCEPT !["dependencies"] = DependenciesOf(accepted), !.left = Tail(g.left), !.heads = g.heads \cup {n}]
    OBVIOUS
  <2>4. /\ y \in Answer /\ y.left = Tail(g.left) /\ y.heads = g.heads \cup {n}
        /\ y.units = g.units /\ y.dependencies = DependenciesOf(accepted)
    BY <1>1, <1>2, <2>2, <2>3 DEF Answer
  <2>5. Reads(y)
    BY <1>0, <2>1, <2>4, OneMoreStatement
  <2>6. reading' = [reading EXCEPT ![x] = y]
    BY <2>1, <2>3, Zenon
  <2> QED BY <2>1, <2>4, <2>5, <2>6, ReadStep
<1>6. CASE CompletedUnitIDs(x)
  <2>1. /\ Reading(x, "completed") /\ UNCHANGED <<vars, completed>>
        /\ reading' = [reading EXCEPT ![x] =
             [g EXCEPT !["completed"] = completed, !.left = Tail(g.left), !.heads = g.heads \cup {n}]]
    BY <1>6, Zenon DEF CompletedUnitIDs, After
  <2>2. g \in Answer /\ Tail(g.left) \in Seq(Names)
    BY <2>1, StatementIsDone
  <2>3. PICK y : y = [g EXCEPT !["completed"] = completed, !.left = Tail(g.left), !.heads = g.heads \cup {n}]
    OBVIOUS
  <2>4. /\ y \in Answer /\ y.left = Tail(g.left) /\ y.heads = g.heads \cup {n}
        /\ y.units = g.units /\ y.dependencies = g.dependencies
    BY <1>1, <1>2, <2>2, <2>3 DEF Answer
  <2>5. Reads(y)
    BY <1>0, <2>1, <2>4, OneMoreStatement
  <2>6. reading' = [reading EXCEPT ![x] = y]
    BY <2>1, <2>3, Zenon
  <2> QED BY <2>1, <2>4, <2>5, <2>6, ReadStep
<1> QED BY <1>3, <1>4, <1>5, <1>6

\* A page begins with all its statements to do.
LEMMA OpenRead ==
  ASSUME StudyInv, NEW x \in Reader, NEW page \in Pages, Open(x, page)
  PROVE  StudyInv'
<1>1. page \in DOMAIN Statements
  BY PagesAssumption
<1>2. /\ Statements[page] \in Seq({"paths", "units", "dependencies", "completed"})
      /\ \E i, j \in 1..Len(Statements[page]) :
           Statements[page][i] = "units" /\ Statements[page][j] = "dependencies"
  <2>1. page \in {"recommendations", "learn", "learn_path"}
    BY <1>1 DEF Statements
  <2>2. CASE page = "recommendations"
    <3>1. Statements[page] = <<"paths", "units", "dependencies", "completed">>
      BY <2>2 DEF Statements
    <3> QED BY <3>1
  <2>3. CASE page = "learn"
    <3>1. Statements[page] = <<"units", "dependencies", "paths", "completed">>
      BY <2>3 DEF Statements
    <3> QED BY <3>1
  <2>4. CASE page = "learn_path"
    <3>1. Statements[page] = <<"units", "dependencies", "completed", "paths">>
      BY <2>4 DEF Statements
    <3> QED BY <3>1
  <2> QED BY <2>1, <2>2, <2>3, <2>4
<1>3. PICK y : y = [page |-> page, left |-> Statements[page], heads |-> {},
                    units |-> {}, dependencies |-> {}, paths |-> <<>>, completed |-> {}]
  OBVIOUS
<1>4. y \in Answer
  BY <1>1, <1>2, <1>3 DEF Answer
<1>5. /\ y.heads = {} /\ y.dependencies = {}
      /\ "units" \in ToDo(y) /\ "dependencies" \in ToDo(y)
  BY <1>2, <1>3 DEF ToDo
<1>6. \E P \in DOMAIN Requires : y.dependencies \subseteq Requires[P]
  BY <1>5, RequiresAssumption
<1>7. Reads(y)
  BY <1>5, <1>6 DEF Reads
<1>8. UNCHANGED <<vars, completed>> /\ reading' = [reading EXCEPT ![x] = y]
  BY <1>3, Zenon DEF Open
<1> QED BY <1>4, <1>7, <1>8, ReadStep

\* Steps of others leave what was read.
LEMMA OthersReadOn ==
  ASSUME StudyInv, [Next]_vars, completed' \subseteq Unit, UNCHANGED reading
  PROVE  StudyInv'
<1>1. Inv'
  BY StepInv DEF StudyInv
<1>2. Len(accepted') # 0
  BY <1>1, LineStays DEF StudyInv, Inv, Typed
<1>3. StudyTyped'
  BY DEF StudyInv, StudyTyped
<1>4. ASSUME NEW z \in Reader, reading'[z] # NotReading PROVE Reads(reading[z])'
  <2>1. PICK g : g = reading[z] /\ Reads(g)
    BY <1>4 DEF StudyInv, ReadsAreOfTheirMoment
  <2>2. Reads(g)'
    BY <1>1, <2>1, ReadsStay DEF StudyInv
  <2>3. g = reading'[z]
    BY <2>1
  <2> QED BY <2>2, <2>3 DEF Reads, ToDo
<1>5. ReadsAreOfTheirMoment'
  BY <1>4 DEF ReadsAreOfTheirMoment
<1> QED BY <1>1, <1>2, <1>3, <1>5 DEF StudyInv

LEMMA StudyStep == StudyInv /\ [StudyNext]_studyVars => StudyInv'
<1> SUFFICES ASSUME StudyInv, [StudyNext]_studyVars PROVE StudyInv'
  OBVIOUS
<1>1. CASE Elsewhere
  <2>1. [Next]_vars /\ UNCHANGED reading
    BY <1>1 DEF Elsewhere
  <2>2. accepted' \in Seq(Publishable \cup {Initial})
    BY <2>1, StepInv DEF StudyInv, Inv, Typed
  <2>3. \A P \in Range(accepted') : P.rules \subseteq Rule
    BY <2>2, PublishableAssumption DEF Range, Publication
  <2>4. PICK S \in SUBSET UNION {P.rules : P \in Range(accepted') \ Range(accepted)} :
          completed' = completed \cup UNION {r.targets : r \in S}
    BY <1>1 DEF Elsewhere
  <2>5. \A r \in S : r.targets \subseteq Unit
    BY <2>3, <2>4 DEF Rule
  <2>6. completed' \subseteq Unit
    BY <2>4, <2>5 DEF StudyInv, StudyTyped
  <2> QED BY <2>1, <2>6, OthersReadOn
<1>2. ASSUME NEW u \in Unit, SetUnitProgress(u) PROVE StudyInv'
  BY <1>2, OthersReadOn DEF SetUnitProgress, StudyInv, StudyTyped
<1>3. ASSUME NEW x \in Reader, NEW page \in Pages, Open(x, page) PROVE StudyInv'
  BY <1>3, OpenRead
<1>4. ASSUME NEW x \in Reader,
             ListLearningPaths(x) \/ ListUnits(x) \/ ListDependencies(x) \/ CompletedUnitIDs(x)
      PROVE  StudyInv'
  BY <1>4, StatementsRead
<1>5. ASSUME NEW x \in Reader, Close(x) PROVE StudyInv'
  BY <1>5, ReadStep DEF Close
<1>6. CASE UNCHANGED studyVars
  BY <1>6, OthersReadOn DEF studyVars, vars, StudyInv, StudyTyped
<1> QED BY <1>1, <1>2, <1>3, <1>4, <1>5, <1>6 DEF StudyNext

LEMMA StudyStart == StudyInit => StudyInv
<1> SUFFICES ASSUME StudyInit PROVE StudyInv
  OBVIOUS
<1>1. Inv
  BY InitInv DEF StudyInit
<1>2. Len(accepted) # 0
  BY DEF StudyInit, Init
<1>3. StudyTyped /\ ReadsAreOfTheirMoment
  BY DEF StudyInit, StudyTyped, ReadsAreOfTheirMoment
<1> QED BY <1>1, <1>2, <1>3 DEF StudyInv

\* Whoever has something pending has a first unit of it, ...
LEMMA FirstIsAvailable ==
  ASSUME NEW g \in Answer, Reads(g), NEW targets, Pending(g, targets) # {}
  PROVE  Available(g, targets) # {}
<1> DEFINE S == Pending(g, targets)
           I == Included(g, targets)
<1>1. S = I \ g.completed /\ I \subseteq g.units /\ g.units \subseteq Unit
  BY DEF Pending, Included, Answer
<1>2. S \in (SUBSET Unit) \ {{}}
  BY <1>1
<1>3. PICK P \in DOMAIN Requires : g.dependencies \subseteq Requires[P]
  BY DEF Reads
<1>4. PICK u \in S : \A q \in S : <<u, q>> \notin Requires[P]
  BY <1>2, <1>3, RequiresAssumption
<1>5. \A d \in g.dependencies : d = <<d[1], d[2]>>
  BY DEF Answer
<1> HIDE DEF I
<1>6. ASSUME NEW d \in g.dependencies, d[1] = u, d[2] \in I PROVE d[2] \in g.completed
  <2> SUFFICES ASSUME d[2] \notin g.completed PROVE FALSE
    OBVIOUS
  <2>1. d[2] \in S
    BY <1>1, <1>6
  <2> QED BY <1>3, <1>4, <1>5, <1>6, <2>1
<1>7. u \in Available(g, targets)
  BY <1>4, <1>6 DEF Available, I
<1> QED BY <1>7

\* ... and what is available in one curriculum is what that curriculum makes due.
LEMMA AvailableIsDue ==
  ASSUME NEW g \in Answer, NEW targets, NEW k,
         g.units = PublishedBy(Line(k)), g.dependencies = DependenciesOf(Line(k))
  PROVE  Available(g, targets) = Due(k, targets, g.completed)
<1> DEFINE V == g.units
           E == g.dependencies
           n == Cardinality(Unit)
           R == ReachOf(V, E, targets, n)
           I == Included(g, targets)
<1>1. V \in SUBSET Unit /\ E \in SUBSET (V \X V) /\ n \in Nat
  BY UnitAssumption, FS_CardinalityType DEF Answer, DependenciesOf
<1>2. /\ R \subseteq V /\ targets \cap V \subseteq R /\ ClosedIn(R, V, E)
      /\ \A S \in SUBSET V : targets \cap V \subseteq S /\ ClosedIn(S, V, E) => R \subseteq S
  <2> HIDE DEF V, E
  <2> QED BY <1>1, ReachEnds DEF n, R
<1>3. I = {u \in V : \A S \in SUBSET V : targets \cap V \subseteq S /\ ClosedIn(S, V, E) => u \in S}
  BY DEF Included, ClosedIn
<1>4. I = R
  <2> HIDE DEF V, E, R, I
  <2> QED BY <1>2, <1>3
<1>5. Due(k, targets, g.completed) = {u \in R \ g.completed : \A d \in E : d[1] = u => d[2] \in g.completed}
  BY DEF Due, ReachOf, Line
<1>6. Available(g, targets) =
        {u \in I \ g.completed : \A d \in E : d[1] = u /\ d[2] \in I => d[2] \in g.completed}
  BY DEF Available, Pending
<1>7. \A d \in E : d[1] \in R => d[2] \in R
  <2> HIDE DEF R
  <2> QED BY <1>1, <1>2 DEF ClosedIn
<1> HIDE DEF V, E, R, I
<1> QED BY <1>4, <1>5, <1>6, <1>7

\* Whoever has something left to learn on a path is told a unit to learn now,
\* whatever is published between the statements of the answer; an answer that
\* saw one curriculum says what that curriculum asks for next
\* (AvailableLearningPathUnits, over the reads of learn.go and home.go).
THEOREM AdviceIsGiven == StudySpec => []AdviceLeadsOn
<1>1. StudyInv => AdviceLeadsOn
  <2> SUFFICES ASSUME StudyInv, NEW x \in Reader, Answered(x), NEW p \in DOMAIN reading[x].paths
               PROVE  LET g == reading[x] IN
                      /\ Pending(g, g.paths[p]) # {} => Available(g, g.paths[p]) # {}
                      /\ \A k \in g.heads : g.heads = {k} =>
                           Available(g, g.paths[p]) = Due(k, g.paths[p], g.completed)
    BY DEF AdviceLeadsOn
  <2> DEFINE g == reading[x]
  <2>1. g \in Answer /\ Reads(g)
    BY DEF Answered, StudyInv, StudyTyped, ReadsAreOfTheirMoment
  <2>2. ToDo(g) = {}
    BY DEF Answered, ToDo
  <2>3. \A k : g.heads = {k} => g.units = PublishedBy(Line(k)) /\ g.dependencies = DependenciesOf(Line(k))
    BY <2>1, <2>2 DEF Reads
  <2> HIDE DEF g
  <2>4. Pending(g, g.paths[p]) # {} => Available(g, g.paths[p]) # {}
    BY <2>1, FirstIsAvailable
  <2>5. \A k \in g.heads : g.heads = {k} => Available(g, g.paths[p]) = Due(k, g.paths[p], g.completed)
    BY <2>1, <2>3, AvailableIsDue
  <2> QED BY <2>4, <2>5 DEF g
<1> QED BY <1>1, StudyStart, StudyStep, PTL DEF StudySpec

================================================================================
