----------------------- MODULE PublicationLocking_proofs -----------------------
(***************************************************************************)
(* Proofs about PublicationLocking, for every set of proposals and clients *)
(* and every bound.                                                        *)
(*                                                                         *)
(* The transactions are serializable because of what a held lock keeps     *)
(* still: nobody publishes while a transaction holds the projection, and   *)
(* nobody writes a proposal that another holds.  The invariant says which  *)
(* locks each phase holds, that incompatible ones have one holder, and     *)
(* what their holders know; a creation, which locks nothing, has an        *)
(* identity that nobody else can know.                                     *)
(***************************************************************************)
EXTENDS PublicationLocking, TLAPS

Head0 == Proposals \cup {None}

Transaction ==
  [phase : {"lock", "read", "write"}, kind : Kind, proposal : Proposals,
   todo : Seq(Lock), holds : SUBSET Lock, head : Head0, row : Row,
   shown : SUBSET Proposals]

Page == [open : {TRUE}, proposal : Proposals, accepted : SUBSET Proposals]

Typed ==
  /\ head \in Head0
  /\ row \in [Proposals -> Row]
  /\ tx \in [Clients -> Transaction \cup {NoTransaction}]
  /\ page \in [Clients -> Page \cup {NoPage}]
  /\ calls \in 0..MaxCalls

\* The lock of the projection that a kind of transaction takes.
Projection(kind) == IF kind = "accept" THEN "exclusive" ELSE "shared"

\* How far a transaction is with its locks.
Progress(t) ==
  /\ t.phase = "lock" <=> t.todo # <<>>
  /\ t.kind = "create" => t.todo = <<>> /\ t.holds = {}
  /\ t.kind \in {"delete", "reject"} =>
       \/ t.todo = <<"proposal">> /\ t.holds = {}
       \/ t.todo = <<>> /\ t.holds = {"proposal"}
  /\ t.kind \in Drafting \cup {"accept"} =>
       \/ t.todo = <<Projection(t.kind), "proposal">> /\ t.holds = {}
       \/ t.todo = <<"proposal">> /\ t.holds = {Projection(t.kind)}
       \/ t.todo = <<>> /\ t.holds = {Projection(t.kind), "proposal"}

LocksInOrder == \A c \in Clients : Phase(c) # "idle" => Progress(tx[c])

\* Incompatible locks have one holder, and an identity one creator.
Exclusion ==
  \A c, d \in Clients : c # d =>
    /\ "exclusive" \in tx[c].holds =>
         ~("shared" \in tx[d].holds) /\ ~("exclusive" \in tx[d].holds)
    /\ "proposal" \in tx[c].holds /\ "proposal" \in tx[d].holds =>
         tx[c].proposal # tx[d].proposal
    /\ Phase(c) # "idle" /\ Phase(d) # "idle" /\ tx[c].kind = "create" /\ tx[d].kind = "create" =>
         tx[c].proposal # tx[d].proposal

\* Only a creation is about a proposal that does not exist.
Existence ==
  \A c \in Clients : Phase(c) # "idle" =>
    (tx[c].kind = "create" <=> row[tx[c].proposal].status = "unused")

\* The publications that a base can name.
Published == {p \in Proposals : row[p].status = "accepted"} \cup {None}

HeadsWerePublished ==
  /\ head \in Published
  /\ \A c \in Clients : Phase(c) # "idle" => tx[c].head \in Published

\* What the holder of the projection knows.
HeadsAreHeld ==
  \A c \in Clients :
    "shared" \in tx[c].holds \/ "exclusive" \in tx[c].holds => tx[c].head = head

\* What a transaction that is about to write has found.
Allowed(kind, r, h) ==
  /\ kind \in {"edit", "submit", "rebase", "resolve", "delete"} => r.status = "draft"
  /\ kind \in {"edit", "resolve"} => r.work < MaxVersion
  /\ kind \in {"accept", "reject"} => r.status = "submitted"
  /\ kind = "accept" => r.base = h
  /\ kind = "create" => r.status = "unused"

RowsAreHeld ==
  \A c \in Clients : Phase(c) = "write" =>
    /\ tx[c].row = row[tx[c].proposal]
    /\ Allowed(tx[c].kind, tx[c].row, tx[c].head)

Inv ==
  /\ Typed /\ LocksInOrder /\ Exclusion /\ Existence
  /\ HeadsWerePublished /\ HeadsAreHeld /\ RowsAreHeld

--------------------------------------------------------------------------------
\* The two locks of a transaction, one after the other.
LEMMA Queues ==
  ASSUME NEW a, NEW b
  PROVE  /\ <<a, b>> # <<>> /\ Head(<<a, b>>) = a /\ Tail(<<a, b>>) = <<b>>
         /\ <<b>> # <<>> /\ Head(<<b>>) = b /\ Tail(<<b>>) = <<>>
OBVIOUS

\* Who is idle holds nothing, and who is not is in a transaction.
LEMMA Idle ==
  ASSUME Typed, NEW c \in Clients
  PROVE  /\ Phase(c) = "idle" => tx[c] = NoTransaction /\ tx[c].holds = {}
         /\ Phase(c) # "idle" => tx[c] \in Transaction
BY DEF Typed, Transaction, NoTransaction, Phase

\* The inductive invariant, initially and at each statement of a transaction.
LEMMA InitInv == Init => Inv
<1> SUFFICES ASSUME Init PROVE Inv
  OBVIOUS
<1>1. \A c \in Clients : Phase(c) = "idle" /\ tx[c].holds = {}
  BY DEF Init, Phase, NoTransaction
<1>2. Typed
  <2>1. row \in [Proposals -> Row]
    BY StartsAssumption, BoundsAssumption DEF Init, Row, Work
  <2> QED BY <2>1, BoundsAssumption DEF Init, Typed, Head0
<1> QED BY <1>1, <1>2 DEF Init, Inv, LocksInOrder, Exclusion, Existence, HeadsWerePublished,
             Published, HeadsAreHeld, RowsAreHeld

\* A transaction that ends without writing disturbs nothing.
LEMMA EndStep ==
  ASSUME Inv, NEW c \in Clients, tx' = [tx EXCEPT ![c] = NoTransaction],
         UNCHANGED <<head, row, page, calls>>
  PROVE  Inv'
<1>1. Typed'
  BY DEF Inv, Typed
<1>2. /\ tx'[c].phase = "idle" /\ tx'[c].holds = {}
      /\ \A d \in Clients \ {c} : tx'[d] = tx[d]
  BY DEF Inv, Typed, NoTransaction
<1> QED BY <1>1, <1>2 DEF Inv, LocksInOrder, Exclusion, Existence, HeadsWerePublished,
             Published, HeadsAreHeld, RowsAreHeld, Phase

LEMMA BeginStep ==
  ASSUME Inv, NEW c \in Clients, NEW kind \in Kind, NEW p \in Proposals, Begin(c, kind, p)
  PROVE  Inv'
<1> DEFINE t == [phase |-> IF Locks(kind) = <<>> THEN "read" ELSE "lock",
                 kind |-> kind, proposal |-> p, todo |-> Locks(kind), holds |-> {},
                 head |-> head, row |-> row[p],
                 shown |-> IF kind = "resolve" THEN page[c].accepted ELSE {}]
<1>1. /\ Phase(c) = "idle" /\ tx' = [tx EXCEPT ![c] = t]
      /\ calls < MaxCalls /\ calls' = calls + 1
      /\ page' = [page EXCEPT ![c] = NoPage] /\ UNCHANGED <<head, row>>
      /\ kind = "resolve" => page[c].open
      /\ kind = "create" => row[p].status = "unused" /\ p \notin Creating
      /\ kind # "create" => row[p].status # "unused"
  BY DEF Begin
<1>2. Locks(kind) \in Seq(Lock)
  <2>1. <<"shared", "proposal">> \in Seq(Lock) /\ <<"exclusive", "proposal">> \in Seq(Lock)
        /\ <<"proposal">> \in Seq(Lock) /\ <<>> \in Seq(Lock)
    BY DEF Lock
  <2> QED BY <2>1 DEF Locks, Kind, Drafting
<1>3. t.shown \in SUBSET Proposals
  <2>1. page[c] \in Page \/ page[c].open = FALSE
    BY DEF Inv, Typed, NoPage
  <2> QED BY <1>1, <2>1 DEF Page
<1>4. t \in Transaction
  BY <1>2, <1>3 DEF Inv, Typed, Transaction, Head0
<1>5. Typed'
  BY <1>1, <1>4, BoundsAssumption DEF Inv, Typed
<1>6. Progress(t)
  <2> HIDE DEF t
  <2>1. t.kind = kind /\ t.todo = Locks(kind) /\ t.holds = {}
        /\ t.phase = (IF Locks(kind) = <<>> THEN "read" ELSE "lock")
    BY DEF t
  <2> QED BY <2>1 DEF Progress, Locks, Projection, Kind, Drafting
<1>7. tx'[c] = t /\ \A d \in Clients \ {c} : tx'[d] = tx[d]
  BY <1>1 DEF Inv, Typed
<1>8. /\ t.holds = {} /\ t.kind = kind /\ t.proposal = p /\ t.head = head
      /\ t.phase # "idle" /\ t.phase # "write"
  OBVIOUS
<1> HIDE DEF t
<1>9. LocksInOrder'
  BY <1>6, <1>7 DEF Inv, LocksInOrder, Phase
<1>10. Exclusion'
  <2>1. kind = "create" => \A d \in Clients : Phase(d) # "idle" /\ tx[d].kind = "create" =>
                             tx[d].proposal # p
    BY <1>1 DEF Creating
  <2> QED BY <1>7, <1>8, <2>1 DEF Inv, Exclusion, Phase
<1>11. Existence'
  BY <1>1, <1>7, <1>8 DEF Inv, Existence, Phase
<1>12. HeadsWerePublished' /\ HeadsAreHeld'
  BY <1>1, <1>7, <1>8 DEF Inv, HeadsWerePublished, Published, HeadsAreHeld, Phase
<1>13. RowsAreHeld'
  BY <1>1, <1>7, <1>8 DEF Inv, RowsAreHeld, Phase
<1> QED BY <1>5, <1>9, <1>10, <1>11, <1>12, <1>13 DEF Inv

LEMMA TakeLockStep ==
  ASSUME Inv, NEW c \in Clients, TakeLock(c)
  PROVE  Inv'
<1> DEFINE lock == Head(tx[c].todo)
           left == Tail(tx[c].todo)
           t == [tx[c] EXCEPT !.holds = @ \cup {lock}, !.todo = left,
                              !.phase = IF left = <<>> THEN "read" ELSE "lock",
                              !.head = IF lock = "proposal" THEN @ ELSE head]
<1>1. /\ Phase(c) = "lock" /\ Free(c, lock)
      /\ UNCHANGED <<head, row, page, calls>>
  BY DEF TakeLock
<1>2. tx[c] \in Transaction
  BY <1>1, Idle DEF Inv
<1>3. Progress(tx[c])
  BY <1>1 DEF Inv, LocksInOrder
<1>4. /\ lock \in Lock /\ left \in Seq(Lock)
      /\ tx[c].kind # "create"
  <2>1. tx[c].todo \in Seq(Lock) /\ tx[c].todo # <<>> /\ tx[c].kind \in Kind
    BY <1>1, <1>2, <1>3 DEF Progress, Phase, Transaction
  <2> QED BY <1>3, <2>1 DEF Progress
<1>5. /\ tx'[c] = t
      /\ \A d \in Clients \ {c} : tx'[d] = tx[d]
      /\ tx' = [tx EXCEPT ![c] = t]
  BY DEF TakeLock, Inv, Typed
<1>6. t \in Transaction
  BY <1>2, <1>4 DEF Transaction, Inv, Typed
<1>7. Typed'
  BY <1>1, <1>5, <1>6 DEF Inv, Typed
<1>8. /\ t.holds = tx[c].holds \cup {lock} /\ t.todo = left
      /\ t.phase = (IF left = <<>> THEN "read" ELSE "lock")
      /\ t.head = (IF lock = "proposal" THEN tx[c].head ELSE head)
      /\ t.kind = tx[c].kind /\ t.proposal = tx[c].proposal
  BY <1>2 DEF Transaction
<1>9. Progress(t)
  <2>1. CASE tx[c].kind \in {"delete", "reject"}
    <3> HIDE DEF t
    <3>1. \/ tx[c].todo = <<"proposal">> /\ tx[c].holds = {}
          \/ tx[c].todo = <<>> /\ tx[c].holds = {"proposal"}
      BY <1>3, <2>1 DEF Progress
    <3>2. tx[c].todo = <<"proposal">> /\ tx[c].holds = {}
      BY <1>1, <1>3, <3>1 DEF Progress, Phase
    <3>3. lock = "proposal" /\ left = <<>>
      BY <3>2, Queues
    <3> HIDE DEF lock, left
    <3>4. t.todo = <<>> /\ t.holds = {"proposal"} /\ t.phase = "read"
      BY <1>8, <3>2, <3>3
    <3> QED BY <1>8, <2>1, <3>4 DEF Progress, Drafting
  <2>2. CASE tx[c].kind \in Drafting \cup {"accept"}
    <3> HIDE DEF t
    <3> DEFINE first == Projection(tx[c].kind)
    <3>1. \/ tx[c].todo = <<first, "proposal">> /\ tx[c].holds = {}
          \/ tx[c].todo = <<"proposal">> /\ tx[c].holds = {first}
          \/ tx[c].todo = <<>> /\ tx[c].holds = {first, "proposal"}
      BY <1>3, <2>2 DEF Progress
    <3>2. tx[c].todo # <<>>
      BY <1>1, <1>3 DEF Progress, Phase
    <3>3. \/ lock = first /\ left = <<"proposal">> /\ tx[c].holds = {}
          \/ lock = "proposal" /\ left = <<>> /\ tx[c].holds = {first}
      <4> HIDE DEF first, t
      <4>1. CASE tx[c].todo = <<first, "proposal">> /\ tx[c].holds = {}
        BY <4>1, Queues
      <4>2. CASE tx[c].todo = <<"proposal">> /\ tx[c].holds = {first}
        BY <4>2, Queues
      <4> QED BY <3>1, <3>2, <4>1, <4>2
    <3> HIDE DEF lock, left, first
    <3>4. \/ t.todo = <<"proposal">> /\ t.holds = {first} /\ t.phase = "lock"
          \/ t.todo = <<>> /\ t.holds = {first, "proposal"} /\ t.phase = "read"
      BY <1>8, <3>3, Queues
    <3>5. first = Projection(t.kind)
      BY <1>8 DEF first
    <3> QED BY <1>8, <2>2, <3>4, <3>5, Queues DEF Progress, Drafting
  <2> QED BY <1>2, <1>4, <2>1, <2>2 DEF Transaction, Kind
<1> HIDE DEF lock, left, t
<1>10. LocksInOrder'
  BY <1>5, <1>9 DEF Inv, LocksInOrder, Phase
<1>11. Exclusion'
  <2>1. ASSUME NEW d \in Clients \ {c}
        PROVE  /\ "exclusive" \in t.holds =>
                    ~("shared" \in tx[d].holds) /\ ~("exclusive" \in tx[d].holds)
               /\ "exclusive" \in tx[d].holds =>
                    ~("shared" \in t.holds) /\ ~("exclusive" \in t.holds)
    <3>1. CASE lock = "proposal"
      BY <1>8, <2>1, <3>1 DEF Inv, Exclusion
    <3>2. CASE lock = "shared"
      <4>1. ~("exclusive" \in tx[d].holds)
        BY <1>1, <3>2 DEF Free, Holders
      <4> QED BY <1>8, <2>1, <3>2, <4>1 DEF Inv, Exclusion
    <3>3. CASE lock = "exclusive"
      <4>1. ~("exclusive" \in tx[d].holds) /\ ~("shared" \in tx[d].holds)
        BY <1>1, <3>3 DEF Free, Holders
      <4> QED BY <1>8, <2>1, <3>3, <4>1 DEF Inv, Exclusion
    <3> QED BY <1>4, <3>1, <3>2, <3>3 DEF Lock
  <2>2. ASSUME NEW d \in Clients \ {c}, "proposal" \in t.holds, "proposal" \in tx[d].holds
        PROVE  t.proposal # tx[d].proposal
    <3>1. CASE lock = "proposal"
      BY <1>1, <1>8, <2>2, <3>1 DEF Free, Holders
    <3>2. CASE lock # "proposal"
      BY <1>8, <2>2, <3>2 DEF Inv, Exclusion
    <3> QED BY <3>1, <3>2
  <2> QED BY <1>4, <1>5, <1>8, <2>1, <2>2 DEF Inv, Exclusion, Phase
<1>12. Existence'
  BY <1>1, <1>5, <1>8 DEF Inv, Existence, Phase
<1>13. HeadsWerePublished'
  BY <1>1, <1>5, <1>8 DEF Inv, HeadsWerePublished, Published, Phase
<1>14. HeadsAreHeld'
  BY <1>1, <1>5, <1>8 DEF Inv, HeadsAreHeld
<1>15. RowsAreHeld'
  BY <1>1, <1>5, <1>8 DEF Inv, RowsAreHeld, Phase
<1> QED BY <1>7, <1>10, <1>11, <1>12, <1>13, <1>14, <1>15 DEF Inv

LEMMA ReadStep ==
  ASSUME Inv, NEW c \in Clients, Read(c)
  PROVE  Inv'
<1> DEFINE r == row[tx[c].proposal]
           t == [tx[c] EXCEPT !.phase = "write", !.row = r]
<1>1. /\ Phase(c) = "read"
      /\ MayWrite(tx[c].kind, tx[c].proposal, r, tx[c].head, tx[c].shown)
      /\ UNCHANGED <<head, row, page, calls>>
  BY DEF Read
<1>2. tx[c] \in Transaction
  BY <1>1, Idle DEF Inv
<1>3. /\ tx'[c] = t
      /\ \A d \in Clients \ {c} : tx'[d] = tx[d]
      /\ tx' = [tx EXCEPT ![c] = t]
  BY DEF Read, Inv, Typed
<1>4. t \in Transaction
  BY <1>2 DEF Transaction, Inv, Typed
<1>5. Typed'
  BY <1>1, <1>3, <1>4 DEF Inv, Typed
<1>6. /\ t.phase = "write" /\ t.row = r /\ t.holds = tx[c].holds /\ t.todo = tx[c].todo
      /\ t.head = tx[c].head /\ t.kind = tx[c].kind /\ t.proposal = tx[c].proposal
  BY <1>2 DEF Transaction
<1>7. Allowed(t.kind, r, t.head)
  <2>1. tx[c].kind \in Kind
    BY <1>2 DEF Transaction
  <2> HIDE DEF r
  <2> QED BY <1>1, <1>6, <2>1 DEF MayWrite, Allowed, Kind, Drafting
<1> HIDE DEF r, t
<1>8. LocksInOrder'
  BY <1>1, <1>3, <1>6 DEF Inv, LocksInOrder, Progress, Phase
<1>9. Exclusion' /\ HeadsAreHeld'
  BY <1>1, <1>3, <1>6 DEF Inv, Exclusion, HeadsAreHeld, Phase
<1>10. Existence' /\ HeadsWerePublished'
  BY <1>1, <1>3, <1>6 DEF Inv, Existence, HeadsWerePublished, Published, Phase
<1>11. RowsAreHeld'
  BY <1>1, <1>3, <1>6, <1>7 DEF Inv, RowsAreHeld, Phase, r
<1> QED BY <1>5, <1>8, <1>9, <1>10, <1>11 DEF Inv

\* The row a transaction leaves behind.
LEMMA WrittenRow ==
  ASSUME NEW kind \in Kind, NEW r \in Row, NEW h \in Head0, Allowed(kind, r, h)
  PROVE  /\ Written(kind, r, h) \in Row
         /\ Written(kind, r, h).status # "unused"
         /\ r.status # "accepted"
         /\ Written(kind, r, h).status = "accepted" <=> kind = "accept"
<1>1. 0 \in Work /\ (kind \in {"edit", "resolve"} => r.work + 1 \in Work)
  BY BoundsAssumption DEF Row, Work, Allowed
<1>2. CASE kind = "create"
  BY <1>1, <1>2 DEF Written, Row, Allowed, Head0
<1>3. CASE kind \in {"edit", "resolve"}
  BY <1>1, <1>3 DEF Written, Row, Allowed, Head0
<1>4. CASE kind \in {"submit", "rebase"}
  BY <1>4 DEF Written, Row, Allowed, Head0
<1>5. CASE kind \in {"delete", "accept", "reject"}
  BY <1>5 DEF Written, Row, Allowed
<1> QED BY <1>2, <1>3, <1>4, <1>5 DEF Kind, Drafting

\* A transaction that writes is alone with its proposal.
LEMMA WriterIsAlone ==
  ASSUME Inv, NEW c \in Clients, NEW d \in Clients \ {c},
         Phase(c) = "write", Phase(d) # "idle", tx[d].proposal = tx[c].proposal
  PROVE  /\ tx[c].kind # "create" /\ tx[d].kind # "create"
         /\ Phase(d) # "write"
<1>1. tx[c].kind = "create" <=> tx[d].kind = "create"
  BY DEF Inv, Existence
<1>2. tx[c].kind # "create" /\ tx[d].kind # "create"
  BY <1>1 DEF Inv, Exclusion
<1>3. tx[c] \in Transaction /\ tx[d] \in Transaction
  BY Idle DEF Inv
<1>4. Progress(tx[c]) /\ Progress(tx[d])
  BY DEF Inv, LocksInOrder
<1>5. ASSUME NEW e \in {c, d}, Phase(e) = "write" PROVE "proposal" \in tx[e].holds
  <2>1. tx[e].kind \in Kind \ {"create"} /\ tx[e].todo = <<>>
    BY <1>2, <1>3, <1>4, <1>5 DEF Progress, Phase, Transaction
  <2>2. Progress(tx[e]) /\ \A x, y : tx[e].todo # <<x, y>> /\ tx[e].todo # <<x>>
    BY <1>4, <2>1, Queues
  <2>3. CASE tx[e].kind \in {"delete", "reject"}
    BY <2>2, <2>3 DEF Progress
  <2>4. CASE tx[e].kind \in Drafting \cup {"accept"}
    BY <2>2, <2>4 DEF Progress
  <2> QED BY <2>1, <2>3, <2>4 DEF Kind
<1> QED BY <1>2, <1>5 DEF Inv, Exclusion

\* What a transaction writes is the row of a proposal that nobody else writes, and
\* that nobody else creates.
LEMMA CommitStep ==
  ASSUME Inv, NEW c \in Clients, Commit(c)
  PROVE  Inv'
<1> DEFINE t == tx[c]
           p == tx[c].proposal
           new == Written(tx[c].kind, tx[c].row, tx[c].head)
<1>1. /\ Phase(c) = "write" /\ UNCHANGED <<page, calls>>
      /\ row' = [row EXCEPT ![p] = new]
      /\ head' = IF t.kind = "accept" THEN p ELSE head
      /\ tx' = [tx EXCEPT ![c] = NoTransaction]
  BY DEF Commit
<1>2. t \in Transaction /\ Allowed(t.kind, t.row, t.head) /\ t.row = row[p] /\ p \in Proposals
  BY <1>1, Idle DEF Inv, RowsAreHeld, Transaction
<1>3. /\ new \in Row /\ new.status # "unused"
      /\ row[p].status # "accepted"
      /\ new.status = "accepted" <=> t.kind = "accept"
  BY <1>2, WrittenRow DEF Transaction
<1>4. /\ tx'[c].phase = "idle" /\ tx'[c].holds = {}
      /\ \A d \in Clients \ {c} : tx'[d] = tx[d]
  BY <1>1 DEF Inv, Typed, NoTransaction
<1>5. row'[p] = new /\ \A q \in Proposals \ {p} : row'[q] = row[q]
  BY <1>1, <1>2 DEF Inv, Typed
<1>6. \A d \in Clients \ {c} : Phase(d) # "idle" /\ tx[d].proposal = p =>
        t.kind # "create" /\ tx[d].kind # "create" /\ Phase(d) # "write"
  BY <1>1, WriterIsAlone
<1>7. \A d \in Clients \ {c} : Phase(d) # "idle" => tx[d].proposal \in Proposals
  BY Idle DEF Inv, Transaction
<1>8. Typed'
  BY <1>1, <1>2, <1>3 DEF Inv, Typed, Head0
<1> HIDE DEF new
<1>9. LocksInOrder' /\ Exclusion'
  BY <1>4 DEF Inv, LocksInOrder, Exclusion, Phase
<1>10. Existence'
  BY <1>3, <1>4, <1>5, <1>6, <1>7 DEF Inv, Existence, Phase
<1>11. Published \subseteq Published' /\ head' \in Published'
  <2>1. Published \subseteq Published'
    BY <1>3, <1>5 DEF Published
  <2>2. CASE t.kind = "accept"
    BY <1>1, <1>2, <1>3, <1>5, <2>2 DEF Published
  <2>3. CASE t.kind # "accept"
    BY <1>1, <2>1, <2>3 DEF Inv, HeadsWerePublished
  <2> QED BY <2>1, <2>2, <2>3
<1>12. HeadsWerePublished'
  BY <1>4, <1>11 DEF Inv, HeadsWerePublished, Phase
<1>13. HeadsAreHeld'
  <2>1. CASE t.kind = "accept"
    <3>1. "exclusive" \in t.holds
      <4>1. t.todo = <<>> /\ Progress(t)
        BY <1>1 DEF Inv, LocksInOrder, Progress, Phase
      <4> QED BY <2>1, <4>1, Queues DEF Progress, Projection
    <3> QED BY <1>4, <3>1 DEF Inv, Exclusion, HeadsAreHeld
  <2>2. CASE t.kind # "accept"
    BY <1>1, <1>4, <2>2 DEF Inv, HeadsAreHeld
  <2> QED BY <2>1, <2>2
<1>14. RowsAreHeld'
  BY <1>4, <1>5, <1>6, <1>7 DEF Inv, RowsAreHeld, Phase
<1> QED BY <1>8, <1>9, <1>10, <1>12, <1>13, <1>14 DEF Inv

LEMMA StepInv == Inv /\ [Next]_vars => Inv'
<1> SUFFICES ASSUME Inv, [Next]_vars PROVE Inv'
  OBVIOUS
<1>1. CASE UNCHANGED vars
  BY <1>1 DEF vars, Inv, Typed, LocksInOrder, Exclusion, Existence, HeadsWerePublished,
              Published, HeadsAreHeld, RowsAreHeld, Phase
<1>2. ASSUME NEW c \in Clients, NEW p \in Proposals, PlanCurriculumProposalRebase(c, p)
      PROVE  Inv'
  <2>1. /\ page' = [page EXCEPT ![c] = [open |-> TRUE, proposal |-> p,
                                        accepted |-> Since(row[p].base, head)]]
        /\ UNCHANGED <<head, row, tx, calls>>
    BY <1>2 DEF PlanCurriculumProposalRebase
  <2>2. Since(row[p].base, head) \in SUBSET Proposals
    BY DEF Since
  <2>3. Typed'
    BY <2>1, <2>2 DEF Inv, Typed, Page
  <2> QED BY <2>1, <2>3 DEF Inv, LocksInOrder, Exclusion, Existence, HeadsWerePublished,
               Published, HeadsAreHeld, RowsAreHeld, Phase
<1>3. ASSUME NEW c \in Clients, Refuse(c) \/ Rollback(c)
      PROVE  Inv'
  BY <1>3, EndStep DEF Refuse, Rollback
<1> QED BY <1>1, <1>2, <1>3, BeginStep, TakeLockStep, ReadStep, CommitStep DEF Next

(***************************************************************************)
(* Clients, transactions, pages and proposals are what the code and the    *)
(* schema allow.                                                           *)
(***************************************************************************)
THEOREM TypeCorrect == Spec => []TypeOK
<1>1. Inv => TypeOK
  <2> SUFFICES ASSUME Inv PROVE TypeOK
    OBVIOUS
  <2>1. \A c \in Clients : \/ tx[c] = NoTransaction
                           \/ tx[c] \in Transaction /\ Progress(tx[c])
    BY Idle DEF Inv, LocksInOrder
  <2>2. \A c \in Clients : page[c] = NoPage \/ page[c] \in Page
    BY DEF Inv, Typed
  <2> QED BY <2>1, <2>2 DEF TypeOK, Inv, Typed, Transaction, Page, Head0, Progress
<1> QED BY InitInv, StepInv, <1>1, PTL DEF Spec

(***************************************************************************)
(* What a transaction has read and is about to base its writes on is still *)
(* what is committed (beginDraftMutation, PublishCurriculumProposal and    *)
(* the transactions beside them), whoever else is at work.                 *)
(***************************************************************************)
THEOREM ReadsAreHeld == Spec => []LocksHoldReads
<1>1. Inv => LocksHoldReads
  <2> SUFFICES ASSUME Inv, NEW c \in Clients, Phase(c) = "write"
               PROVE  /\ tx[c].kind \in Drafting \cup {"accept"} => tx[c].head = head
                      /\ tx[c].row = row[tx[c].proposal]
    BY DEF LocksHoldReads
  <2>1. tx[c].todo = <<>> /\ Progress(tx[c])
    BY DEF Inv, LocksInOrder, Progress, Phase
  <2>2. tx[c].kind \in Drafting \cup {"accept"} =>
          "shared" \in tx[c].holds \/ "exclusive" \in tx[c].holds
    BY <2>1, Queues DEF Progress, Projection
  <2> QED BY <2>2 DEF Inv, HeadsAreHeld, RowsAreHeld
<1> QED BY InitInv, StepInv, <1>1, PTL DEF Spec

\* A client that is neither idle nor waiting for a lock.
CanGoOn(c) ==
  \/ Phase(c) \in {"read", "write"}
  \/ Phase(c) = "lock" /\ Free(c, Head(tx[c].todo))

SomebodyGoesOn == (\E c \in Clients : Phase(c) # "idle") => \E c \in Clients : CanGoOn(c)

(***************************************************************************)
(* The order of the locks, projection before proposal, leaves no circle of *)
(* waiting: as long as there are transactions, one of them can go on.      *)
(***************************************************************************)
THEOREM NoDeadlock == Spec => []SomebodyGoesOn
<1>1. Inv => SomebodyGoesOn
  <2> SUFFICES ASSUME Inv, NEW c \in Clients, Phase(c) # "idle",
                      \A d \in Clients : Phase(d) \in {"idle", "lock"}
               PROVE  \E d \in Clients : CanGoOn(d)
    BY Idle DEF SomebodyGoesOn, CanGoOn, Transaction, Phase, Inv
  <2>1. ASSUME NEW d \in Clients, Phase(d) # "idle"
        PROVE  \/ tx[d].todo = <<"proposal">>
               \/ /\ tx[d].todo = <<Projection(tx[d].kind), "proposal">>
                  /\ tx[d].holds = {}
    <3>1. tx[d].kind \in Kind /\ Progress(tx[d]) /\ tx[d].todo # <<>>
      BY <2>1, Idle DEF Inv, LocksInOrder, Progress, Phase, Transaction
    <3> QED BY <3>1 DEF Progress, Kind
  <2>2. \A d \in Clients : ~("proposal" \in tx[d].holds)
    <3> SUFFICES ASSUME NEW d \in Clients, "proposal" \in tx[d].holds PROVE FALSE
      OBVIOUS
    <3>1. Phase(d) # "idle"
      BY Idle DEF Inv
    <3>2. Progress(tx[d]) /\ tx[d].todo # <<>>
      BY <2>1, <3>1, Queues DEF Inv, LocksInOrder
    <3>3. tx[d].kind \in Kind
      BY <3>1, Idle DEF Inv, Transaction
    <3> QED BY <3>2, <3>3 DEF Progress, Projection, Kind
  <2>3. CASE \E d \in Clients : Phase(d) # "idle" /\ tx[d].todo = <<"proposal">>
    <3>1. PICK d \in Clients : Phase(d) # "idle" /\ tx[d].todo = <<"proposal">>
      BY <2>3
    <3>2. Head(tx[d].todo) = "proposal"
      BY <3>1, Queues
    <3> QED BY <2>2, <3>1, <3>2 DEF CanGoOn, Free, Holders
  <2>4. CASE \A d \in Clients : Phase(d) # "idle" => tx[d].todo # <<"proposal">>
    <3>1. \A d \in Clients : tx[d].holds = {}
      BY <2>1, <2>4, Idle DEF Inv
    <3>2. Head(tx[c].todo) = Projection(tx[c].kind)
      BY <2>1, <2>4, Queues
    <3> QED BY <3>1, <3>2 DEF CanGoOn, Free, Holders, Projection
  <2> QED BY <2>3, <2>4
<1> QED BY InitInv, StepInv, <1>1, PTL DEF Spec

--------------------------------------------------------------------------------
(***************************************************************************)
(* Refinement.                                                             *)
(***************************************************************************)
\* A commit is one step of the life of its proposal; what happens before it is
\* not seen.
LEMMA CommitIsLifecycleStep ==
  ASSUME Inv, NEW c \in Clients, Commit(c)
  PROVE  Lifecycle!Next
<1> DEFINE kind == tx[c].kind
           p == tx[c].proposal
           r == row[p]
           h == tx[c].head
<1>1. /\ Phase(c) = "write" /\ tx[c].row = r
      /\ row' = [row EXCEPT ![p] = Written(kind, r, h)]
      /\ head' = IF kind = "accept" THEN p ELSE head
  BY DEF Commit, Inv, RowsAreHeld
<1>2. /\ kind \in Kind /\ p \in Proposals /\ r \in Row /\ Allowed(kind, r, h)
      /\ h \in Published
  BY <1>1, Idle DEF Inv, RowsAreHeld, Transaction, HeadsWerePublished
<1>3. kind \in Drafting \cup {"accept"} => h = head
  <2>1. tx[c].todo = <<>> /\ Progress(tx[c])
    BY <1>1 DEF Inv, LocksInOrder, Progress, Phase
  <2>2. kind \in Drafting \cup {"accept"} =>
          "shared" \in tx[c].holds \/ "exclusive" \in tx[c].holds
    BY <2>1, Queues DEF Progress, Projection
  <2> QED BY <2>2 DEF Inv, HeadsAreHeld
<1>4. r.work \in Work /\ 0 \in Work /\ (kind \in {"edit", "resolve"} => r.work + 1 \in Work)
  BY <1>2, BoundsAssumption DEF Row, Work, Allowed
<1>5. r = [status |-> r.status, base |-> r.base, work |-> r.work]
  BY <1>2 DEF Row
<1> HIDE DEF kind, p, r, h
<1>6. CASE kind = "create"
  <2>1. Written(kind, r, h) = [status |-> "draft", base |-> h, work |-> 0] /\ row[p].status = "unused"
    BY <1>2, <1>6 DEF Written, Allowed, r
  <2>2. Lifecycle!Start(p)
    BY <1>1, <1>2, <1>4, <1>6, <2>1 DEF Lifecycle!Start, Lifecycle!Write, Lifecycle!InStatus, Published
  <2> QED BY <1>2, <2>2 DEF Lifecycle!Next
<1>7. CASE kind \in {"edit", "resolve", "rebase"}
  <2>1. PICK w \in Work : Written(kind, r, h) = [status |-> "draft", base |-> head, work |-> w]
    BY <1>2, <1>3, <1>4, <1>5, <1>7 DEF Written, Allowed, Drafting
  <2>2. Lifecycle!Change(p)
    BY <1>1, <1>2, <1>7, <2>1 DEF Lifecycle!Change, Lifecycle!Write, Allowed, r
  <2> QED BY <1>2, <2>2 DEF Lifecycle!Next
<1>8. CASE kind = "submit"
  <2>1. Written(kind, r, h) = [status |-> "submitted", base |-> head, work |-> r.work]
    BY <1>2, <1>3, <1>5, <1>8 DEF Written, Drafting
  <2>2. Lifecycle!Submit(p)
    BY <1>1, <1>2, <1>8, <2>1 DEF Lifecycle!Submit, Lifecycle!Write, Allowed, r
  <2> QED BY <1>2, <2>2 DEF Lifecycle!Next
<1>9. CASE kind = "delete"
  <2>1. Written(kind, r, h) = [status |-> "deleted", base |-> r.base, work |-> r.work]
    BY <1>5, <1>9 DEF Written
  <2>2. r.base \in Proposals \cup {None}
    BY <1>2 DEF Row
  <2>3. Lifecycle!Write(p, "deleted", r.base, r.work) /\ head' = head /\ row[p].status = "draft"
    BY <1>1, <1>2, <1>9, <2>1 DEF Lifecycle!Write, Allowed, r
  <2>4. Lifecycle!Discard(p)
    BY <1>4, <2>2, <2>3 DEF Lifecycle!Discard
  <2> QED BY <1>2, <2>4 DEF Lifecycle!Next
<1>10. CASE kind = "accept"
  <2>1. Lifecycle!Accept(p)
    BY <1>1, <1>2, <1>3, <1>10 DEF Lifecycle!Accept, Allowed, Written, r
  <2> QED BY <1>2, <2>1 DEF Lifecycle!Next
<1>11. CASE kind = "reject"
  <2>1. Lifecycle!Reject(p)
    BY <1>1, <1>2, <1>11 DEF Lifecycle!Reject, Allowed, Written, r
  <2> QED BY <1>2, <2>1 DEF Lifecycle!Next
<1> QED BY <1>2, <1>6, <1>7, <1>8, <1>9, <1>10, <1>11 DEF Kind, Drafting

(***************************************************************************)
(* The transactions with their locks implement the abstract lifecycle, in  *)
(* which every change of a proposal is one step on the committed state: a  *)
(* draft's work changes only with a base that is the head, a submission    *)
(* freezes both, and an acceptance extends the head.                       *)
(***************************************************************************)
THEOREM LocksImplementLifecycle == Spec => ImplementsProposalLifecycle
<1>1. Init => Lifecycle!Init
  <2> SUFFICES ASSUME Init PROVE Lifecycle!Init
    OBVIOUS
  <2>1. PICK start \in Starts :
          row = [p \in Proposals |-> [status |-> start[p], base |-> None,
                                      work |-> IF start[p] = "unused" THEN 0 ELSE 1]]
    BY DEF Init
  <2>2. 0 \in Work /\ 1 \in Work
    BY BoundsAssumption DEF Work
  <2>3. \A p \in Proposals : start[p] \in {"unused", "draft", "submitted"}
    BY StartsAssumption
  <2>4. \A p \in Proposals : row[p].status # "accepted"
    BY <2>1, <2>3
  <2>5. Lifecycle!InStatus("accepted") = {head} \ {None}
    BY <2>4 DEF Lifecycle!InStatus, Init
  <2> QED BY <2>1, <2>2, <2>3, <2>5 DEF Lifecycle!Init, Init
<1>2. Inv /\ [Next]_vars => [Lifecycle!Next]_(Lifecycle!lvars)
  <2> SUFFICES ASSUME Inv, [Next]_vars PROVE [Lifecycle!Next]_(Lifecycle!lvars)
    OBVIOUS
  <2>1. CASE UNCHANGED vars
    BY <2>1 DEF vars, Lifecycle!lvars
  <2>2. ASSUME NEW c \in Clients, Commit(c)
        PROVE  Lifecycle!Next
    BY <2>2, CommitIsLifecycleStep
  <2>3. ASSUME NEW c \in Clients,
               \/ TakeLock(c) \/ Read(c) \/ Refuse(c) \/ Rollback(c)
               \/ \E p \in Proposals : \/ PlanCurriculumProposalRebase(c, p)
                                      \/ \E kind \in Kind : Begin(c, kind, p)
        PROVE  UNCHANGED Lifecycle!lvars
    BY <2>3 DEF TakeLock, Read, Refuse, Rollback, PlanCurriculumProposalRebase, Begin,
                Lifecycle!lvars
  <2> QED BY <2>1, <2>2, <2>3 DEF Next
<1> QED BY InitInv, StepInv, <1>1, <1>2, PTL DEF Spec, ImplementsProposalLifecycle, Lifecycle!Spec
================================================================================
