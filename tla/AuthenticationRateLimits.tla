---------------------- MODULE AuthenticationRateLimits ----------------------
(***************************************************************************)
(* The limiter of the public authentication forms: one row per client      *)
(* address and workflow counts the submissions of a window and holds the   *)
(* time until which the address is blocked. A submission is one            *)
(* transaction that first upserts its own row and then deletes the rows    *)
(* nobody has used for long, whoever they belong to.                       *)
(*                                                                         *)
(* Statements are the steps. A tick of the clock is far longer than a      *)
(* request, so time stands still while one is being served.                *)
(***************************************************************************)
EXTENDS Naturals, Sequences, FiniteSets, Functions

CONSTANTS Keys,       \* the pairs of a scope and an address
          Requests,   \* the submissions the server can be serving at once
          Limit,      \* the submission of a window that is rejected
          Window,     \* authenticationRateWindow
          Block,      \* authenticationBlockDuration
          Retention,  \* authenticationRateRetention
          MaxTime,    \* bound: the last tick
          MaxEvents,  \* bound: the submissions answered or failed, and being served
          NoRow, NoKey

RateRow == [start : Nat, count : Nat, until : Nat, updated : Nat]

\* What the constants of the code satisfy.
LimitsAreOrdered ==
  /\ Limit \in Nat \ {0, 1}
  /\ Window \in Nat \ {0} /\ Block \in Nat \ {0} /\ Retention \in Nat
  /\ Block >= Window /\ Retention >= Window
  /\ MaxTime \in Nat \ {0} /\ NoKey \notin Keys /\ NoRow \notin RateRow

VARIABLES clock,     \* ticks from an arbitrary start
          rows,      \* authentication_rate_limits, as committed
          requests,  \* the open transactions
          verdicts,  \* history: what was answered to each key, in order
          before,    \* history: the rows when the clock last ticked
          failures   \* history: the submissions a deadlock aborted

vars == <<clock, rows, requests, verdicts, before, failures>>

NotBlocked == 0   \* blocked_until IS NULL

Idle == [step |-> "idle", key |-> NoKey, row |-> NoRow, wanted |-> {}, deleted |-> {}]

Init ==
  /\ clock = 1
  /\ rows = [k \in Keys |-> NoRow]
  /\ requests = [r \in Requests |-> Idle]
  /\ verdicts = [k \in Keys |-> <<>>]
  /\ before = rows
  /\ failures = {}

\* The row locks of an open transaction: its own row and those it has deleted.
Locked(r) == requests[r].deleted \cup ({requests[r].key} \ {NoKey})

Free(k, r) == \A other \in Requests \ {r} : k \notin Locked(other)

\* A plausible bug: a window that slides with every submission.
RecordedSlidingStart(row, now) ==
  LET fresh == row = NoRow \/ row.updated + Window <= now
      count == IF fresh THEN 1 ELSE row.count + 1
  IN  [start   |-> now,
       count   |-> count,
       updated |-> now,
       until   |-> IF row # NoRow /\ row.until > now THEN row.until
                   ELSE IF row # NoRow /\ count >= Limit THEN now + Block
                   ELSE NotBlocked]

\* RecordAuthenticationRateEvent: the row after one more submission at `now`.
Recorded(row, now) ==
  LET fresh == row = NoRow \/ row.start + Window <= now
      count == IF fresh THEN 1 ELSE row.count + 1
  IN  [start   |-> IF fresh THEN now ELSE row.start,
       count   |-> count,
       updated |-> now,
       until   |-> IF row # NoRow /\ row.until > now THEN row.until
                   ELSE IF row # NoRow /\ count >= Limit THEN now + Block
                   ELSE NotBlocked]

\* Plausible bugs: rows go while their window lasts, or whatever their age.
DormantTooSoon(row, now) == row # NoRow /\ row.updated < now

DormantUnlessBlocked(row, now) == row # NoRow /\ row.until <= now

\* DeleteOldAuthenticationRateLimits: the rows that can go.
Dormant(row, now) ==
  row # NoRow /\ row.updated + Retention < now /\ row.until <= now

Submissions ==
  SumFunction([k \in Keys |-> Len(verdicts[k])]) + Cardinality(failures)
    + Cardinality({r \in Requests : requests[r] # Idle})

\* register, first statement. It waits for whoever holds the row.
Record(r, k) ==
  /\ requests[r] = Idle
  /\ Submissions < MaxEvents
  /\ Free(k, r)
  /\ requests' = [requests EXCEPT ![r].step = "recorded", ![r].key = k,
                                  ![r].row = Recorded(rows[k], clock)]
  /\ UNCHANGED <<clock, rows, verdicts, before, failures>>

\* register, second statement: its snapshot picks the rows to delete.
StartCleanup(r) ==
  /\ requests[r].step = "recorded"
  /\ requests' = [requests EXCEPT ![r].step = "cleaning",
       ![r].wanted = {k \in Keys \ {requests[r].key} : Dormant(rows[k], clock)}]
  /\ UNCHANGED <<clock, rows, verdicts, before, failures>>

\* Each of those rows is locked in turn and looked at again once it is.
DeleteRow(r, k) ==
  /\ requests[r].step = "cleaning" /\ k \in requests[r].wanted
  /\ Free(k, r)
  /\ requests' = [requests EXCEPT ![r].wanted = @ \ {k},
       ![r].deleted = IF Dormant(rows[k], clock) THEN @ \cup {k} ELSE @]
  /\ UNCHANGED <<clock, rows, verdicts, before, failures>>

Commit(r) ==
  LET key == requests[r].key
  IN  /\ requests[r].step = "cleaning" /\ requests[r].wanted = {}
      /\ rows' = [k \in Keys |-> IF k = key THEN requests[r].row
                                 ELSE IF k \in requests[r].deleted THEN NoRow
                                 ELSE rows[k]]
      /\ verdicts' = [verdicts EXCEPT ![key] =
           Append(@, [at |-> clock, blocked |-> requests[r].row.until > clock])]
      /\ requests' = [requests EXCEPT ![r] = Idle]
      /\ UNCHANGED <<clock, before, failures>>

WaitsFor(r, other) ==
  r # other /\ requests[r].wanted \cap Locked(other) # {}

InDeadlock(r) ==
  \E circle \in SUBSET Requests :
    /\ r \in circle
    /\ \A a \in circle : /\ \E b \in circle : WaitsFor(a, b)
                        /\ \E b \in circle : WaitsFor(b, a)

\* The database aborts one of the transactions that wait for each other and its
\* submission is answered with an internal error.
DeadlockAborted(r) ==
  /\ InDeadlock(r)
  /\ failures' = failures \cup
       {[at |-> clock, old |-> {k \in Keys : before[k] # NoRow
                                             /\ before[k].updated + Retention < clock}]}
  /\ requests' = [requests EXCEPT ![r] = Idle]
  /\ UNCHANGED <<clock, rows, verdicts, before>>

Tick ==
  /\ clock < MaxTime
  /\ \A r \in Requests : requests[r] = Idle
  /\ clock' = clock + 1
  /\ before' = rows
  /\ UNCHANGED <<rows, requests, verdicts, failures>>

Next ==
  \/ \E r \in Requests : \/ \E k \in Keys : Record(r, k) \/ DeleteRow(r, k)
                         \/ StartCleanup(r)
                         \/ Commit(r)
                         \/ DeadlockAborted(r)
  \/ Tick

Spec == Init /\ [][Next]_vars

-----------------------------------------------------------------------------

TypeOK ==
  /\ clock \in 1..MaxTime
  /\ rows \in [Keys -> RateRow \cup {NoRow}]
  /\ requests \in [Requests ->
       [step : {"idle", "recorded", "cleaning"}, key : Keys \cup {NoKey},
        row : RateRow \cup {NoRow}, wanted : SUBSET Keys, deleted : SUBSET Keys]]
  /\ verdicts \in [Keys -> Seq([at : 1..MaxTime, blocked : BOOLEAN])]
  /\ before \in [Keys -> RateRow \cup {NoRow}]
  /\ failures \subseteq [at : 1..MaxTime, old : SUBSET Keys]

\* The submissions of a key in a stretch of `length` ticks that ends at `last`.
Within(k, last, length) ==
  {i \in DOMAIN verdicts[k] :
     verdicts[k][i].at <= last /\ verdicts[k][i].at + length > last}

\* The window of a row is fixed, so a stretch of the same length can straddle two
\* of them: the code admits what is left of one after its first submission and
\* the whole of the next, and never more, however rows are cleaned up and
\* recreated meanwhile.
AdmissionsAreBounded ==
  \A k \in Keys, last \in 1..MaxTime :
    Cardinality({i \in Within(k, last, Window) : ~verdicts[k][i].blocked})
      <= (Limit - 2) + (Limit - 1)

\* An address is turned away only when it submitted too often: within the block
\* before the rejection lies a submission that was the Limit-th, or a later
\* one, of a window.
RejectionsAreEarned ==
  \A k \in Keys : \A i \in DOMAIN verdicts[k] :
    verdicts[k][i].blocked =>
      \E j \in 1..i :
        /\ verdicts[k][j].at + Block > verdicts[k][i].at
        /\ Cardinality({h \in Within(k, verdicts[k][j].at, Window) : h <= j}) >= Limit

\* Cleaning deletes rows of other addresses, so two submissions can wait for
\* each other's row, and one of them fails, perhaps that of an address that is not
\* dormant at all.  It takes two addresses that nobody has used since the
\* retention began, and that come up for cleaning in the same tick.
FailuresNeedDormancy ==
  \A f \in failures : \E k, l \in f.old : k # l

=============================================================================
