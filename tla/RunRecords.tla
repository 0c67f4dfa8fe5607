----------------------------- MODULE RunRecords -----------------------------
(***************************************************************************)
(* What a run leaves on record, field by field: the row of an operation,    *)
(* the log of its dispatches and the log of later observations.  The same   *)
(* record is guarded three times: by the parser every row passes on its way *)
(* in and out (domain/run.ts), by the CHECKs of the tables and by their     *)
(* triggers (storage/migrations), and by the conditions of the methods that *)
(* write it (storage/plan-run-repository.ts).  A write that the last let    *)
(* through and another refuses fails its transaction as a storage error.    *)
(*                                                                          *)
(* Identities, texts and JSON values are numbers; Null stands for NULL and  *)
(* for the JSON null, so a time stamp is a positive number.  The lease, the *)
(* run and the plan a method also looks at are those of ApplyRun.           *)
(***************************************************************************)
EXTENDS Integers

Null == 0

Status == {"pending", "running", "skipped", "succeeded", "failed", "unresolved"}
Reconciliation == {"not_required", "pending", "confirmed_applied",
                   "confirmed_not_applied", "unknown"}
\* A serialized error, as far as it is told apart: none, retryable or not.
Error == {"none", "retryable", "final"}

\* A row and an attempt have the same fields: "attempt" is the number of the
\* attempt, in the row that of the last one.
Entries(Count, Stamp, Value) ==
    [attempt: Count, status: Status, reconciliation: Reconciliation,
     after: Value, request: Value, error: Error,
     started: Stamp, finished: Stamp]
Events(Count, Stamp, Value) ==
    [number: Count, attempt: Count, status: Status,
     reconciliation: Reconciliation, after: Value, error: Error,
     observed: Stamp]

\* The record of an operation: its row, the last attempt and the last event;
\* the number 0 says that there is none yet.
Records == [row: Entries(Nat, Nat, Nat), attempt: Entries(Nat, Nat, Nat),
            event: Events(Nat, Nat, Nat)]

\* A run: its state and its two time stamps.
RunState == {"pending", "running", "completed", "partial", "failed"}
Runs(Stamp) == [state: RunState, started: Stamp, finished: Stamp]

InOrder(x) == x.started = Null \/ x.finished = Null \/ x.started <= x.finished

----------------------------------------------------------------------------
(* The parsers.                                                             *)

ParsedRow(x) ==
    /\ InOrder(x)
    /\ \/ /\ x.status = "pending" /\ x.reconciliation = "not_required"
          /\ x.started = Null /\ x.finished = Null
          /\ x.request = Null /\ x.error = "none" /\ x.after = Null
       \/ /\ x.status = "running" /\ x.reconciliation = "pending"
          /\ x.attempt >= 1 /\ x.started # Null /\ x.finished = Null
          /\ x.request = Null /\ x.error = "none" /\ x.after = Null
       \/ /\ x.status = "skipped" /\ x.reconciliation = "not_required"
          /\ x.started = Null /\ x.finished # Null
          /\ x.request = Null /\ x.error = "none" /\ x.after = Null
       \/ /\ x.status = "succeeded"
          /\ x.reconciliation \in {"not_required", "confirmed_applied"}
          /\ x.attempt >= 1 /\ x.started # Null /\ x.finished # Null
          /\ x.error = "none"
       \/ /\ x.status = "failed" /\ x.reconciliation = "confirmed_not_applied"
          /\ x.started = Null /\ x.finished # Null
          /\ x.request = Null /\ x.after = Null /\ x.error # "none"
       \/ /\ x.status = "failed" /\ x.reconciliation = "confirmed_not_applied"
          /\ x.attempt >= 1 /\ x.started # Null /\ x.finished # Null
          /\ x.error # "none"
       \/ /\ x.status = "unresolved" /\ x.reconciliation = "unknown"
          /\ x.attempt >= 1 /\ x.started # Null /\ x.finished # Null
          /\ x.error = "final"

ParsedAttempt(x) ==
    /\ x.attempt >= 1 /\ x.started # Null
    /\ InOrder(x)
    /\ \/ /\ x.status = "running" /\ x.reconciliation = "pending"
          /\ x.after = Null /\ x.request = Null /\ x.error = "none"
          /\ x.finished = Null
       \/ /\ x.status = "succeeded" /\ x.reconciliation = "not_required"
          /\ x.error = "none" /\ x.finished # Null
       \/ /\ x.status = "failed" /\ x.reconciliation = "confirmed_not_applied"
          /\ x.error # "none" /\ x.finished # Null
       \/ /\ x.status = "unresolved" /\ x.reconciliation = "unknown"
          /\ x.error = "final" /\ x.finished # Null

ParsedEvent(x) ==
    /\ x.number >= 1 /\ x.attempt >= 1 /\ x.observed # Null
    /\ \/ /\ x.status = "succeeded" /\ x.reconciliation = "confirmed_applied"
          /\ x.error = "none"
       \/ /\ x.status = "failed" /\ x.reconciliation = "confirmed_not_applied"
          /\ x.error = "retryable"
       \/ /\ x.status = "unresolved" /\ x.reconciliation = "unknown"
          /\ x.error = "final"

Closed == {"completed", "partial", "failed"}
ParsedRun(x) ==
    /\ x.started # Null
    /\ x.state \in {"pending", "running"} => x.finished = Null
    /\ x.state \in Closed => x.finished # Null
    /\ InOrder(x)

----------------------------------------------------------------------------
(* The tables.                                                              *)

OptionalErrorJson(x) == x.error = "none" \/ x.error \in {"retryable", "final"}
ErrorIs(x, retryable) == x.error = IF retryable THEN "retryable" ELSE "final"

TableRow(x) ==
    /\ OptionalErrorJson(x)
    /\ \/ /\ x.status = "pending" /\ x.reconciliation = "not_required"
          /\ x.started = Null /\ x.finished = Null
          /\ x.request = Null /\ x.error = "none" /\ x.after = Null
       \/ /\ x.status = "running" /\ x.reconciliation = "pending"
          /\ x.attempt >= 1 /\ x.started # Null /\ x.finished = Null
          /\ x.request = Null /\ x.error = "none" /\ x.after = Null
       \/ /\ x.status = "skipped" /\ x.reconciliation = "not_required"
          /\ x.started = Null /\ x.finished # Null
          /\ x.request = Null /\ x.error = "none" /\ x.after = Null
       \/ /\ x.status = "succeeded"
          /\ x.reconciliation \in {"not_required", "confirmed_applied"}
          /\ x.attempt >= 1 /\ x.started # Null /\ x.finished # Null
          /\ x.error = "none"
       \/ /\ x.status = "failed" /\ x.reconciliation = "confirmed_not_applied"
          /\ x.finished # Null /\ x.error # "none"
          /\ ErrorIs(x, TRUE) \/ ErrorIs(x, FALSE)
          /\ \/ x.started = Null /\ x.request = Null /\ x.after = Null
             \/ x.started # Null /\ x.attempt >= 1
       \/ /\ x.status = "unresolved" /\ x.reconciliation = "unknown"
          /\ x.attempt >= 1 /\ x.started # Null /\ x.finished # Null
          /\ x.error # "none" /\ ErrorIs(x, FALSE)
    /\ InOrder(x)

TableAttempt(x) ==
    /\ x.attempt >= 1 /\ x.started # Null
    /\ x.status \in {"running", "succeeded", "failed", "unresolved"}
    /\ OptionalErrorJson(x)
    /\ \/ /\ x.status = "running" /\ x.reconciliation = "pending"
          /\ x.finished = Null /\ x.request = Null /\ x.error = "none"
          /\ x.after = Null
       \/ /\ x.status = "succeeded" /\ x.reconciliation = "not_required"
          /\ x.finished # Null /\ x.error = "none"
       \/ /\ x.status = "failed" /\ x.reconciliation = "confirmed_not_applied"
          /\ x.finished # Null /\ x.error # "none"
       \/ /\ x.status = "unresolved" /\ x.reconciliation = "unknown"
          /\ x.finished # Null /\ x.error # "none" /\ ErrorIs(x, FALSE)
    /\ InOrder(x)

TableEvent(x) ==
    /\ x.number >= 1 /\ x.attempt >= 1 /\ x.observed # Null
    /\ x.status \in {"succeeded", "failed", "unresolved"}
    /\ x.reconciliation \in
          {"confirmed_applied", "confirmed_not_applied", "unknown"}
    /\ OptionalErrorJson(x)
    /\ \/ /\ x.status = "succeeded" /\ x.reconciliation = "confirmed_applied"
          /\ x.error = "none"
       \/ /\ x.status = "failed" /\ x.reconciliation = "confirmed_not_applied"
          /\ x.error # "none" /\ ErrorIs(x, TRUE)
       \/ /\ x.status = "unresolved" /\ x.reconciliation = "unknown"
          /\ x.error # "none" /\ ErrorIs(x, FALSE)

TableRun(x) ==
    /\ x.started # Null
    /\ \/ x.state \in {"pending", "running"} /\ x.finished = Null
       \/ x.state \in Closed /\ x.finished # Null
    /\ InOrder(x)

----------------------------------------------------------------------------
(* The triggers; the second migration replaces the two of reconciliation.   *)

InsertedPending(x) ==
    x.status = "pending" /\ x.reconciliation = "not_required" /\ x.attempt = 0

AttemptOfItsRow(row, entry) ==
    /\ row.status = "running" /\ row.reconciliation = "pending"
    /\ row.attempt = entry.attempt
    /\ entry.status = "running" /\ entry.reconciliation = "pending"

Unresolved(x) == x.status = "unresolved" /\ x.reconciliation = "unknown"
NotApplied(x) ==
    x.status = "failed" /\ x.reconciliation = "confirmed_not_applied"

\* An event is of the current attempt, which has ended by then.
OfItsAttempt(row, attempt, event) ==
    /\ row.attempt = event.attempt /\ attempt.attempt = row.attempt
    /\ attempt.finished # Null /\ event.observed >= attempt.finished

EventOfUnresolved(row, attempt, event) ==
    /\ OfItsAttempt(row, attempt, event)
    /\ Unresolved(row) /\ Unresolved(attempt)

EventOfReconcilable(row, attempt, event) ==
    /\ OfItsAttempt(row, attempt, event)
    /\ \/ Unresolved(row) /\ Unresolved(attempt)
       \/ /\ NotApplied(row) /\ row.error = "retryable"
          /\ Unresolved(attempt) \/ NotApplied(attempt)

\* A row that waits for an observation changes as the last one says.
FollowsTheEvent(old, new, event) ==
    Unresolved(old) \/ (NotApplied(old) /\ new.status # "pending") =>
        /\ event.number >= 1
        /\ event.attempt = new.attempt
        /\ event.status = new.status
        /\ event.reconciliation = new.reconciliation
        /\ event.after = new.after
        /\ event.error = new.error
        /\ new.finished = event.observed

----------------------------------------------------------------------------
(* The methods of the repository: what each lets through, and the record it *)
(* leaves.  An input is the outcome to write and when.                      *)

NoAttempt ==
    [attempt |-> 0, status |-> "running", reconciliation |-> "pending",
     after |-> Null, request |-> Null, error |-> "none",
     started |-> Null, finished |-> Null]
NoEvent ==
    [number |-> 0, attempt |-> 0, status |-> "unresolved",
     reconciliation |-> "unknown", after |-> Null, error |-> "final",
     observed |-> Null]
PendingRow(attempt) ==
    [attempt |-> attempt, status |-> "pending",
     reconciliation |-> "not_required", after |-> Null, request |-> Null,
     error |-> "none", started |-> Null, finished |-> Null]

\* createRunOperation.
Created == [row |-> PendingRow(0), attempt |-> NoAttempt, event |-> NoEvent]

Outcomes(Stamp, Value) ==
    [status: Status, reconciliation: Reconciliation, after: Value,
     request: Value, error: Error, finished: Stamp]

\* A row or an attempt that ends with an outcome.
Ended(x, o, start) ==
    [attempt |-> x.attempt, status |-> o.status,
     reconciliation |-> o.reconciliation, after |-> o.after,
     request |-> o.request, error |-> o.error,
     started |-> start, finished |-> o.finished]

\* startRunOperation: one more attempt, in the row and in the log.
CanStart(rec) == rec.row.status = "pending"
Running(attempt, now) ==
    [attempt |-> attempt, status |-> "running", reconciliation |-> "pending",
     after |-> Null, request |-> Null, error |-> "none",
     started |-> now, finished |-> Null]
Start(rec, now) ==
    [row |-> Running(rec.row.attempt + 1, now),
     attempt |-> Running(rec.row.attempt + 1, now), event |-> rec.event]

\* retryRunOperation: pending once more; the logs keep what happened.
CanRetry(rec, max) ==
    NotApplied(rec.row) /\ rec.row.error = "retryable" /\ rec.row.attempt < max
Retry(rec) ==
    [row |-> PendingRow(rec.row.attempt), attempt |-> rec.attempt,
     event |-> rec.event]

\* finishRunOperation: the outcomes its input may have in either phase.
BeforeDispatch(o) ==
    /\ o.after = Null /\ o.request = Null
    /\ \/ o.status = "skipped" /\ o.reconciliation = "not_required" /\ o.error = "none"
       \/ NotApplied(o) /\ o.error # "none"
AfterDispatch(o) ==
    \/ o.status = "succeeded" /\ o.reconciliation = "not_required" /\ o.error = "none"
    \/ NotApplied(o) /\ o.error # "none"
    \/ Unresolved(o) /\ o.error = "final"

\* A row that ends before its dispatch keeps no start.
FinishedUnsent(rec, o) ==
    [row |-> Ended(rec.row, o, Null), attempt |-> rec.attempt,
     event |-> rec.event]
CanFinishUnsent(rec, o) ==
    /\ BeforeDispatch(o)
    /\ rec.row.status = "pending"
    /\ o.finished # Null
    /\ ParsedRow(FinishedUnsent(rec, o).row)

\* After the dispatch the attempt ends with the row.
FinishedSent(rec, o) ==
    [row |-> Ended(rec.row, o, rec.row.started),
     attempt |-> Ended(rec.attempt, o, rec.attempt.started),
     event |-> rec.event]
CanFinishSent(rec, o) ==
    /\ AfterDispatch(o)
    /\ o.finished # Null
    /\ rec.row.started # Null => o.finished >= rec.row.started
    /\ rec.row.status = "running"
    /\ rec.attempt.attempt >= 1 /\ rec.attempt.status = "running"
    /\ ParsedRow(FinishedSent(rec, o).row)

\* reconcileRunOperation: an event, and the row as the event says; the request
\* of the row and its start are left, the attempt is not touched.
EventOf(rec, o) ==
    [number |-> rec.event.number + 1, attempt |-> rec.row.attempt,
     status |-> o.status, reconciliation |-> o.reconciliation,
     after |-> o.after, error |-> o.error, observed |-> o.finished]
Reconciled(rec, o) ==
    [row |-> [attempt |-> rec.row.attempt, status |-> o.status,
              reconciliation |-> o.reconciliation, after |-> o.after,
              request |-> rec.row.request, error |-> o.error,
              started |-> rec.row.started, finished |-> o.finished],
     attempt |-> rec.attempt, event |-> EventOf(rec, o)]
CanReconcile(rec, o) ==
    LET unresolved == Unresolved(rec.row)
        retryableFailed == /\ NotApplied(rec.row) /\ rec.row.error = "retryable"
                           /\ rec.row.attempt >= 1
    IN  /\ rec.attempt.attempt >= 1
        /\ \/ unresolved /\ Unresolved(rec.attempt)
           \/ /\ retryableFailed
              /\ Unresolved(rec.attempt) \/ NotApplied(rec.attempt)
        /\ rec.row.finished # Null => o.finished >= rec.row.finished
        /\ rec.attempt.finished # Null => o.finished >= rec.attempt.finished
        /\ ParsedEvent(EventOf(rec, o))
        /\ ParsedRow(Reconciled(rec, o).row)

\* #recoverOperation: a pending row did not happen, a running one may have.
NeverSent(now) ==
    [status |-> "failed", reconciliation |-> "confirmed_not_applied",
     after |-> Null, request |-> Null, error |-> "retryable", finished |-> now]
Interrupted(now) ==
    [status |-> "unresolved", reconciliation |-> "unknown",
     after |-> Null, request |-> Null, error |-> "final", finished |-> now]
Recovered(rec, now) ==
    CASE rec.row.status = "pending" -> FinishedUnsent(rec, NeverSent(now))
      [] rec.row.status = "running" -> FinishedSent(rec, Interrupted(now))
      [] OTHER                      -> rec
CanRecover(rec, now) ==
    rec.row.status = "running" =>
        /\ rec.row.started # Null /\ now >= rec.row.started
        /\ rec.attempt.attempt >= 1 /\ rec.attempt.status = "running"
        /\ now >= rec.attempt.started

\* compareAndSetRunState, which goes by the table of transitions, and #recoverRun,
\* which does not.
Transitions ==
    {<<"pending", "running">>, <<"running", "completed">>, <<"running", "partial">>,
     <<"running", "failed">>, <<"partial", "running">>}
CanMoveRun(x, next, finished) ==
    /\ <<x.state, next>> \in Transitions
    /\ next \in Closed <=> finished # Null
    /\ finished # Null => finished >= x.started
CanRecoverRun(x, now) ==
    x.state \in {"pending", "running"} /\ now # Null /\ now >= x.started
MovedRun(x, next, finished) ==
    [state |-> next, started |-> x.started, finished |-> finished]

\* One call of a method that writes: its input, and the record before and after.
WriteIn(Stamp, Value, Count, rec, new) ==
    \/ \E now \in Stamp \ {Null} :
          \/ CanStart(rec) /\ new = Start(rec, now)
          \/ CanRecover(rec, now) /\ new = Recovered(rec, now)
    \/ \E max \in Count : CanRetry(rec, max) /\ new = Retry(rec)
    \/ \E o \in Outcomes(Stamp, Value) :
          \/ CanFinishUnsent(rec, o) /\ new = FinishedUnsent(rec, o)
          \/ CanFinishSent(rec, o) /\ new = FinishedSent(rec, o)
          \/ CanReconcile(rec, o) /\ new = Reconciled(rec, o)
Write(rec, new) == WriteIn(Nat, Nat, Nat, rec, new)

----------------------------------------------------------------------------
(* What is promised of them.                                                *)

\* SQLite lets the write through: every entry that is new or changed satisfies
\* its table, and the triggers that see it are content.
Accepted(old, new) ==
    /\ TableRow(new.row)
    /\ new.attempt # old.attempt => TableAttempt(new.attempt)
    /\ new.attempt.attempt # old.attempt.attempt =>
          /\ new.attempt.attempt > old.attempt.attempt
          /\ AttemptOfItsRow(new.row, new.attempt)
    /\ new.event # old.event =>
          /\ new.event.number > old.event.number
          /\ TableEvent(new.event)
          /\ EventOfReconcilable(old.row, old.attempt, new.event)
    /\ new.row # old.row => FollowsTheEvent(old.row, new.row, new.event)

\* The repository reads back what is on record.
Readable(rec) ==
    /\ ParsedRow(rec.row)
    /\ rec.attempt.attempt >= 1 => ParsedAttempt(rec.attempt)
    /\ rec.event.number >= 1 => ParsedEvent(rec.event)

\* An attempt that has ended is history.
KeepsHistory(old, new) ==
    old.attempt.attempt >= 1 /\ old.attempt.status # "running" =>
        \/ new.attempt = old.attempt
        \/ new.attempt.attempt = old.attempt.attempt + 1

\* The row and the last attempt belong together.
Sound(rec) ==
    /\ Readable(rec)
    /\ rec.attempt.attempt = rec.row.attempt
    /\ rec.event.attempt <= rec.row.attempt
    /\ rec.row.attempt >= 1 =>
          \/ /\ rec.row.status = "running" /\ rec.attempt.status = "running"
             /\ rec.attempt.started = rec.row.started
          \/ rec.row.status = "succeeded" /\ rec.attempt.status # "running"
          \/ /\ rec.row.status \notin {"running", "succeeded"}
             /\ rec.attempt.status \in {"failed", "unresolved"}
=============================================================================
