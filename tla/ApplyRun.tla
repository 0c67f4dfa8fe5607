------------------------------ MODULE ApplyRun ------------------------------
(***************************************************************************)
(* stars_apply: the application of one change plan by several apply calls   *)
(* (app/services/apply-service.ts) against the durable plan, run and        *)
(* operation rows (storage/plan-run-repository.ts) and the GitHub account.  *)
(*                                                                          *)
(* A request is one apply call, with a lease owner id of its own; the calls *)
(* run in one or several processes and may crash at any await.  The lease   *)
(* is the one of module Lease, reduced to its holder; an expired row is no  *)
(* row.  Every action that writes rows is one SQLite transaction, guarded   *)
(* by the lease; what a request remembers between awaits is pc, pos, seen.  *)
(* The request's in-memory map of rows equals the table while it holds the  *)
(* lease, and no longer matters when it does not, so rows are read directly.*)
(***************************************************************************)
EXTENDS Integers, FiniteSets

CONSTANTS
    Op,             \* the operations of the plan
    N,              \* how many there are
    Order,          \* 1..N -> Op, the topological order the plan fixes
    Deps,           \* Op -> SUBSET Op, dependsOn
    Creates,        \* the operations of kind list_create
    Request,        \* the apply calls
    None,           \* no request
    StopMode,       \* the run's failure mode: TRUE "stop", FALSE "continue"
    MaxAttempts,    \* dispatches allowed for one operation (3 in the code)
    MaxEdits,       \* bound: changes made to the account by somebody else
    HonestTransport,\* TRUE: an error that says "not applied" is right, as it is
                    \* but for one case (Serving, PromiseButForTheGate)
    Repeats         \* TRUE: a request that has ended stands for a later call

ASSUME ApplyAssumption ==
    /\ N \in Nat
    /\ Order \in [1..N -> Op]
    /\ \A o \in Op : \E i \in 1..N : Order[i] = o
    /\ Deps \in [Op -> SUBSET Op]
    /\ Creates \subseteq Op
    /\ None \notin Request
    /\ StopMode \in BOOLEAN
    /\ MaxAttempts \in Nat \ {0}
    /\ MaxEdits \in Nat
    /\ HonestTransport \in BOOLEAN
    /\ Repeats \in BOOLEAN

VARIABLES
    plan,       \* durable: the plan's state
    run,        \* durable: the plan's only run, its state and lease owner
    row,        \* durable: the operation rows with their current attempt
    holder,     \* durable: the owner of the active lease row
    live,       \* remote: how the target compares with before and after
    inflight,   \* remote: <<op, r>>, a mutation of r that may still land
    landed,     \* history: how often a mutation of ours took effect
    edits,      \* how many external edits were made
    outdated,   \* the plan's expiresAt has passed
    pc,         \* where each request is
    pos,        \* its position in Order
    seen,       \* what its last await returned
    signal,     \* why its abort signal fired: "abort" (the caller, a
                \* shutdown, a failed heartbeat), "lost" (the lease), or "none"
    fresh       \* history: the operations whose row it wrote since its claim

durable == <<plan, run, row>>
remote == <<live, inflight, landed, edits>>
local == <<pc, pos, seen, signal, fresh>>
vars == <<plan, run, row, holder, live, inflight, landed, edits, outdated,
          pc, pos, seen, signal, fresh>>

Status == {"absent", "pending", "running", "skipped", "succeeded", "failed",
           "unresolved"}
Attempt == {"none", "running", "succeeded", "failed", "unresolved"}
\* started: startedAt is set.
RowType == [status: Status, retryable: BOOLEAN, attempts: Nat, last: Attempt,
            started: BOOLEAN]
Active == {"acquired", "reconciling", "observed", "executing", "blocking",
           "pacing", "decided", "gated", "sent", "recording", "closing"}
PC == Active \cup {"idle", "leaving", "ended", "crashed"}
Seen == {"nothing", "after", "before", "other", "transient", "landed",
         "dropped", "verified", "rejected", "unknown"}

TypeOK ==
    /\ plan \in {"ready", "applying", "partial", "applied"}
    /\ run \in [state: {"none", "running", "partial", "completed"},
                owner: Request \cup {None}]
    /\ row \in [Op -> RowType]
    /\ holder \in Request \cup {None}
    /\ live \in [Op -> {"before", "after", "other"}]
    /\ inflight \subseteq Op \X Request
    /\ landed \in [Op -> Nat]
    /\ edits \in Nat
    /\ outdated \in BOOLEAN
    /\ pc \in [Request -> PC]
    /\ pos \in [Request -> 1..N + 1]
    /\ seen \in [Request -> Seen]
    /\ signal \in [Request -> {"none", "abort", "lost"}]
    /\ fresh \in [Request -> SUBSET Op]

NoRow == [status |-> "absent", retryable |-> FALSE, attempts |-> 0,
          last |-> "none", started |-> FALSE]

Init ==
    /\ plan = "ready"
    /\ run = [state |-> "none", owner |-> None]
    /\ row = [o \in Op |-> NoRow]
    /\ holder = None
    /\ live = [o \in Op |-> "before"]
    /\ inflight = {}
    /\ landed = [o \in Op |-> 0]
    /\ edits = 0
    /\ outdated = FALSE
    /\ pc = [r \in Request |-> "idle"]
    /\ pos = [r \in Request |-> 1]
    /\ seen = [r \in Request |-> "nothing"]
    /\ signal = [r \in Request |-> "none"]
    /\ fresh = [r \in Request |-> {}]

----------------------------------------------------------------------------
(* Mutated conditions: each is a plausible bug that some run rejects.       *)

ReconcilableIfUnresolved(x) == x.status = "unresolved"
QueuedAsItWas(x) == [x EXCEPT !.status = "pending", !.retryable = FALSE]
ReconciledUnlessSeen(x, observation) ==
    [x EXCEPT !.status = IF observation = "after" THEN "succeeded" ELSE "failed",
              !.retryable = observation # "after"]
RecoveredAsNeverSent(x) ==
    IF x.status \in {"pending", "running"}
      THEN [x EXCEPT !.status = "failed", !.retryable = TRUE]
      ELSE x
CompleteSoFar ==
    \A o \in Op : row[o].status \in {"succeeded", "skipped", "absent"}
DepsAttempted(o) == \A d \in Deps[o] : row[d].status # "absent"
NextOrStopInPlace(r) ==
    /\ pc' = [pc EXCEPT ![r] = IF StopMode THEN "closing" ELSE "executing"]
    /\ UNCHANGED pos

----------------------------------------------------------------------------
(* Rows: the conditions and the updates of the repository.                  *)

Done(x) == x.status \in {"succeeded", "skipped"}
Open(x) == x.status \in {"pending", "running"}

\* The rows that phase one of a resumed apply must look at again.
Reconcilable(x) ==
    \/ x.status = "unresolved"
    \/ x.status = "failed" /\ x.retryable /\ x.attempts >= 1

\* The rows retryRunOperation may queue.
Retryable(x) == x.status = "failed" /\ x.retryable /\ x.attempts < MaxAttempts

\* createRunOperation and retryRunOperation leave the row pending.
Queued(x) ==
    [x EXCEPT !.status = "pending", !.retryable = FALSE, !.started = FALSE]

\* startRunOperation: one more attempt, running in the row and in the log.
Started(x) ==
    [x EXCEPT !.status = "running", !.attempts = @ + 1, !.last = "running",
              !.started = TRUE]

\* finishRunOperation, before_dispatch: no attempt is touched.
Settled(x, status, retryable) ==
    [x EXCEPT !.status = status, !.retryable = retryable]

\* finishRunOperation, after_dispatch: the current attempt ends as the row.
Finished(x, status) ==
    [x EXCEPT !.status = status, !.retryable = FALSE, !.last = status]

\* The legal lifecycle matrix of parseRunOperation: every row that is read or
\* written goes through it.  A decision has a state to put into "after", which
\* no row without startedAt may have.
Legal(x) ==
    /\ x.status \in {"pending", "skipped"} => ~x.started
    /\ x.status \in {"running", "succeeded", "unresolved"} => x.started
    /\ x.started => x.attempts >= 1
TakesADecision(x) == x.started /\ x.attempts >= 1

\* reconcileRunOperation: the row follows the observation; the attempt stays.
Reconciled(x, observation) ==
    CASE observation = "after"  -> Settled(x, "succeeded", FALSE)
      [] observation = "before" -> Settled(x, "failed", TRUE)
      [] OTHER                  -> Settled(x, "unresolved", FALSE)

\* #recoverOperation: what never started did not happen, what started may have.
RecoveredRow(x) ==
    CASE x.status = "pending" -> Settled(x, "failed", TRUE)
      [] x.status = "running" -> Finished(x, "unresolved")
      [] OTHER                -> x

Complete == \A o \in Op : Done(row[o])

----------------------------------------------------------------------------
(* The lease and the loop, as a request sees them.                          *)

Aborted(r) == signal[r] = "abort"
Lost(r) == signal[r] = "lost"
Fire(r, cause) == signal' = [signal EXCEPT ![r] = cause]

\* The storage guard: the active lease row and the run are the request's.
CanWrite(r) == holder = r /\ ~Lost(r) /\ run.owner = r

Current(r) == Order[pos[r]]
InRange(r) == pos[r] <= N

DepsDone(o) == \A d \in Deps[o] : Done(row[d])

Goto(r, label) == pc' = [pc EXCEPT ![r] = label]
Note(r, value) == seen' = [seen EXCEPT ![r] = value]
Advance(r) == pos' = [pos EXCEPT ![r] = @ + 1]

\* Write the row of the current operation, on record as written by r.
Write(r, x) ==
    /\ row' = [row EXCEPT ![Current(r)] = x]
    /\ fresh' = [fresh EXCEPT ![r] = @ \cup {Current(r)}]

\* After an operation that did not succeed: "stop" ends the loop.
NextOrStop(r) ==
    IF StopMode THEN Goto(r, "closing") /\ UNCHANGED pos
                ELSE Goto(r, "executing") /\ Advance(r)

----------------------------------------------------------------------------
(* Admission and claim.                                                     *)

\* Admission: an applied plan is answered from its completed run, an expired
\* one refused; LeaseScope.acquire then takes the lease or fails.
Acquire(r) ==
    /\ pc[r] = "idle"
    /\ IF holder = None /\ ~outdated /\ plan # "applied"
         THEN holder' = r /\ Goto(r, "acquired")
         ELSE Goto(r, "ended") /\ UNCHANGED holder
    /\ UNCHANGED <<durable, remote, outdated, pos, seen, signal, fresh>>

\* compareAndSetPlanState: by the table of the transitions of a plan.
PlanTransitions ==
    {<<"ready", "applying">>, <<"ready", "expired">>, <<"ready", "superseded">>,
     <<"applying", "applied">>, <<"applying", "partial">>,
     <<"applying", "failed">>, <<"partial", "applying">>}
SetPlan(current, expected, next) ==
    /\ current = expected
    /\ <<expected, next>> \in PlanTransitions
    /\ plan' = next

\* The claim transaction: recover what an earlier owner left (its lease is
\* gone, for r holds it), then create the run or resume the partial one.  A
\* refused claim rolls the recovery back.
Claim(r) ==
    LET abandoned == run.state = "running"
        recovered == IF abandoned THEN [o \in Op |-> RecoveredRow(row[o])]
                                  ELSE row
        found == IF abandoned THEN "partial" ELSE plan
    IN  /\ pc[r] = "acquired"
        /\ holder = r /\ ~Lost(r)
        /\ IF Aborted(r) \/ outdated \/ run.state = "completed"
             THEN Goto(r, "leaving") /\ UNCHANGED durable
             ELSE /\ row' = recovered
                  /\ SetPlan(found, IF run.state = "none" THEN "ready" ELSE "partial",
                             "applying")
                  /\ run' = [state |-> "running", owner |-> r]
                  /\ Goto(r, "reconciling")
        /\ UNCHANGED <<remote, holder, outdated, pos, seen, signal, fresh>>

----------------------------------------------------------------------------
(* Phase one: a fresh decision for every reconcilable row.                  *)

\* The loop of phase one over a row that needs nothing, and its end.
PassOver(r) ==
    /\ pc[r] = "reconciling"
    /\ IF InRange(r)
         THEN ~Reconcilable(row[Current(r)]) /\ Advance(r) /\ UNCHANGED pc
         ELSE pos' = [pos EXCEPT ![r] = 1] /\ Goto(r, "executing")
    /\ UNCHANGED <<durable, remote, holder, outdated, seen, signal, fresh>>

\* reconcileOperation reads the target; a failed read counts as "other".
Observe(r) ==
    /\ pc[r] = "reconciling" /\ InRange(r)
    /\ Reconcilable(row[Current(r)])
    /\ CanWrite(r)
    /\ IF Aborted(r)
         THEN Goto(r, "closing") /\ UNCHANGED seen
         ELSE /\ Goto(r, "observed")
              /\ \E value \in {live[Current(r)], "other"} : Note(r, value)
    /\ UNCHANGED <<durable, remote, holder, outdated, pos, signal, fresh>>

\* The decision is persisted, unless the call was aborted during the read, or
\* the row cannot take it: the error ends the call.
Reconcile(r) ==
    /\ pc[r] = "observed"
    /\ CanWrite(r)
    /\ IF Aborted(r) \/ ~TakesADecision(row[Current(r)])
         THEN Goto(r, "closing") /\ UNCHANGED <<row, fresh, pos>>
         ELSE /\ Write(r, Reconciled(row[Current(r)], seen[r]))
              /\ Advance(r)
              /\ Goto(r, "reconciling")
    /\ Note(r, "nothing")
    /\ UNCHANGED <<plan, run, remote, holder, outdated, signal>>

----------------------------------------------------------------------------
(* Phase two: the scheduling of one operation after the other.              *)

\* The loop steps over a done row, and stops or goes on at a row that can
\* not be scheduled now: blocked and already recorded, or not retryable.
StepOver(r) ==
    /\ pc[r] = "executing"
    /\ \/ ~InRange(r) /\ Goto(r, "closing") /\ UNCHANGED pos
       \/ /\ InRange(r)
          /\ Done(row[Current(r)])
          /\ Advance(r) /\ UNCHANGED pc
       \/ /\ InRange(r)
          /\ LET x == row[Current(r)]
             IN  /\ x.status # "absent" /\ ~Done(x)
                 /\ ~DepsDone(Current(r)) \/ ~Retryable(x)
          /\ NextOrStop(r)
    /\ UNCHANGED <<durable, remote, holder, outdated, seen, signal, fresh>>

\* The write-ahead row of an operation met for the first time.
WriteAhead(r) ==
    /\ pc[r] = "executing" /\ InRange(r)
    /\ row[Current(r)].status = "absent"
    /\ CanWrite(r)
    /\ Write(r, Queued(row[Current(r)]))
    /\ Goto(r, IF DepsDone(Current(r)) THEN "pacing" ELSE "blocking")
    /\ UNCHANGED <<plan, run, remote, holder, outdated, pos, seen, signal>>

\* recordDependencyBlocked finishes the row it has just created.
RecordBlocked(r) ==
    /\ pc[r] = "blocking"
    /\ CanWrite(r)
    /\ Write(r, Settled(row[Current(r)], "failed", TRUE))
    /\ NextOrStop(r)
    /\ UNCHANGED <<plan, run, remote, holder, outdated, seen, signal>>

\* A retryable row is queued again, after the wait its error asks for.
Retry(r) ==
    /\ pc[r] = "executing" /\ InRange(r)
    /\ Retryable(row[Current(r)]) /\ DepsDone(Current(r))
    /\ CanWrite(r)
    /\ IF Aborted(r)
         THEN Goto(r, "closing") /\ UNCHANGED <<row, fresh>>
         ELSE Write(r, Queued(row[Current(r)])) /\ Goto(r, "pacing")
    /\ UNCHANGED <<plan, run, remote, holder, outdated, pos, seen, signal>>

\* The pacer's prepare callback reads the target just before the dispatch; a
\* list_create has no target yet and reads nothing.
Prepare(r) ==
    /\ pc[r] = "pacing"
    /\ ~Aborted(r)
    /\ \E value \in IF Current(r) \in Creates
                      THEN {"before"}
                      ELSE {live[Current(r)], "other", "transient"} :
         Note(r, value)
    /\ Goto(r, "decided")
    /\ UNCHANGED <<durable, remote, holder, outdated, pos, signal, fresh>>

\* No dispatch: already as desired (skipped), changed by somebody or an
\* attempt that cannot be stored (failed), unreadable for now (retryable).
Decline(r) ==
    /\ pc[r] = "decided"
    /\ CanWrite(r)
    /\ IF seen[r] = "after"
         THEN /\ Write(r, Settled(row[Current(r)], "skipped", FALSE))
              /\ Goto(r, "executing") /\ Advance(r)
         ELSE /\ Write(r, Settled(row[Current(r)], "failed",
                                  seen[r] = "transient"))
              /\ NextOrStop(r)
    /\ Note(r, "nothing")
    /\ UNCHANGED <<plan, run, remote, holder, outdated, signal>>

\* An abort before the dispatch: the row is failed and retryable, the call ends.
AbandonBeforeDispatch(r) ==
    /\ pc[r] \in {"pacing", "decided"}
    /\ Aborted(r)
    /\ CanWrite(r)
    /\ Write(r, Settled(row[Current(r)], "failed", TRUE))
    /\ Goto(r, "closing")
    /\ Note(r, "nothing")
    /\ UNCHANGED <<plan, run, remote, holder, outdated, pos, signal>>

\* The dispatch callback: lease renewed, attempt opened, and the mutation
\* handed to the transport, which first awaits the rate gate.  Between the attempt
\* and the hand-over nothing awaits, so only the clock can end the call there
\* (LoseLease): its catch asks the same lease again and leaves the row as it is.
Start(r) ==
    /\ pc[r] = "decided" /\ seen[r] = "before"
    /\ ~Aborted(r)
    /\ CanWrite(r)
    /\ row[Current(r)].status = "pending"
    /\ Write(r, Started(row[Current(r)]))
    /\ Goto(r, "gated")
    /\ Note(r, "nothing")
    /\ UNCHANGED <<plan, run, remote, holder, outdated, pos, signal>>

\* The gate opens: only the abort signal, which a noticed loss of the lease
\* fires too, keeps the request from being sent.
Send(r) ==
    /\ pc[r] = "gated"
    /\ signal[r] = "none"
    /\ inflight' = inflight \cup {<<Current(r), r>>}
    /\ Goto(r, "sent")
    /\ UNCHANGED <<durable, live, landed, edits, holder, outdated, pos, seen,
                   signal, fresh>>

\* The gate refuses, or the signal fired at it: nothing was sent.  The
\* attempt was opened, so a cancellation is recorded as an unknown outcome.
RefusedAtGate(r) ==
    /\ pc[r] = "gated"
    /\ Note(r, IF Aborted(r) THEN "unknown" ELSE "rejected")
    /\ Goto(r, "recording")
    /\ UNCHANGED <<durable, remote, holder, outdated, pos, signal, fresh>>

\* The read-back of an accepted mutation; a created list is read by its own
\* id, even where another list has the same metadata.
Verifiable(o) == live[o] = "after" \/ (o \in Creates /\ live[o] = "other")

\* What the transport and the read-back make of the answer.  An accepted
\* mutation is verified by a read; a status GitHub refuses with is final, if
\* it is not one to retry; everything else is unknown.
Answer(r) ==
    /\ pc[r] = "sent"
    /\ \/ seen[r] = "landed" /\ Verifiable(Current(r)) /\ Note(r, "verified")
       \/ seen[r] = "dropped" /\ ~Aborted(r) /\ Note(r, "rejected")
       \/ ~HonestTransport /\ ~Aborted(r) /\ Note(r, "rejected")
       \/ Note(r, "unknown")
    /\ Goto(r, "recording")
    /\ UNCHANGED <<durable, remote, holder, outdated, pos, signal, fresh>>

\* The outcome is written to the attempt and to the row.
Record(r) ==
    LET status == CASE seen[r] = "verified" -> "succeeded"
                    [] seen[r] = "rejected" -> "failed"
                    [] OTHER                -> "unresolved"
    IN  /\ pc[r] = "recording"
        /\ CanWrite(r)
        /\ row[Current(r)].status = "running"
        /\ Write(r, Finished(row[Current(r)], status))
        /\ Note(r, "nothing")
        /\ IF status = "succeeded" THEN Goto(r, "executing") /\ Advance(r)
           ELSE \/ Aborted(r) /\ Goto(r, "closing") /\ UNCHANGED pos
                \/ NextOrStop(r)
        /\ UNCHANGED <<plan, run, remote, holder, outdated, signal>>

----------------------------------------------------------------------------
(* The end of a call.                                                       *)

\* finalizeRun derives the states of the run and of the plan from the rows;
\* a run with open rows is left running, for recovery.
Finalize(r) ==
    /\ pc[r] = "closing"
    /\ CanWrite(r)
    /\ IF \E o \in Op : Open(row[o])
         THEN UNCHANGED <<plan, run>>
         ELSE /\ run' = [run EXCEPT !.state = IF Complete THEN "completed"
                                                          ELSE "partial"]
              /\ SetPlan(plan, "applying", IF Complete THEN "applied" ELSE "partial")
    /\ Goto(r, "leaving")
    /\ UNCHANGED <<row, remote, holder, outdated, pos, seen, signal, fresh>>

\* Every guarded write of a request that no longer owns the lease throws:
\* the call ends and leaves its rows as they are.
Unwind(r) ==
    /\ pc[r] \in Active
    /\ ~(holder = r /\ ~Lost(r))
    /\ Fire(r, "lost")
    /\ Goto(r, "leaving")
    /\ UNCHANGED <<durable, remote, holder, outdated, pos, seen, fresh>>

\* What the safety window and the lease's duration are for: when they have
\* passed, no mutation of the request is on its way any more.
Quiet(r) == \A o \in Op : <<o, r>> \notin inflight

\* The memory of a call ends with it.
Forget(r) ==
    /\ pos' = [pos EXCEPT ![r] = 1]
    /\ Note(r, "nothing")
    /\ Fire(r, "none")
    /\ fresh' = [fresh EXCEPT ![r] = {}]

\* Cleanup: the safety window passes, then the lease is released if it is
\* still owned; it is kept until it expires if the wait failed.
Leave(r) ==
    /\ pc[r] = "leaving"
    /\ \/ holder = r /\ ~Lost(r) /\ Quiet(r) /\ holder' = None
       \/ UNCHANGED holder
    /\ Goto(r, "ended")
    /\ Forget(r)
    /\ UNCHANGED <<durable, remote, outdated>>

----------------------------------------------------------------------------
(* The surroundings.                                                        *)

\* The caller aborts, the server shuts down, or a heartbeat cannot be stored.
Abort(r) ==
    /\ pc[r] \in Active
    /\ signal[r] = "none"
    /\ Fire(r, "abort")
    /\ UNCHANGED <<durable, remote, holder, outdated, pc, pos, seen, fresh>>

\* A heartbeat is refused: the scope is lost and its signal fires.
LoseLease(r) ==
    /\ pc[r] \in Active
    /\ ~Lost(r)
    /\ Fire(r, "lost")
    /\ UNCHANGED <<durable, remote, holder, outdated, pc, pos, seen, fresh>>

\* A write fails for reasons of its own: the error ends the loop (and the
\* claim, and finalizeRun) with the rows as they are.
StorageFails(r) ==
    /\ pc[r] \in {"acquired", "observed", "executing", "blocking", "decided",
                  "recording", "closing"}
    /\ Goto(r, IF pc[r] \in {"acquired", "closing"} THEN "leaving"
                                                    ELSE "closing")
    /\ UNCHANGED <<durable, remote, holder, outdated, pos, seen, signal, fresh>>

Crash(r) ==
    /\ pc[r] \in Active \cup {"leaving"}
    /\ Goto(r, "crashed")
    /\ Forget(r)
    /\ UNCHANGED <<durable, remote, holder, outdated>>

\* A later call, in the same or a restarted process.  It has a lease owner id
\* of its own, so r stands for it when nothing of the earlier call is left.
CallAgain(r) ==
    /\ Repeats
    /\ pc[r] \in {"ended", "crashed"}
    /\ holder # r /\ run.owner # r /\ Quiet(r)
    /\ Goto(r, "idle")
    /\ UNCHANGED <<durable, remote, holder, outdated, pos, seen, signal, fresh>>

\* Mutation: only a process that died lets its lease expire.
LeaseExpiresAfterCrash ==
    /\ holder # None
    /\ pc[holder] = "crashed"
    /\ Quiet(holder)
    /\ holder' = None
    /\ UNCHANGED <<durable, remote, outdated, local>>

\* A lease nobody renews expires.
LeaseExpires ==
    /\ holder # None
    /\ pc[holder] \in {"ended", "crashed"} \/ Lost(holder)
    /\ Quiet(holder)
    /\ holder' = None
    /\ UNCHANGED <<durable, remote, outdated, local>>

\* Mutation: the recovery takes the runs whose lease is active.
RecoverOwnedRuns ==
    /\ run.state = "running"
    /\ holder = run.owner
    /\ row' = [o \in Op |-> RecoveredRow(row[o])]
    /\ run' = [run EXCEPT !.state = "partial"]
    /\ plan' = "partial"
    /\ UNCHANGED <<remote, holder, outdated, local>>

\* The server starts: recoverInterruptedRuns takes the runs whose own lease
\* is not active.
RecoverAtStartup ==
    /\ run.state = "running"
    /\ holder # run.owner
    /\ row' = [o \in Op |-> RecoveredRow(row[o])]
    /\ run' = [run EXCEPT !.state = "partial"]
    /\ plan' = "partial"
    /\ UNCHANGED <<remote, holder, outdated, local>>

PlanExpires ==
    /\ ~outdated
    /\ outdated' = TRUE
    /\ UNCHANGED <<durable, remote, holder, local>>

\* GitHub executes a mutation on the wire: a second list of the same
\* metadata makes the created list ambiguous, every other one is idempotent.
Land(o, r) ==
    /\ <<o, r>> \in inflight
    /\ inflight' = inflight \ {<<o, r>>}
    /\ landed' = [landed EXCEPT ![o] = @ + 1]
    /\ live' = [live EXCEPT ![o] = IF o \in Creates /\ @ # "before"
                                     THEN "other" ELSE "after"]
    /\ seen' = IF pc[r] = "sent" /\ Current(r) = o
                 THEN [seen EXCEPT ![r] = "landed"] ELSE seen
    /\ UNCHANGED <<durable, edits, holder, outdated, pc, pos, signal, fresh>>

\* GitHub refuses it, or it never arrives.
Drop(o, r) ==
    /\ <<o, r>> \in inflight
    /\ inflight' = inflight \ {<<o, r>>}
    /\ seen' = IF pc[r] = "sent" /\ Current(r) = o
                 THEN [seen EXCEPT ![r] = "dropped"] ELSE seen
    /\ UNCHANGED <<durable, live, landed, edits, holder, outdated, pc, pos,
                   signal, fresh>>

\* The user changes the account on another device.
Edit(o) ==
    /\ edits < MaxEdits
    /\ edits' = edits + 1
    /\ \E value \in {"before", "after", "other"} \ {live[o]} :
         live' = [live EXCEPT ![o] = value]
    /\ UNCHANGED <<durable, inflight, landed, holder, outdated, local>>

\* What a request does; once its scope is lost, nothing it still does before
\* it notices reaches the table or the account.
Step(r) ==
    \/ /\ ~Lost(r)
       /\ \/ Acquire(r) \/ Claim(r) \/ PassOver(r) \/ Observe(r) \/ Reconcile(r)
          \/ StepOver(r) \/ WriteAhead(r) \/ RecordBlocked(r) \/ Retry(r)
          \/ Prepare(r) \/ Decline(r) \/ AbandonBeforeDispatch(r) \/ Start(r)
          \/ Send(r) \/ RefusedAtGate(r) \/ Answer(r) \/ Record(r)
          \/ Finalize(r)
    \/ Unwind(r) \/ Leave(r)

Disturb(r) == Abort(r) \/ LoseLease(r) \/ StorageFails(r) \/ Crash(r)

Network == \E o \in Op, r \in Request : Land(o, r) \/ Drop(o, r)

Next ==
    \/ \E r \in Request : Step(r) \/ Disturb(r) \/ CallAgain(r)
    \/ LeaseExpires \/ RecoverAtStartup \/ PlanExpires
    \/ Network
    \/ \E o \in Op : Edit(o)

Spec == Init /\ [][Next]_vars

\* A call that does not crash goes on (the event loop), a mutation on the
\* wire arrives or fails, an abandoned lease expires with time, and somebody
\* starts the server again.
Fairness ==
    /\ \A r \in Request : WF_vars(Step(r))
    /\ WF_vars(Network)
    /\ WF_vars(LeaseExpires)
    /\ WF_vars(RecoverAtStartup)

FairSpec == Spec /\ Fairness

----------------------------------------------------------------------------
(* Properties.                                                              *)

\* Rows, run and plan tell one story after every transaction: a run that is
\* not running has no row that may still be worked on, the plan's state is
\* the run's, and a plan is "applied" only when every operation is done
\* (finalizeRun, #recoverRun).
RunIsConsistent ==
    /\ run.state # "running" => \A o \in Op : ~Open(row[o])
    /\ <<run.state, plan>> \in {<<"none", "ready">>, <<"running", "applying">>,
                                <<"partial", "partial">>, <<"completed", "applied">>}
    /\ run.state = "completed" => \A o \in Op : Done(row[o])

\* The row and the attempt log agree: an operation that is running, and only
\* one, has its last attempt running, what is unresolved or failed after a
\* reconciliation was attempted before, and nothing is dispatched more often
\* than allowed (retryRunOperation's maxAttempts).
AttemptsAreBounded ==
    \A o \in Op :
        /\ row[o].attempts <= MaxAttempts
        /\ row[o].status = "pending" => row[o].attempts < MaxAttempts
        /\ (row[o].status = "running") = (row[o].last = "running")
        /\ row[o].status \in {"unresolved", "running"} => row[o].attempts >= 1

\* Every row on record is one that the repository accepts when it reads it: one
\* that is not would fail listRunOperations, and with it every later apply,
\* recovery and inspection of the run (parseRunOperation).
RowsAreLegal == \A o \in Op : row[o].status # "absent" => Legal(row[o])

\* A partial run can be resumed: whatever row is left to phase one takes the
\* decision its look at the account leads to (APPLY-11, reconcileForResume).
ResumeIsPossible == \A o \in Op : Reconcilable(row[o]) => TakesADecision(row[o])

\* When nobody else touches the account, crashes, lost leases, unknown answers
\* and resumed calls never make one operation take effect twice.
AtMostOneEffect == \A o \in Op : landed[o] <= 1

\* When nobody else touches the account, a row that says "failed" is right
\* that nothing was applied, and a row that says it was done is right too.
OutcomesAreTrue ==
    \A o \in Op :
        /\ row[o].status \in {"failed", "absent", "pending"} => landed[o] = 0
        /\ Done(row[o]) => live[o] = "after"

\* A resumed call owes a fresh look at the account to every row that was
\* dispatched before: none is queued again without it, and no mutation leaves
\* while one still waits for it (the comment on phase one).
OwesALook(r, o) ==
    /\ o \notin fresh[r]
    /\ row[o].attempts >= 1
    /\ row[o].status = "unresolved" \/ (row[o].status = "failed" /\ row[o].retryable)

NoBlindDispatch ==
    [][\A r \in Request :
          /\ pc[r] = "gated" /\ pc'[r] = "sent" => \A o \in Op : ~OwesALook(r, o)
          /\ pc[r] = "executing" /\ pc'[r] = "pacing" => ~OwesALook(r, Current(r))]_vars

\* A done or refused operation is not touched by any later call, crash or
\* recovery.
DoneIsFinal ==
    [][\A o \in Op :
          Done(row[o]) \/ (row[o].status = "failed" /\ ~row[o].retryable) =>
              row'[o] = row[o]]_vars

\* Every apply call ends, unless its process dies.
EveryCallEnds ==
    \A r \in Request : (pc[r] \in Active) ~> (pc[r] \in {"ended", "crashed"})

\* A run does not stay "running" for ever: its own call closes it, or the next
\* claim, or the recovery of the next start.
RunsAreClosed == (run.state = "running") ~> (run.state # "running")

\* The account lease does not leak, whatever becomes of its owner.
LeaseIsGivenBack == \A r \in Request : (holder = r) ~> (holder # r)

----------------------------------------------------------------------------
(* The contract: rows, run and wire implement ChangeLedger.                 *)

LedgerStatus(x) ==
    CASE Done(x)                               -> "done"
      [] x.status \in {"running", "unresolved"} -> "doubt"
      [] x.status = "failed" /\ ~x.retryable   -> "refused"
      [] OTHER                                 -> "open"

Ledger == INSTANCE ChangeLedger WITH
    state  <- run.state,
    status <- [o \in Op |-> LedgerStatus(row[o])],
    wire   <- {o \in Op : \E r \in Request : <<o, r>> \in inflight}

\* The steps of all calls, crashes and recoveries together keep the contract.
KeepsTheLedger == Ledger!Spec
============================================================================
