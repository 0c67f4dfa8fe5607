------------------------------ MODULE Dispatch ------------------------------
(***************************************************************************)
(* One dispatch of one operation of a plan, from the read of its            *)
(* precondition to the outcome on record: apply-service.ts                  *)
(* (executePendingOperation) calls the executor (mutation-executor.ts),     *)
(* that the adapter (github/octokit-github-adapter.ts), and that the        *)
(* transport (github/octokit-client.ts), each of which decides what an      *)
(* answer, an error or an abort says of the mutation.                       *)
(*                                                                          *)
(* GitHub, and the owner of the account, act at any moment.  That the call  *)
(* may lose its lease or die, and what a later call makes of the record, is *)
(* in ApplyRun, which takes the whole of this module for four steps.        *)
(***************************************************************************)
EXTENDS Replies, FiniteSets

CONSTANTS
    Answers,    \* what GitHub may answer
    MaxEdits    \* bound: changes made to the target by somebody else

Starring == {"star", "unstar"}              \* by REST; all others by GraphQL
Kind == Starring \cup {"list_create", "list_update", "list_delete",
                       "list_membership_set"}

VARIABLES
    kind,       \* of the operation
    stage,      \* where the call is
    aborted,    \* the caller's signal
    live,       \* the target compared with before and after; of a list_create,
                \* the list it creates
    edits,
    effect,     \* of the mutation on the account
    created,    \* completion.createdListId: "new", or "old" if it was there before
    verdict,    \* the status on record
    hidden      \* history: the gate hid the dispatch of what GitHub did not refuse

vars == <<kind, stage, aborted, live, edits, effect, created, verdict, hidden>>

Init ==
    /\ kind \in Kind
    /\ stage = "preparing"
    /\ aborted = FALSE
    /\ live \in IF kind = "list_create" THEN {"before"} ELSE {"before", "after"}
    /\ edits = 0
    /\ effect = "none"
    /\ created = None
    /\ verdict = "none"
    /\ hidden = FALSE

----------------------------------------------------------------------------
(* Mutated conditions: each is a plausible bug that some run rejects.       *)

AnyAnswer(a) == a.reply = "http"
WaitsForTheAnswer ==
    /\ stage = "sent" /\ aborted
    /\ effect # "open"
    /\ verdict' = "unresolved" /\ stage' = "ended"
    /\ UNCHANGED <<kind, aborted, live, edits, effect, created, hidden>>

----------------------------------------------------------------------------
(* Outcomes.                                                                *)

Ambiguous == [code |-> "RECONCILIATION_REQUIRED", retryable |-> FALSE]
Final(code) == [code |-> code, retryable |-> FALSE]
Again(code) == [code |-> code, retryable |-> TRUE]
Thrown(f) == [code |-> f.code, retryable |-> Retryable(f)]

\* The operation failed after the dispatch was entered.
Outcome(error) ==
    IF /\ error.code \notin {"RECONCILIATION_REQUIRED", "cancelled"}
       /\ ~error.retryable
       /\ ~aborted
    THEN "failed" ELSE "unresolved"

Put(status) == verdict' = status /\ stage' = "ended"
Throw(error) == Put(Outcome(error)) /\ UNCHANGED created

----------------------------------------------------------------------------
(* The executor: prepare.                                                   *)

\* readCurrentState of a target: a list to create is not looked for.  A read fails,
\* or finds that the repository is another one ("error").
Observable == IF kind = "list_create" THEN {"before"} ELSE {live, "error"}

MatchesBefore(state) == state = "before"
MatchesAfter(state) == state = "after"

Prepare ==
    /\ stage = "preparing"
    /\ \E state \in Observable :
         IF aborted THEN Put("failed")
         ELSE IF MatchesAfter(state) THEN Put("skipped")
         ELSE IF MatchesBefore(state) THEN stage' = "prepared" /\ UNCHANGED verdict
         ELSE Put("failed")
    /\ UNCHANGED <<kind, aborted, live, edits, effect, created, hidden>>

\* The dispatch callback: the attempt is on record and the dispatch entered.
Start ==
    /\ stage = "prepared"
    /\ IF aborted THEN Put("failed") ELSE stage' = "gated" /\ UNCHANGED verdict
    /\ UNCHANGED <<kind, aborted, live, edits, effect, created, hidden>>

----------------------------------------------------------------------------
(* The adapter and the transport.                                           *)

\* The adapter or the transport refuses the parameters, the gate fails, the
\* request is not the one expected, or the signal has fired: onDispatch was not
\* called.
Refuse ==
    /\ stage = "gated"
    /\ IF aborted THEN Throw(Final("cancelled"))
                  ELSE Throw(Final("VALIDATION_ERROR"))
    /\ UNCHANGED <<kind, aborted, live, edits, effect, hidden>>

\* guardedFetch calls onDispatch, and fetch.
Send ==
    /\ stage = "gated"
    /\ ~aborted
    /\ stage' = "sent"
    /\ effect' = "open"
    /\ UNCHANGED <<kind, aborted, live, edits, created, verdict, hidden>>

\* A response the transport returns: GraphQL's must have status 200.
Returned(a) ==
    /\ a.reply = "http"
    /\ IF kind \in Starring THEN a.status \in 200..299 ELSE a.status = 200
    /\ ~Malformed(a)
    /\ Rejected(Observations(a, Never("ok"))) = {}

\* isKnownMutationRejection
KnownRejection(a) ==
    a.reply = "http" /\ a.status \in {400, 401, 403, 404, 409, 422, 429}

\* observeClassifiedFailure of a failing answer: the gate rejects its time.
GateThrows(a) ==
    a.status \in 400..599 /\ Rejected(Observations(a, Classified(a))) # {}

\* The catch of executeMutationOnce, when the request was dispatched: the gate is
\* told before the question is asked.
Caught(a) ==
    IF GateThrows(a) THEN Final("GITHUB_UNAVAILABLE")
    ELSE IF KnownRejection(a) THEN Thrown(Classified(a))
    ELSE Ambiguous

\* mappedGraphqlError: one code for all the types among the errors.
GraphqlError(types) ==
    IF "UNAUTHENTICATED" \in types THEN Final("AUTH_REQUIRED")
    ELSE IF "FORBIDDEN" \in types THEN Final("INSUFFICIENT_PERMISSION")
    ELSE IF "SECONDARY_RATE_LIMITED" \in types THEN Again("SECONDARY_RATE_LIMITED")
    ELSE IF "RATE_LIMITED" \in types THEN Again("RATE_LIMITED")
    ELSE IF "NOT_FOUND" \in types THEN Final("NOT_FOUND")
    ELSE IF "undefinedField" \in types THEN Final("CAPABILITY_UNAVAILABLE")
    ELSE IF "TIMEOUT" \in types THEN Again("GITHUB_UNAVAILABLE")
    ELSE Final("GITHUB_UNAVAILABLE")

\* validateEchoedClientMutationId
Echoed(a) == a.echo

\* userListMutationResult: an updated list must be the one that was asked for.
ListResult(a) == Echoed(a) /\ (kind = "list_create" \/ a.body = "asked")

\* membershipMutationReceipt: of that repository, with exactly those lists.
MembershipReceipt(a) == Echoed(a) /\ a.body = "asked"

\* What the body must be for a receipt.
Receipt(a) ==
    CASE kind \in Starring -> a.status = 204
      [] kind \in {"list_create", "list_update"} -> ListResult(a)
      [] kind = "list_delete" -> Echoed(a)
      [] OTHER -> MembershipReceipt(a)

Answer(a) ==
    /\ stage = "sent"
    /\ IF ~Returned(a) THEN Throw(Caught(a))
       ELSE IF kind \notin Starring /\ a.errors # {} THEN Throw(GraphqlError(a.errors))
       ELSE IF ~Receipt(a) THEN Throw(Ambiguous)
       ELSE /\ stage' = "verifying"
            /\ created' = IF kind = "list_create"
                          THEN IF a.body = "asked" THEN "new" ELSE "old" ELSE None
            /\ UNCHANGED verdict
    /\ UNCHANGED <<kind, aborted, live, edits, effect>>

\* The signal ends the wait for an answer; it was dispatched all the same.
Interrupted ==
    /\ stage = "sent"
    /\ aborted
    /\ Throw(Ambiguous)
    /\ UNCHANGED <<kind, aborted, live, edits, effect, hidden>>

----------------------------------------------------------------------------
(* The executor: verify.                                                    *)

\* The target is read again, a created list by its id.
Verify ==
    /\ stage = "verifying"
    /\ \E state \in {live, "error"} :
         IF ~aborted /\ created # "old" /\ MatchesAfter(state)
         THEN Put("succeeded") /\ UNCHANGED created
         ELSE Throw(Ambiguous)
    /\ UNCHANGED <<kind, aborted, live, edits, effect, hidden>>

----------------------------------------------------------------------------
(* The surroundings.                                                        *)

\* GitHub carries the mutation out, now or when the call has long ended, or never.
Land ==
    /\ effect = "open"
    /\ effect' = "landed"
    /\ live' = "after"
    /\ UNCHANGED <<kind, stage, aborted, edits, created, verdict, hidden>>

Lose ==
    /\ effect = "open"
    /\ effect' = "lost"
    /\ UNCHANGED <<kind, stage, aborted, live, edits, created, verdict, hidden>>

\* What an answer says of the account.  A 4xx but 408 is a refusal; so is a GraphQL
\* answer with an error that is neither a limit nor of a failing server; a good
\* answer is true; any other says nothing.
Failing == {"SECONDARY_RATE_LIMITED", "RATE_LIMITED", "TIMEOUT"}
Refusal(a) ==
    /\ a.reply = "http"
    /\ \/ a.status \in 400..499 \ {408}
       \/ kind \notin Starring /\ a.status = 200 /\ ~(a.errors \subseteq Failing)
Good(a) ==
    /\ a.reply = "http"
    /\ a.status = IF kind \in Starring THEN 204 ELSE 200
    /\ kind \in Starring \/ a.errors = {}
Truthful(a) ==
    /\ Refusal(a) => effect = "lost"
    /\ Good(a) => effect = "landed"

\* The owner of the account changes the target; a list to create is there from
\* its creation on.
Edit ==
    /\ edits < MaxEdits
    /\ kind = "list_create" => effect = "landed"
    /\ edits' = edits + 1
    /\ live' \in (IF kind \in Starring THEN {"before", "after"}
                  ELSE {"before", "after", "other"}) \ {live}
    /\ UNCHANGED <<kind, stage, aborted, effect, created, verdict, hidden>>

Abort ==
    /\ ~aborted
    /\ aborted' = TRUE
    /\ UNCHANGED <<kind, stage, live, edits, effect, created, verdict, hidden>>

\* What the call does by itself, and with the answer it is given.
Own == Prepare \/ Start \/ Refuse \/ Send \/ Interrupted \/ Verify
Hides(a) == GateThrows(a) /\ ~Refusal(a)
Answered ==
    \E a \in Answers : Truthful(a) /\ Answer(a) /\ hidden' = Hides(a)

Next == Own \/ Answered \/ Land \/ Lose \/ Edit \/ Abort

Spec == Init /\ [][Next]_vars

----------------------------------------------------------------------------
(***************************************************************************)
(* What the documents say of every answer: "failed" is only said of a       *)
(* mutation that never left or that GitHub refused, "skipped" of one that   *)
(* never left, "succeeded" of one that was carried out; every other end is  *)
(* "unresolved", to be reconciled; nothing leaves twice, or after the       *)
(* outcome.  The code does not keep it: see the next property.              *)
(***************************************************************************)
Promise == INSTANCE Attempt
KeepsThePromise == Promise!Spec

\* A failing answer that is no refusal arrives with a time the gate throws at
\* (executeMutationOnce tells the gate before it asks whether the request was
\* dispatched).
Hidden == ~hidden /\ hidden'

(***************************************************************************)
(* Whatever GitHub answers, whenever it carries the mutation out, and       *)
(* wherever the signal fires: every step keeps the promise of Attempt, with *)
(* the one exception of Hidden.  (executeMutationOnce,                      *)
(* parseDispatchedMutationResult and the catch of executePendingOperation.) *)
(***************************************************************************)
PromiseButForTheGate ==
    Promise!Init /\ [][Promise!Next \/ Hidden]_<<effect, verdict>>
=============================================================================
