------------------------------- MODULE Reads --------------------------------
(***************************************************************************)
(* A discovery call (app/services/discovery-service.ts): a search, the      *)
(* candidates it saves, and the evidence a pool of workers collects for     *)
(* them (evidence-service.ts).  Each read goes through the adapter and the  *)
(* transport (github/octokit-client.ts), which classifies every failure     *)
(* (Replies), tells the rate gate (rate-gate.ts) and may send it again.     *)
(*                                                                          *)
(* JavaScript interleaves only where the code awaits: at the gate, on the   *)
(* wire and during a backoff.  The signal fires, other requests of the      *)
(* process tell the gate of limits, and time passes at any moment.          *)
(***************************************************************************)
EXTENDS Replies, FiniteSets

CONSTANTS
    Concurrency,    \* #concurrency
    Count,          \* repositories found
    MaxAttempts,    \* MAX_ATTEMPTS
    Answers,        \* what GitHub may answer
    MaxPause        \* bound: how far ahead a limit is reset

\* The codes of a failed request.
Codes == {"VALIDATION_ERROR", "AUTH_REQUIRED", "INSUFFICIENT_PERMISSION", "NOT_FOUND",
          "PRECONDITION_FAILED", "RATE_LIMITED", "SECONDARY_RATE_LIMITED",
          "GITHUB_UNAVAILABLE"}

ASSUME ReadsAssumption ==
    /\ {Concurrency, Count, MaxAttempts} \subseteq Nat \ {0}
    /\ {MaxPause, MaxObservationDelay} \subseteq Nat
    /\ \A a \in Answers : a.reply \in {"http", "unreachable", "broken"}
    /\ None \notin Codes \cup {"cancelled", "readme", "missing",
                                "INTERNAL_ERROR"}

Search == 0         \* the reader of the search
Worker == 1..Concurrency
Reader == Worker \cup {Search}
Position == 1..Count

VARIABLES
    stage,      \* of each reader: where its loop or its read is
    index,      \* of each worker: the index it took
    attempt,    \* of each reader: attemptIndex + 1
    next,       \* nextIndex
    stopped,    \* stopped
    failure,    \* failure.value: its code
    output,     \* output
    mode,       \* evidence
    call,       \* what the call returned or threw
    saved,      \* candidates saved
    aborted,    \* the signal
    pause,      \* the time left of the gate's pause
    told        \* history: GitHub's last answer to each repository's request

pool == <<index, next, stopped, failure, output>>
vars == <<stage, pool, attempt, mode, call, saved, aborted, pause, told>>

Open == [kind |-> "open", code |-> None]

\* What the input of a call may ask for beside its search.
EvidenceModes == {"none", "summary", "readme"}

Init ==
    /\ stage = [r \in Reader |-> IF r = Search THEN "gate" ELSE "idle"]
    /\ index = [w \in Worker |-> 0]
    /\ attempt = [r \in Reader |-> 1]
    /\ next = 1
    /\ stopped = FALSE
    /\ failure = None
    /\ output = [i \in Position |-> None]
    /\ mode \in EvidenceModes
    /\ call = Open
    /\ saved = {}
    /\ aborted = FALSE
    /\ pause = 0
    /\ told = [i \in Position |-> None]

----------------------------------------------------------------------------
(* Mutated conditions: each is a plausible bug that some run rejects.       *)

FirstFailureEnds == failure # None \/ \A w \in Worker : stage[w] = "ended"
NextIndex(w) == next - 1

----------------------------------------------------------------------------
\* #extendPause
Extended(told_) ==
    LET times == {pause} \cup {told_[i].at : i \in Believed(told_)}
    IN  CHOOSE t \in times : \A u \in times : u <= t

----------------------------------------------------------------------------
(* The pool.                                                                *)

\* The loop of a worker: it stops, or takes the next index and asks for it.
MayTake(stopped_) == ~stopped_ /\ next <= Count

Loop(w) ==
    IF MayTake(stopped)
    THEN /\ index' = [index EXCEPT ![w] = next]
         /\ next' = next + 1
         /\ attempt' = [attempt EXCEPT ![w] = 1]
         /\ stage' = [stage EXCEPT ![w] = "gate"]
    ELSE /\ stage' = [stage EXCEPT ![w] = "ended"]
         /\ UNCHANGED <<index, next, attempt>>

\* The index was read before the await.
Own(w) == index[w]

\* getReadme returned: a README, or null for one that is not there.
Deliver(w, record) ==
    /\ output' = [output EXCEPT ![Own(w)] = record]
    /\ Loop(w)
    /\ UNCHANGED <<stopped, failure, call, saved>>

\* A worker that fails stops the pool, and keeps the first failure of all.
FailWorker(w, code) ==
    /\ stopped' = TRUE
    /\ failure' = IF stopped THEN failure ELSE code
    /\ stage' = [stage EXCEPT ![w] = "ended"]
    /\ UNCHANGED <<index, next, attempt, output, call, saved>>

\* Every worker runs to its first await.
StartPool ==
    LET first(w) == w \in Worker /\ w <= Count
    IN  /\ index' = [w \in Worker |-> IF first(w) THEN w ELSE 0]
        /\ next' = Cardinality({w \in Worker : first(w)}) + 1
        /\ stage' = [r \in Reader |-> IF first(r) THEN "gate" ELSE "ended"]

\* The search is there: its repositories are saved one by one, each on its own,
\* and the evidence begins.
FailSearch(code) ==
    /\ call' = [kind |-> "failed", code |-> code]
    /\ stage' = [r \in Reader |-> "ended"]
    /\ UNCHANGED <<pool, attempt, saved>>

Found ==
    \E n \in 0..Count :
        /\ saved' = 1..n
        /\ IF n < Count      \* the storage fails
           THEN /\ call' = [kind |-> "failed", code |-> "STORAGE_ERROR"]
                /\ stage' = [r \in Reader |-> "ended"]
                /\ UNCHANGED pool
           ELSE IF aborted /\ mode # "none"
           THEN /\ call' = [kind |-> "failed", code |-> "cancelled"]
                /\ stage' = [r \in Reader |-> "ended"]
                /\ UNCHANGED pool
           ELSE IF mode = "readme"
           THEN /\ StartPool
                /\ UNCHANGED <<stopped, failure, output, call>>
           ELSE /\ call' = [kind |-> mode, code |-> None]
                /\ stage' = [r \in Reader |-> "ended"]
                /\ UNCHANGED pool
        /\ UNCHANGED attempt

Fail(r, code) == IF r = Search THEN FailSearch(code) ELSE FailWorker(r, code)

----------------------------------------------------------------------------
(* executeWithRetries.                                                      *)

\* beforeRequest returns and the request is sent.
Send(r) ==
    /\ stage[r] = "gate"
    /\ ~aborted
    /\ pause = 0
    /\ stage' = [stage EXCEPT ![r] = "sent"]
    /\ UNCHANGED <<pool, attempt, mode, call, saved, aborted, pause, told>>

\* The signal ends the wait at the gate or of a backoff.
Cancel(r) ==
    /\ stage[r] \in {"gate", "backoff"}
    /\ aborted
    /\ Fail(r, "cancelled")
    /\ UNCHANGED <<mode, aborted, pause, told>>

BackedOff(r) ==
    /\ stage[r] = "backoff"
    /\ ~aborted
    /\ stage' = [stage EXCEPT ![r] = "gate"]
    /\ UNCHANGED <<pool, attempt, mode, call, saved, aborted, pause, told>>

\* History.
Hear(r, a) ==
    told' = IF r = Search THEN told
            ELSE [told EXCEPT ![index[r]] = <<a.reply, a.status>>]

\* searchPageFromResponse, readmeFromResponse
Expected(a) == a.body = "asked"

\* A good answer, if its headers are well formed, the gate takes them and its body
\* is what was asked for.
Good(r, a) ==
    /\ stage[r] = "sent"
    /\ a.reply = "http" /\ a.status = 200
    /\ LET seen == Observations(a, Never("ok"))
       IN  /\ pause' = Extended(seen)
           /\ IF Malformed(a) \/ Rejected(seen) # {}
              THEN Fail(r, IF aborted THEN "cancelled" ELSE "GITHUB_UNAVAILABLE")
              ELSE IF ~Expected(a) THEN Fail(r, "GITHUB_UNAVAILABLE")
              ELSE IF r = Search THEN Found
              ELSE Deliver(r, "readme")
    /\ Hear(r, a)
    /\ UNCHANGED <<mode, aborted>>

Again(r, f) ==
    /\ attempt' = [attempt EXCEPT ![r] = @ + 1]
    /\ stage' = [stage EXCEPT ![r] = IF f.retry = "backoff" THEN "backoff" ELSE "gate"]
    /\ UNCHANGED <<pool, call, saved>>

\* getReadme takes NOT_FOUND for an answer.
Missing(r, f) == r # Search /\ f.code = "NOT_FOUND"

Bad(r, a) ==
    /\ stage[r] = "sent"
    /\ ~(a.reply = "http" /\ a.status = 200)
    /\ ~aborted
    /\ LET f == Classified(a)
           seen == Observations(a, f)
       IN  /\ pause' = Extended(seen)
           /\ IF Rejected(seen) # {} THEN Fail(r, "GITHUB_UNAVAILABLE")
              ELSE IF f.retry # "none" /\ attempt[r] < MaxAttempts THEN Again(r, f)
              ELSE IF Missing(r, f) THEN Deliver(r, "missing")
              ELSE Fail(r, f.code)
    /\ Hear(r, a)
    /\ UNCHANGED <<mode, aborted>>

\* After the signal every failure is a cancellation, the one it causes first.
BadAfterAbort(r) ==
    /\ stage[r] = "sent"
    /\ aborted
    /\ Fail(r, "cancelled")
    /\ UNCHANGED <<mode, aborted, pause, told>>

----------------------------------------------------------------------------
\* Promise.allSettled
Settled == \A w \in Worker : stage[w] = "ended"

Return ==
    /\ call = Open
    /\ stage[Search] = "ended"
    /\ Settled
    /\ call' = IF failure # None THEN [kind |-> "failed", code |-> failure]
               ELSE IF \E i \in Position : output[i] = None
               THEN [kind |-> "failed", code |-> "INTERNAL_ERROR"]
               ELSE [kind |-> "readme", code |-> None]
    /\ UNCHANGED <<stage, pool, attempt, mode, saved, aborted, pause, told>>

\* The caller, or the shutdown of the server.
Abort ==
    /\ ~aborted /\ call = Open
    /\ aborted' = TRUE
    /\ UNCHANGED <<stage, pool, attempt, mode, call, saved, pause, told>>

\* Other requests of the process tell the gate of a limit.
Observe ==
    /\ \E delay \in 1..MaxPause :
         /\ pause < delay
         /\ pause' = delay
    /\ UNCHANGED <<stage, pool, attempt, mode, call, saved, aborted, told>>

Tick ==
    /\ pause > 0
    /\ pause' = pause - 1
    /\ UNCHANGED <<stage, pool, attempt, mode, call, saved, aborted, told>>

Next ==
    \/ \E r \in Reader :
         \/ Send(r) \/ Cancel(r) \/ BackedOff(r) \/ BadAfterAbort(r)
         \/ \E a \in Answers : Good(r, a) \/ Bad(r, a)
    \/ Return \/ Abort \/ Observe \/ Tick

Spec == Init /\ [][Next]_vars

----------------------------------------------------------------------------
(***************************************************************************)
(* When the call has returned or thrown, none of its readers waits at the   *)
(* gate, in a backoff or for an answer: the operation the coordinator waits *)
(* for at shutdown is the whole of its work.  (Promise.allSettled in fetch.)*)
(***************************************************************************)
NothingOutlivesTheCall ==
    call.kind # "open" => \A r \in Reader : stage[r] = "ended"

(***************************************************************************)
(* Evidence is what GitHub said of that very repository, in the order of    *)
(* the request: a README it served, or "missing" for one it said is not     *)
(* there; a refusal, a limit or an abort never passes for a missing README. *)
(* No record is ever missing at the end without a failure, and a call whose *)
(* signal never fired is not cancelled.                                     *)
(* (The workers' index and output, getReadme, classifyFailure.)             *)
(***************************************************************************)
EvidenceIsTrue ==
    /\ call.kind = "readme" =>
          \A i \in Position :
              output[i] = CASE told[i] = <<"http", 200>> -> "readme"
                            [] told[i] = <<"http", 404>> -> "missing"
    /\ call.code # "INTERNAL_ERROR"
    /\ call.code = "cancelled" => aborted
=============================================================================
