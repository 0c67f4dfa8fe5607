------------------------------ MODULE Replies -------------------------------
(***************************************************************************)
(* What the transport (github/octokit-client.ts) makes of GitHub's answer   *)
(* to one request, and what the rate gate (rate-gate.ts) is told of it.     *)
(* Reads sends a request again by it, Dispatch decides by it what became of *)
(* a mutation.  An answer is a record: how it ended, its status, the rate   *)
(* headers, and what its body says as far as the code looks.                *)
(***************************************************************************)
EXTENDS Integers, Sequences

CONSTANTS
    None,       \* absent
    Unread,     \* a header that is there but cannot be read
    MaxObservationDelay     \* MAX_OBSERVATION_DELAY_MS

\* A time is a delay from now, negative when it has passed.
Read(header) == IF header = Unread THEN None ELSE header

Never(code) == [code |-> code, retry |-> "none", at |-> None]
Backoff == [code |-> "GITHUB_UNAVAILABLE", retry |-> "backoff", at |-> None]
Limited(code, at) ==
    [code |-> code, retry |-> IF at = None THEN "none" ELSE "limit", at |-> at]

\* A limit and a failing server are worth another try.
Retryable(f) ==
    f.retry = "backoff" \/ f.code \in {"RATE_LIMITED", "SECONDARY_RATE_LIMITED"}

\* Its message or errors say so, or there is a Retry-After.
Secondary(a) == a.secondary \/ a.retryAfter # None

Forbidden(a) ==
    IF Secondary(a) THEN Limited("SECONDARY_RATE_LIMITED", Read(a.retryAfter))
    ELSE IF a.remaining = 0 THEN Limited("RATE_LIMITED", Read(a.reset))
    ELSE Never("INSUFFICIENT_PERMISSION")

TooMany(a) ==
    IF Read(a.retryAfter) # None
    THEN Limited("SECONDARY_RATE_LIMITED", a.retryAfter)
    ELSE IF a.retryAfter = None /\ a.remaining = 0
    THEN Limited("RATE_LIMITED", Read(a.reset))
    ELSE Never("RATE_LIMITED")

HttpFailure(a) ==
    CASE a.status \in {400, 422} -> Never("VALIDATION_ERROR")
      [] a.status = 401 -> Never("AUTH_REQUIRED")
      [] a.status = 403 -> Forbidden(a)
      [] a.status = 429 -> TooMany(a)
      [] a.status = 404 -> Never("NOT_FOUND")
      [] a.status = 409 -> Never("PRECONDITION_FAILED")
      [] a.status = 408 \/ a.status \in 500..599 -> Backoff
      [] OTHER -> Never("GITHUB_UNAVAILABLE")

\* The two rate headers, of a good answer or a bad one.
Absent(a) == a.remaining = None /\ a.reset = None
Malformed(a) == ~Absent(a) /\ None \in {Read(a.remaining), Read(a.reset)}

\* What an attempt failed with: a redirect, a foreign origin or an envelope that
\* cannot be read ("broken"), a network that may recover ("unreachable"), or
\* an answer.
Classified(a) ==
    CASE a.reply = "unreachable" -> Backoff
      [] a.reply = "broken" -> Never("GITHUB_UNAVAILABLE")
      [] Malformed(a) -> Never("GITHUB_UNAVAILABLE")
      [] OTHER -> HttpFailure(a)

\* What the gate is told, in this order: the headers, then the limit.
Observations(a, f) ==
    (IF a.reply = "http" /\ ~Absent(a) /\ ~Malformed(a)
     THEN << [pauses |-> a.remaining = 0, at |-> a.reset] >> ELSE << >>)
    \o (IF f.retry = "limit" THEN << [pauses |-> TRUE, at |-> f.at] >> ELSE << >>)

\* The gate throws at a time that has passed or is too far ahead.
Rejected(told_) ==
    {i \in DOMAIN told_ : told_[i].at < 0 \/ told_[i].at > MaxObservationDelay}
Believed(told_) == {i \in DOMAIN told_ : told_[i].pauses /\ \A j \in 1..i : j \notin Rejected(told_)}
=============================================================================
