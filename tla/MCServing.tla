------------------------------ MODULE MCServing -----------------------------
(* The start of the server, a call that applies and another one; for the    *)
(* dispatch, every kind of operation, edits, and answers for every way      *)
(* through the classification, with resets that are past, near and too far. *)
EXTENDS Serving

CONSTANTS t1, t2

TwoTools == {t1, t2}

Http(status) ==
    [reply |-> "http", status |-> status, secondary |-> FALSE,
     retryAfter |-> None, remaining |-> None, reset |-> None,
     body |-> "asked", errors |-> {}, echo |-> TRUE]

MCAnswers ==
    {Http(s) : s \in {200, 204, 400, 403, 404, 408, 409, 410, 422, 429, 502}}
    \cup {[Http(s) EXCEPT !.remaining = 0, !.reset = d] :
            s \in {200, 204, 403, 429, 500}, d \in {1, Unread}}
    \cup {[Http(s) EXCEPT !.remaining = r, !.reset = d] :
            s \in {200, 204, 403, 408, 429, 502}, r \in {0, 5}, d \in {-1, 3}}
    \cup {[Http(429) EXCEPT !.retryAfter = d] : d \in {2, 3}}
    \cup {[Http(200) EXCEPT !.echo = FALSE], [Http(200) EXCEPT !.body = "other"]}
    \cup {[Http(200) EXCEPT !.errors = e] :
            e \in {{"FORBIDDEN"}, {"NOT_FOUND"}, {"TIMEOUT"}, {"RATE_LIMITED"},
                   {"other"}, {"RATE_LIMITED", "NOT_FOUND"}}}
    \cup {[Http(0) EXCEPT !.reply = "unreachable"],
          [Http(0) EXCEPT !.reply = "broken"]}
=============================================================================
