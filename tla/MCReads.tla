------------------------------ MODULE MCReads -------------------------------
(* Two workers and three repositories; one answer for every way through the *)
(* classification.                                                          *)
EXTENDS Reads

Http(status) ==
    [reply |-> "http", status |-> status, body |-> "asked",
     secondary |-> FALSE, retryAfter |-> None, remaining |-> None, reset |-> None]

MCAnswers ==
    {Http(s) : s \in {200, 401, 404, 503}}
    \cup {[Http(200) EXCEPT !.body = "other"]}
    \cup {[Http(200) EXCEPT !.remaining = 0, !.reset = d] : d \in {-1, 1, 3}}
    \cup {[Http(403) EXCEPT !.remaining = 0, !.reset = 1],
          [Http(403) EXCEPT !.secondary = TRUE],
          [Http(403) EXCEPT !.retryAfter = 2],
          [Http(404) EXCEPT !.remaining = 1],
          [Http(429) EXCEPT !.retryAfter = Unread],
          [Http(429) EXCEPT !.remaining = 0, !.reset = 2],
          [Http(429) EXCEPT !.remaining = 0, !.reset = 3]}
    \cup {[Http(503) EXCEPT !.remaining = 1, !.reset = d] : d \in {-1, 3}}
    \cup {[Http(0) EXCEPT !.reply = "unreachable"],
          [Http(0) EXCEPT !.reply = "broken"]}
=============================================================================
