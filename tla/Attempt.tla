------------------------------ MODULE Attempt -------------------------------
(***************************************************************************)
(* What one dispatch of a mutation promises: it leaves for GitHub at most   *)
(* once, GitHub carries it out at most once, and the outcome that is put on *)
(* record says no more than is known.  Whoever reads "failed" may take the  *)
(* mutation for not applied, now and for good; "succeeded", for applied.    *)
(***************************************************************************)
VARIABLES
    effect,     \* of the mutation, on the account
    verdict     \* on record

Init == effect = "none" /\ verdict = "none"

Depart ==
    /\ effect = "none" /\ verdict = "none"
    /\ effect' = "open"
    /\ UNCHANGED verdict

\* GitHub carries it out or not, when it likes.
Carry ==
    /\ effect = "open"
    /\ effect' \in {"landed", "lost"}
    /\ UNCHANGED verdict

Decide ==
    /\ verdict = "none"
    /\ \/ effect = "none" /\ verdict' \in {"skipped", "failed", "unresolved"}
       \/ effect = "lost" /\ verdict' \in {"failed", "unresolved"}
       \/ effect = "landed" /\ verdict' \in {"succeeded", "unresolved"}
       \/ effect = "open" /\ verdict' = "unresolved"
    /\ UNCHANGED effect

Next == Depart \/ Carry \/ Decide

Spec == Init /\ [][Next]_<<effect, verdict>>
=============================================================================
