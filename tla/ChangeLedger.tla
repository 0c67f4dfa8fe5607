---------------------------- MODULE ChangeLedger ----------------------------
(***************************************************************************)
(* What a change run promises about the operations of its plan, whoever     *)
(* executes it and however often it is interrupted: the contract of         *)
(* stars_apply as the repository's rows and the account see it together.    *)
(*                                                                          *)
(* Every operation is open (known not to be applied), in doubt (it may have *)
(* been applied), done or refused.  Only an operation in doubt is ever on   *)
(* the wire to GitHub, and it leaves doubt only when nothing of it is.      *)
(***************************************************************************)
CONSTANTS
    Op,     \* the operations of the plan
    Deps    \* Op -> SUBSET Op

VARIABLES
    state,  \* of the run: "none", "running", "partial" or "completed"
    status, \* of each operation: "open", "doubt", "done" or "refused"
    wire    \* the operations with a mutation on its way

ledgerVars == <<state, status, wire>>

TypeOK ==
    /\ state \in {"none", "running", "partial", "completed"}
    /\ status \in [Op -> {"open", "doubt", "done", "refused"}]
    /\ wire \subseteq Op

Ready(o) == \A d \in Deps[o] : status[d] = "done"
AllDone == \A o \in Op : status[o] = "done"

Init ==
    /\ state = "none"
    /\ status = [o \in Op |-> "open"]
    /\ wire = {}

\* A run is opened once and resumed while it is partial, never when completed.
Begin ==
    /\ state \in {"none", "partial"}
    /\ state' = "running"
    /\ UNCHANGED <<status, wire>>

\* An operation is put in doubt, its dependencies being done.
Doubt(o) ==
    /\ state = "running"
    /\ status[o] = "open" /\ Ready(o)
    /\ status' = [status EXCEPT ![o] = "doubt"]
    /\ UNCHANGED <<state, wire>>

Send(o) ==
    /\ state = "running"
    /\ status[o] = "doubt"
    /\ wire' = wire \cup {o}
    /\ UNCHANGED <<state, status>>

Arrive(o) ==
    /\ o \in wire
    /\ wire' = wire \ {o}
    /\ UNCHANGED <<state, status>>

\* The outcome of an operation is known; open means that it may be tried again.
Judge(o) ==
    /\ state = "running"
    /\ status[o] \in {"open", "doubt"} /\ Ready(o)
    /\ o \notin wire
    /\ \E verdict \in {"open", "done", "refused"} :
         status' = [status EXCEPT ![o] = verdict]
    /\ UNCHANGED <<state, wire>>

Close ==
    /\ state = "running"
    /\ state' \in {"partial"} \cup (IF AllDone THEN {"completed"} ELSE {})
    /\ UNCHANGED <<status, wire>>

Next ==
    \/ Begin \/ Close
    \/ \E o \in Op : Doubt(o) \/ Send(o) \/ Arrive(o) \/ Judge(o)

Spec == Init /\ [][Next]_ledgerVars

----------------------------------------------------------------------------
\* What is on its way to GitHub is in doubt: no outcome is decided over it.
WireIsInDoubt == \A o \in wire : status[o] = "doubt"

\* A completed run has applied the whole plan, for good (PLAN "applied").
CompletedIsWhole == state = "completed" => AllDone

\* An operation done or refused is never touched again, whatever resumes.
StandsBy ==
    \A o \in Op : status[o] \in {"done", "refused"} => status'[o] = status[o]
VerdictsStand == [][StandsBy]_ledgerVars

\* Nothing is done before what it depends on.
DoneInOrder == \A o \in Op : status[o] = "done" => Ready(o)
=============================================================================
