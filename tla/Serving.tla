------------------------------ MODULE Serving ------------------------------
(***************************************************************************)
(* A server process (Lifecycle) one of whose tool calls applies a plan and  *)
(* is at a dispatch (Dispatch).  The call's signal is the one the           *)
(* coordinator forwards: it fires when the caller gives up and when the     *)
(* shutdown tells everybody (register-tool.ts, operation-coordinator.ts).   *)
(* The call leaves the coordinator once its dispatch has ended, and the     *)
(* shutdown waits for that, while GitHub takes its time.                    *)
(***************************************************************************)
EXTENDS Lifecycle, Integers

CONSTANTS
    Apply,      \* the tool call that applies
    Answers,    \* what GitHub may answer
    MaxEdits,   \* bound: changes made to the target by somebody else
    None,       \* a header that is absent
    Unread,     \* a header that cannot be read
    MaxObservationDelay     \* how far ahead the gate believes a reset

VARIABLES kind, stage, live, edits, effect, created, verdict, hidden

D == INSTANCE Dispatch WITH aborted <- Apply \in told

ASSUME ServingAssumption ==
    /\ Apply \in Tool
    /\ {MaxEdits, MaxObservationDelay} \subseteq Nat

server_vars == vars
dispatch_vars == <<kind, stage, live, edits, effect, created, verdict, hidden>>
allVars == <<server_vars, dispatch_vars>>

InitAll == Init /\ D!Init

\* Mutation: the call does not await its dispatch.
ServerStepUnawaited == Next /\ UNCHANGED dispatch_vars

\* A step of the process; the applying call settles after its dispatch.
ServerStep ==
    /\ Next
    /\ Apply \in active \ active' => stage = "ended"
    /\ UNCHANGED dispatch_vars

\* The dispatch goes on as long as the call is at work.
DispatchStep ==
    /\ UNCHANGED server_vars
    /\ Apply \in active
    /\ D!Own

AnswerArrives ==
    /\ UNCHANGED server_vars
    /\ Apply \in active
    /\ D!Answered

\* GitHub and its user do not care whether the process is still there.
Elsewhere ==
    /\ UNCHANGED server_vars
    /\ D!Land \/ D!Lose \/ D!Edit

NextAll == ServerStep \/ DispatchStep \/ AnswerArrives \/ Elsewhere

SpecAll == InitAll /\ [][NextAll]_allVars

\* The event loop goes on, and with it a dispatch that was told to stop; that
\* GitHub ever answers is not assumed.
Alone(action) == action /\ UNCHANGED dispatch_vars
SettlesWhenTold(o) ==
    /\ o \in told
    /\ o = Apply => stage = "ended"
    /\ Settle(o)

FairSpecAll ==
    /\ SpecAll
    /\ WF_allVars(Alone(Begin)) /\ WF_allVars(Alone(Serve))
    /\ WF_allVars(Alone(Connect)) /\ WF_allVars(Alone(End))
    /\ WF_allVars(Alone(CloseServer)) /\ WF_allVars(Alone(CloseStore))
    /\ \A o \in Operation : WF_allVars(Alone(SettlesWhenTold(o)))
    /\ WF_allVars(Apply \in told /\ DispatchStep)

----------------------------------------------------------------------------
(* Properties.                                                              *)

\* The store is open, and the server there to answer, until the outcome of
\* what was sent to GitHub is on record, whenever the signal came: performShutdown
\* drains before it closes, and the dispatch ends before its call does.
OutcomeIsRecorded ==
    store = "closed" \/ server = "closed" =>
        (effect # "none" => verdict # "none")

\* In the process, as on its own, a dispatch keeps the promise of Attempt, but for
\* the gate: neither a caller that gives up nor a shutdown makes it say more than
\* it knows.
PromiseButForTheGate == D!PromiseButForTheGate

\* The promise without that exception: the server "records an ambiguous response and
\* reconciles with a read before a visible new attempt" (docs/troubleshooting.md:64).
KeepsThePromise == D!KeepsThePromise
=============================================================================
