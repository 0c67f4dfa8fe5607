------------------------------ MODULE Lifecycle ------------------------------
(***************************************************************************)
(* The life of one server process (server.ts, runServer) and the            *)
(* OperationCoordinator that counts what it works on                        *)
(* (app/services/operation-coordinator.ts).  A signal, the end of the       *)
(* client's connection or a failure may ask for the shutdown at any time,   *)
(* while the services are being created as well as while tools are at work. *)
(*                                                                          *)
(* An operation is the creation of the services (Boot) or a tool call.      *)
(* What runs in one turn of the event loop is one action.                   *)
(***************************************************************************)
CONSTANTS
    Tool,   \* tool calls
    Boot    \* the creation of the services, as an operation

ASSUME LifecycleAssumption == Boot \notin Tool

Operation == Tool \cup {Boot}

VARIABLES
    main,       \* where runServer is
    shutdown,   \* where performShutdown is
    server,     \* the MCP server and its connection
    store,      \* the SQLite store
    accepting,  \* #accepting
    active,     \* #active
    told,       \* the operations whose controller was aborted
    over        \* the operations that were refused or have settled

vars == <<main, shutdown, server, store, accepting, active, told, over>>

TypeOK ==
    /\ main \in {"booting", "creating", "created", "connecting", "serving",
                 "waiting", "ended"}
    /\ shutdown \in {"no", "draining", "drained", "closing", "done"}
    /\ server \in {"absent", "open", "closed"}
    /\ store \in {"open", "closed"}
    /\ accepting \in BOOLEAN
    /\ active \subseteq Operation
    /\ told \subseteq Operation
    /\ over \subseteq Operation

Init ==
    /\ main = "booting"
    /\ shutdown = "no"
    /\ server = "absent"
    /\ store = "open"
    /\ accepting = TRUE
    /\ active = {}
    /\ told = {}
    /\ over = {}

----------------------------------------------------------------------------
(* Mutated conditions: each is a plausible bug that some run rejects.       *)

RestBeforeRemoval(o) == active
AdmitsAlways == TRUE
DrainsAtOnce == TRUE

----------------------------------------------------------------------------
\* run: a coordinator that has stopped refuses.
Admits == accepting

\* What is left in #active when #resolveDrainWaiters looks at it.
Rest(o) == active \ {o}

\* abort: every controller in #controllers.
ToTell == active

\* runServer goes on with the services it was given.
MayServe == accepting

\* drain: nothing to wait for.
Idle == active = {}

\* performShutdown up to its first await; requestShutdown does it once.
Request ==
    IF shutdown # "no"
      THEN UNCHANGED <<shutdown, accepting, told>>
      ELSE /\ accepting' = FALSE
           /\ told' = told \cup ToTell
           /\ shutdown' = IF Idle THEN "drained" ELSE "draining"

----------------------------------------------------------------------------
(* runServer.                                                               *)

\* Migrations and recovery; then the services are created as an operation.
Begin ==
    /\ main = "booting"
    /\ \/ /\ main' = "creating"
          /\ active' = active \cup {Boot}
          /\ UNCHANGED <<shutdown, accepting, told>>
       \/ /\ main' = "waiting"
          /\ Request
          /\ UNCHANGED active
    /\ UNCHANGED <<server, store, over>>

\* After a shutdown during the creation nothing is served.
Serve ==
    /\ main = "created"
    /\ IF MayServe THEN main' = "connecting" /\ server' = "open"
                   ELSE main' = "waiting" /\ UNCHANGED server
    /\ UNCHANGED <<shutdown, store, accepting, active, told, over>>

\* The transport is started, or fails.
Connect ==
    /\ main = "connecting"
    /\ \/ main' = "serving" /\ UNCHANGED <<shutdown, accepting, told>>
       \/ main' = "waiting" /\ Request
    /\ UNCHANGED <<server, store, active, over>>

\* Once closed is resolved, or the shutdown awaited, runServer returns.
End ==
    /\ main \in {"serving", "waiting"}
    /\ shutdown = "done"
    /\ main' = "ended"
    /\ UNCHANGED <<shutdown, server, store, accepting, active, told, over>>

----------------------------------------------------------------------------
(* Operations.                                                              *)

\* A tool call arrives and is run, or refused.
Call(t) ==
    /\ main \in {"connecting", "serving"} /\ server = "open"
    /\ t \notin active \cup over
    /\ IF Admits THEN active' = active \cup {t} /\ UNCHANGED over
                 ELSE over' = over \cup {t} /\ UNCHANGED active
    /\ UNCHANGED <<main, shutdown, server, store, accepting, told>>

\* The caller of a tool gives up: its signal is forwarded (forwardAbort).
Cancel(t) ==
    /\ t \in active
    /\ told' = told \cup {t}
    /\ UNCHANGED <<main, shutdown, server, store, accepting, active, over>>

\* An operation settles and leaves the coordinator; the last one wakes drain.
\* If the services could not be created, runServer asks for the shutdown.
Settle(o) ==
    /\ o \in active
    /\ active' = active \ {o}
    /\ over' = over \cup {o}
    /\ LET awake == IF shutdown = "draining" /\ Rest(o) = {} THEN "drained"
                                                            ELSE shutdown
       IN  IF o # Boot
             THEN shutdown' = awake /\ UNCHANGED <<main, accepting, told>>
             ELSE \/ /\ main' = "created"
                     /\ shutdown' = awake
                     /\ UNCHANGED <<accepting, told>>
                  \/ /\ main' = "waiting"
                     /\ accepting' = FALSE
                     /\ shutdown' = IF shutdown = "no" THEN "drained" ELSE awake
                     /\ UNCHANGED told
    /\ UNCHANGED <<server, store>>

----------------------------------------------------------------------------
(* The shutdown.                                                            *)

\* SIGINT, SIGTERM, or the transport is closed by the client.
Stop ==
    /\ main # "booting" /\ main # "ended"
    /\ Request
    /\ UNCHANGED <<main, server, store, active, over>>

CloseServer ==
    /\ shutdown = "drained"
    /\ shutdown' = "closing"
    /\ server' = IF server = "open" THEN "closed" ELSE server
    /\ UNCHANGED <<main, store, accepting, active, told, over>>

CloseStore ==
    /\ shutdown = "closing"
    /\ shutdown' = "done"
    /\ store' = "closed"
    /\ UNCHANGED <<main, server, accepting, active, told, over>>

Next ==
    \/ Begin \/ Serve \/ Connect \/ End \/ Stop \/ CloseServer \/ CloseStore
    \/ \E t \in Tool : Call(t) \/ Cancel(t)
    \/ \E o \in Operation : Settle(o)

Spec == Init /\ [][Next]_vars

\* The event loop goes on, and an operation that was told to stop settles.
FairSpec ==
    /\ Spec
    /\ WF_vars(Begin) /\ WF_vars(Serve) /\ WF_vars(Connect) /\ WF_vars(End)
    /\ WF_vars(CloseServer) /\ WF_vars(CloseStore)
    /\ \A o \in Operation : WF_vars(o \in told /\ Settle(o))

----------------------------------------------------------------------------
(* Properties.                                                              *)

\* Nobody works on a store that was closed, and no answer is still to be given
\* through a server that was (drain before close).
StoreOutlivesWork ==
    store = "closed" \/ server = "closed" => active = {}

\* Once the shutdown was asked for, whatever is still at work knows: nothing
\* slips in between the look at #accepting and the abort.
EveryoneIsTold == shutdown # "no" => active \subseteq told

\* runServer returns with everything closed, also when the signal comes while
\* the services are created or the transport connects.
EndsClean == main = "ended" => store = "closed" /\ server # "open"

\* A shutdown that was asked for comes to its end.
ShutdownEnds == (shutdown # "no") ~> (main = "ended")
=============================================================================
