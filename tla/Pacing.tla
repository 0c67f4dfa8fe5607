------------------------------- MODULE Pacing -------------------------------
(***************************************************************************)
(* The spacing of mutations.  Each server process has one MutationPacer     *)
(* (app/services/mutation-pacer.ts), a promise chain through which the jobs *)
(* of its apply calls pass one by one, and one RateGate                     *)
(* (github/rate-gate.ts), which holds requests back until a limit GitHub    *)
(* announced has been reset.  Between processes only the account lease      *)
(* keeps mutations apart: it is renewed at every start and held through a   *)
(* last safety window (app/services/apply-service.ts).                      *)
(*                                                                          *)
(* Every deadline of the code is kept as the time left until it, zero when  *)
(* it has passed; Tick lets one step pass for all of them.  A heartbeat may *)
(* come late, so a lease can end although its call is alive.  A call that   *)
(* has ended stands for the next one, of any process.                       *)
(***************************************************************************)
EXTENDS Integers, FiniteSets

CONSTANTS
    Process,    \* server processes; one that died may be started again
    Call,       \* apply calls at a time
    Interval,   \* writeIntervalMs
    Heartbeat,  \* LEASE_HEARTBEAT_MS
    Base,       \* BASE_LEASE_MS
    MaxPause,   \* bound: how far ahead a rate limit is reset
    None        \* no call, no process

ASSUME PacingAssumption ==
    /\ Interval \in Nat \ {0}
    /\ Heartbeat \in Nat \ {0}
    /\ Base \in Nat \ {0}
    /\ MaxPause \in Nat
    /\ None \notin Call \cup Process

VARIABLES
    lease,      \* the account lease: its owner and the time it has left
    rest,       \* of each pacer: until #lastStart + #intervalMs
    tail,       \* of each pacer: the call whose job is the last and unsettled
    pause,      \* of each gate: until #pauseUntilMonotonicMs
    home,       \* the process of each call
    stage,      \* where each call is
    behind,     \* the call whose job the call's own job waits for
    aborted,    \* the calls whose abort signal fired
    startGap,   \* history: until an interval after the latest start of all
    limit       \* history: until the latest reset each process was told of

history == <<startGap, limit>>
vars == <<lease, rest, tail, pause, home, stage, behind, aborted, startGap,
          limit>>

Stage == {"idle", "holding", "queued", "resting", "prepared", "gated", "sent",
          "leaving", "draining"}

TypeOK ==
    /\ lease \in [owner: Call \cup {None}, left: Nat]
    /\ rest \in [Process -> Nat]
    /\ tail \in [Process -> Call \cup {None}]
    /\ pause \in [Process -> Nat]
    /\ home \in [Call -> Process \cup {None}]
    /\ stage \in [Call -> Stage]
    /\ \A c \in Call : stage[c] # "idle" => home[c] \in Process
    /\ behind \in [Call -> Call \cup {None}]
    /\ aborted \in SUBSET Call
    /\ startGap \in Nat
    /\ limit \in [Process -> Nat]

Init ==
    /\ lease = [owner |-> None, left |-> 0]
    /\ rest = [p \in Process |-> 0]
    /\ tail = [p \in Process |-> None]
    /\ pause = [p \in Process |-> 0]
    /\ home = [c \in Call |-> None]
    /\ stage = [c \in Call |-> "idle"]
    /\ behind = [c \in Call |-> None]
    /\ aborted = {}
    /\ startGap = 0
    /\ limit = [p \in Process |-> 0]

----------------------------------------------------------------------------
(* Mutated conditions: each is a plausible bug that some run rejects.       *)

LeaseTimeBaseOnly == Base
TailKept(p, c) == None
SoonerOf(old, new) == IF old = 0 \/ new < old THEN new ELSE old
SettleUnlessAborted(c) ==
    LET freed == IF c \in aborted THEN {} ELSE {c}
    IN  /\ behind' = [d \in Call |-> IF behind[d] \in freed THEN None
                                                         ELSE behind[d]]
        /\ tail' = [p \in Process |-> IF tail[p] \in freed THEN None
                                                         ELSE tail[p]]

----------------------------------------------------------------------------
\* apply: the duration covers one interval and one heartbeat.
LeaseTime == IF Base < Interval + Heartbeat THEN Interval + Heartbeat ELSE Base

Renewed(c) == [owner |-> c, left |-> LeaseTime]

\* The lease is the call's and has not ended.
Owns(c) == lease.owner = c /\ lease.left > 0

\* run, waitForSafetyWindow and waitForRetry leave their own job at the tail.
Chained(p, c) == c

\* #waitUntil(#lastStart + #intervalMs) has nothing to wait for.
Spaced(p) == rest[p] = 0

\* #extendPause
LaterOf(old, new) == IF old < new THEN new ELSE old

\* The signal ends the wait at the gate.
Refused(c) == stage[c] = "gated" /\ c \in aborted

\* The job in front is settled, whether it failed or not.
Turn(c) == behind[c] = None

Goto(c, label) == stage' = [stage EXCEPT ![c] = label]

\* A job of c enters the chain of its process.
Enqueue(c) ==
    /\ behind' = [behind EXCEPT ![c] = tail[home[c]]]
    /\ tail' = [tail EXCEPT ![home[c]] = Chained(home[c], c)]

\* The job of c is settled: the next one may run, and the loop of the call
\* goes on or ends.
Settle(c) ==
    /\ behind' = [d \in Call |-> IF behind[d] = c THEN None ELSE behind[d]]
    /\ tail' = [p \in Process |-> IF tail[p] = c THEN None ELSE tail[p]]

\* After a job: an aborted call leaves.
GoOn(c) == Goto(c, IF c \in aborted THEN "leaving" ELSE "holding")

\* A response may tell the gate of p about a limit.
Informed(p) ==
    \/ UNCHANGED <<pause, limit>>
    \/ \E delay \in 1..MaxPause :
         /\ pause' = [pause EXCEPT ![p] = LaterOf(@, delay)]
         /\ limit' = [limit EXCEPT ![p] = IF @ < delay THEN delay ELSE @]

----------------------------------------------------------------------------
\* A call begins: LeaseScope.acquire takes a row that is absent or has expired.
Acquire(c) ==
    /\ stage[c] = "idle"
    /\ lease.owner = None \/ lease.left = 0
    /\ lease' = Renewed(c)
    /\ Goto(c, "holding")
    /\ \E p \in Process : home' = [home EXCEPT ![c] = p]
    /\ UNCHANGED <<rest, tail, pause, behind, aborted, history>>

\* An operation is passed to the pacer, or the wait that its retry asks for.
Request(c) ==
    /\ stage[c] = "holding"
    /\ c \notin aborted /\ Owns(c)
    /\ Enqueue(c)
    /\ Goto(c, "queued") \/ Goto(c, "resting")
    /\ UNCHANGED <<lease, rest, pause, home, aborted, history>>

\* waitForRetry: the delay may be any; the jobs behind it wait as well.
Rest(c) ==
    /\ stage[c] = "resting"
    /\ Turn(c)
    /\ Settle(c)
    /\ GoOn(c)
    /\ UNCHANGED <<lease, rest, pause, home, aborted, history>>

\* #execute: the interval passes, then the prepare callback reads the account.
Prepare(c) ==
    /\ stage[c] = "queued"
    /\ Turn(c) /\ Spaced(home[c])
    /\ c \notin aborted
    /\ Informed(home[c])
    /\ Goto(c, "prepared")
    /\ UNCHANGED <<lease, rest, tail, home, behind, aborted, startGap>>

\* The job ends without a mutation: skipped, refused by its precondition, or
\* aborted before its start.
Skip(c) ==
    /\ stage[c] = "prepared" \/ (stage[c] = "queued" /\ c \in aborted)
    /\ Turn(c)
    /\ Settle(c)
    /\ GoOn(c)
    /\ UNCHANGED <<lease, rest, pause, home, aborted, history>>

\* #lastStart is taken and the dispatch callback called: the lease is asserted
\* and renewed and the request handed to the transport, or the job fails.
Start(c) ==
    /\ stage[c] = "prepared"
    /\ c \notin aborted
    /\ rest' = [rest EXCEPT ![home[c]] = Interval]
    /\ IF Owns(c)
         THEN /\ lease' = Renewed(c)
              /\ startGap' = Interval
              /\ Goto(c, "gated")
              /\ UNCHANGED <<behind, tail>>
         ELSE /\ Settle(c)
              /\ Goto(c, "leaving")
              /\ UNCHANGED <<lease, startGap>>
    /\ UNCHANGED <<pause, home, aborted, limit>>

\* beforeRequest returns once the pause is over, and the mutation is sent.
Send(c) ==
    /\ stage[c] = "gated"
    /\ c \notin aborted
    /\ pause[home[c]] = 0
    /\ Goto(c, "sent")
    /\ UNCHANGED <<lease, rest, tail, pause, home, behind, aborted, startGap,
                   limit>>

\* beforeRequest throws when the signal fires during the wait.
RefuseAtGate(c) ==
    /\ Refused(c)
    /\ Settle(c)
    /\ Goto(c, "leaving")
    /\ UNCHANGED <<lease, rest, pause, home, aborted, history>>

\* The answer, good or bad, settles the job; its headers reach the gate.
Answer(c) ==
    /\ stage[c] = "sent"
    /\ Informed(home[c])
    /\ Settle(c)
    /\ GoOn(c)
    /\ UNCHANGED <<lease, rest, home, aborted, startGap>>

\* The end of a call: the lease is renewed if it is still owned, and the safety
\* window is passed to the pacer.
Finish(c) ==
    /\ stage[c] \in {"holding", "leaving"}
    /\ lease' = IF Owns(c) THEN Renewed(c) ELSE lease
    /\ Enqueue(c)
    /\ Goto(c, "draining")
    /\ UNCHANGED <<rest, pause, home, aborted, history>>

\* #waitForSafetyWindow, which no signal cancels, and the release; a scope
\* that has lost its lease, or failed to wait, releases nothing.
Drain(c) ==
    /\ stage[c] = "draining"
    /\ Turn(c)
    /\ \/ /\ Spaced(home[c])
          /\ lease' = IF Owns(c) THEN [owner |-> None, left |-> 0] ELSE lease
       \/ UNCHANGED lease
    /\ Settle(c)
    /\ Goto(c, "idle")
    /\ home' = [home EXCEPT ![c] = None]
    /\ aborted' = aborted \ {c}
    /\ UNCHANGED <<rest, pause, history>>

\* A heartbeat in time renews the lease; one that is late fires the signal.
Beat(c) ==
    /\ stage[c] # "idle"
    /\ c \notin aborted
    /\ IF Owns(c) THEN lease' = Renewed(c) /\ UNCHANGED aborted
                  ELSE aborted' = aborted \cup {c} /\ UNCHANGED lease
    /\ UNCHANGED <<rest, tail, pause, home, stage, behind, history>>

\* The caller, or the shutdown of the server.
Abort(c) ==
    /\ stage[c] # "idle"
    /\ aborted' = aborted \cup {c}
    /\ UNCHANGED <<lease, rest, tail, pause, home, stage, behind, history>>

\* Another request of the process (a sync, a query) learns of a limit.
Observe(p) ==
    /\ Informed(p)
    /\ UNCHANGED <<lease, rest, tail, home, stage, behind, aborted,
                   startGap>>

\* The process dies with all its calls and what pacer and gate remember.
Crash(p) ==
    LET mine == {c \in Call : home[c] = p}
    IN  /\ stage' = [c \in Call |-> IF c \in mine THEN "idle" ELSE stage[c]]
        /\ behind' = [c \in Call |-> IF c \in mine THEN None ELSE behind[c]]
        /\ home' = [c \in Call |-> IF c \in mine THEN None ELSE home[c]]
        /\ aborted' = aborted \ mine
        /\ rest' = [rest EXCEPT ![p] = 0]
        /\ pause' = [pause EXCEPT ![p] = 0]
        /\ limit' = [limit EXCEPT ![p] = 0]
        /\ tail' = [tail EXCEPT ![p] = None]
        /\ UNCHANGED <<lease, startGap>>

Before(t) == IF t = 0 THEN 0 ELSE t - 1

Tick ==
    /\ lease' = [lease EXCEPT !.left = Before(@)]
    /\ rest' = [p \in Process |-> Before(rest[p])]
    /\ pause' = [p \in Process |-> Before(pause[p])]
    /\ limit' = [p \in Process |-> Before(limit[p])]
    /\ startGap' = Before(startGap)
    /\ UNCHANGED <<tail, home, stage, behind, aborted>>

\* What a call does by itself once it has begun.
Progress(c) ==
    \/ Request(c) \/ Rest(c) \/ Prepare(c) \/ Skip(c) \/ Start(c) \/ Send(c)
    \/ RefuseAtGate(c) \/ Answer(c) \/ Finish(c) \/ Drain(c)

Next ==
    \/ \E c \in Call : Acquire(c) \/ Progress(c) \/ Beat(c) \/ Abort(c)
    \/ \E p \in Process : Observe(p) \/ Crash(p)
    \/ Tick

Spec == Init /\ [][Next]_vars

\* The event loop runs, time passes, and heartbeats come, though late.
FairSpec ==
    /\ Spec
    /\ \A c \in Call : WF_vars(Progress(c)) /\ WF_vars(Beat(c))
    /\ WF_vars(Tick)

----------------------------------------------------------------------------
(* Properties.                                                              *)

Starts(c) == stage[c] = "prepared" /\ stage'[c] = "gated"
Sends(c) == stage[c] = "gated" /\ stage'[c] = "sent"

\* "At least the configured 1,000 ms between mutation starts", across calls,
\* processes, crashes and late heartbeats: pacer, safety window and the lease's
\* duration together (#execute, apply's cleanup, durationMs).
StartsAreSpaced == [][\A c \in Call : Starts(c) => startGap = 0]_vars

\* Two mutations of one process are never under way together, not even when a
\* call has lost its lease and a second one has taken it (the promise chain).
OneAtATime ==
    \A c, d \in Call :
        home[c] = home[d] /\ {stage[c], stage[d]} \subseteq {"gated", "sent"}
            => c = d

\* No mutation leaves before the latest reset its process was told of, in
\* whatever order the limits became known (#extendPause, beforeRequest).
ResetsAreRespected == [][\A c \in Call : Sends(c) => limit[home[c]] = 0]_vars

\* A call whose signal fired ends, whoever is in front of it in the chain, if
\* GitHub does not go on limiting the process for ever.
AbortsEnd ==
    (\E p \in Process : []<>(limit[p] # 0))
        \/ \A c \in Call : (c \in aborted) ~> (stage[c] = "idle")
=============================================================================
