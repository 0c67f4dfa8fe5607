---------------------------- MODULE PacingProofs ----------------------------
(***************************************************************************)
(* For every interval, lease duration, number of processes and of calls:    *)
(* mutation starts are spaced, announced limits are respected, and of one   *)
(* process one mutation is under way at a time.                             *)
(*                                                                          *)
(* The argument for the spacing is Fenced: until the interval after the     *)
(* latest start has passed, the lease belongs to the call that made it, for *)
(* longer than that; and that call, if it lives, finds its own pacer        *)
(* waiting.  So neither it nor anybody else starts a mutation.  That one    *)
(* mutation is under way at a time is the order of the promise chain.       *)
(***************************************************************************)
EXTENDS Pacing, TLAPS

Fenced ==
    startGap > 0 =>
        /\ lease.owner \in Call
        /\ lease.left > startGap
        /\ stage[lease.owner] # "idle" => rest[home[lease.owner]] >= startGap
        /\ stage[lease.owner] # "prepared"

SpacingInv == TypeOK /\ startGap <= Interval /\ Fenced

\* The lease outlasts an interval: durationMs covers a heartbeat more.
LEMMA LeaseOutlastsInterval ==
    LeaseTime \in Nat /\ LeaseTime > Interval
  BY PacingAssumption DEF LeaseTime

\* Time left stays a time.
LEMMA BeforeIsNat ==
    ASSUME NEW t \in Nat
    PROVE  Before(t) \in Nat /\ (t > 0 => Before(t) = t - 1) /\ (t = 0 => Before(t) = 0)
  BY DEF Before

LEMMA Typing == TypeOK /\ [Next]_vars => TypeOK'
<1> SUFFICES ASSUME TypeOK, [Next]_vars PROVE TypeOK'
  OBVIOUS
<1> USE PacingAssumption, LeaseOutlastsInterval DEF TypeOK, history
<1>1. ASSUME NEW c \in Call, Acquire(c) \/ Progress(c) \/ Beat(c) \/ Abort(c)
      PROVE  TypeOK'
  <2>1. CASE Acquire(c) \/ Beat(c) \/ Abort(c)
    BY <2>1 DEF Acquire, Beat, Abort, Renewed, Goto, Stage
  <2>2. CASE Request(c) \/ Rest(c) \/ Skip(c)
    BY <2>2 DEF Request, Rest, Skip, Enqueue, Chained, Settle, GoOn, Goto, Stage
  <2>3. CASE Prepare(c)
    BY <2>3 DEF Prepare, Informed, LaterOf, Goto, Stage
  <2>4. CASE Start(c)
    BY <2>4 DEF Start, Renewed, Settle, Goto, Stage
  <2>5. CASE Send(c) \/ RefuseAtGate(c)
    BY <2>5 DEF Send, RefuseAtGate, Refused, Settle, Goto, Stage
  <2>6. CASE Answer(c)
    BY <2>6 DEF Answer, Informed, LaterOf, Settle, GoOn, Goto, Stage
  <2>7. CASE Finish(c)
    BY <2>7 DEF Finish, Renewed, Enqueue, Chained, Goto, Stage
  <2>8. CASE Drain(c)
    BY <2>8 DEF Drain, Settle, Goto, Stage
  <2>9. QED
    BY <1>1, <2>1, <2>2, <2>3, <2>4, <2>5, <2>6, <2>7, <2>8 DEF Progress
<1>2. ASSUME NEW p \in Process, Observe(p) PROVE TypeOK'
  BY <1>2 DEF Observe, Informed, LaterOf
<1>3. ASSUME NEW p \in Process, Crash(p) PROVE TypeOK'
  BY <1>3 DEF Crash, Stage
<1>4. CASE Tick
  BY <1>4, BeforeIsNat DEF Tick
<1>5. CASE UNCHANGED vars
  BY <1>5 DEF vars
<1>6. QED
  BY <1>1, <1>2, <1>3, <1>4, <1>5 DEF Next

LEMMA Spacing == SpacingInv /\ [Next]_vars => SpacingInv'
<1> SUFFICES ASSUME SpacingInv, [Next]_vars PROVE SpacingInv'
  OBVIOUS
<1>t. TypeOK'
  BY Typing DEF SpacingInv
<1> USE PacingAssumption, LeaseOutlastsInterval, <1>t
    DEF SpacingInv, Fenced, TypeOK, history, Owns, Renewed, Goto
<1>1. ASSUME NEW c \in Call, Acquire(c) \/ Progress(c) \/ Beat(c) \/ Abort(c)
      PROVE  SpacingInv'
  <2>1. CASE Acquire(c) \/ Beat(c) \/ Abort(c)
    BY <2>1 DEF Acquire, Beat, Abort, Stage
  <2>2. CASE Request(c) \/ Rest(c) \/ Skip(c)
    BY <2>2 DEF Request, Rest, Skip, GoOn, Stage
  <2>3. CASE Prepare(c)
    BY <2>3 DEF Prepare, Spaced, Stage
  <2>4. CASE Start(c)
    BY <2>4 DEF Start, Stage
  <2>5. CASE Send(c) \/ RefuseAtGate(c) \/ Answer(c)
    BY <2>5 DEF Send, RefuseAtGate, Answer, Refused, GoOn, Stage
  <2>6. CASE Finish(c)
    BY <2>6 DEF Finish, Stage
  <2>7. CASE Drain(c)
    BY <2>7 DEF Drain, Spaced, Stage
  <2>8. QED
    BY <1>1, <2>1, <2>2, <2>3, <2>4, <2>5, <2>6, <2>7 DEF Progress
<1>2. ASSUME NEW p \in Process, Observe(p) PROVE SpacingInv'
  BY <1>2 DEF Observe
<1>3. ASSUME NEW p \in Process, Crash(p) PROVE SpacingInv'
  BY <1>3 DEF Crash, Stage
<1>4. CASE Tick
  <2>1. lease'.owner = lease.owner /\ lease'.left = Before(lease.left)
    BY <1>4 DEF Tick
  <2>2. stage' = stage /\ startGap' = Before(startGap)
        /\ \A p \in Process : rest'[p] = Before(rest[p])
    BY <1>4 DEF Tick
  <2>3. startGap' <= Interval
    BY <2>2 DEF Before
  <2>4. home' = home
    BY <1>4 DEF Tick
  <2>5. Fenced'
    BY <2>1, <2>2, <2>4 DEF Before
  <2>6. QED
    BY <2>3, <2>5
<1>5. CASE UNCHANGED vars
  BY <1>5 DEF vars
<1>6. QED
  BY <1>1, <1>2, <1>3, <1>4, <1>5 DEF Next

LEMMA InitSpacing == Init => SpacingInv
  BY PacingAssumption DEF Init, SpacingInv, Fenced, TypeOK, Stage

\* Every variable keeps its type (APPLY-06's bookkeeping is well formed).
THEOREM TypeCorrect == Spec => []TypeOK
<1>1. Init => TypeOK
  BY InitSpacing DEF SpacingInv
<1>2. QED
  BY <1>1, Typing, PTL DEF Spec

\* Mutation starts are an interval apart, whichever calls of whichever processes
\* make them and whoever crashes, loses the lease or is late in between.
THEOREM StartsSpaced == Spec => StartsAreSpaced
<1>1. ASSUME SpacingInv, [Next]_vars
      PROVE  [\A c \in Call : Starts(c) => startGap = 0]_vars
  <2> SUFFICES ASSUME NEW c \in Call, Starts(c), Next, startGap # 0 PROVE FALSE
    BY <1>1 DEF vars, Starts
  <2>1. startGap > 0
    BY <1>1 DEF SpacingInv, TypeOK
  <2>2. stage[c] = "prepared" /\ stage'[c] = "gated"
    BY DEF Starts
  <2>3. Start(c)
    <3>1. ASSUME NEW d \in Call, Acquire(d) \/ Progress(d) \/ Beat(d) \/ Abort(d)
          PROVE  Start(c)
      BY <1>1, <2>2, <3>1
      DEF SpacingInv, TypeOK, Acquire, Progress, Beat, Abort, Request, Rest,
          Prepare, Skip, Start, Send, RefuseAtGate, Answer, Finish, Drain, Goto,
          GoOn
    <3>2. ASSUME NEW p \in Process, Observe(p) \/ Crash(p) PROVE FALSE
      BY <1>1, <2>2, <3>2 DEF SpacingInv, TypeOK, Observe, Crash
    <3>3. ~Tick
      BY <2>2 DEF Tick
    <3>4. QED
      BY <3>1, <3>2, <3>3 DEF Next
  <2>4. Owns(c)
    BY <1>1, <2>2, <2>3 DEF Start, Settle, Goto, SpacingInv, TypeOK
  <2>5. QED
    BY <1>1, <2>1, <2>2, <2>4 DEF SpacingInv, Fenced, Owns
<1>2. QED
  BY InitSpacing, Spacing, <1>1, PTL DEF Spec, StartsAreSpaced

\* The gate's deadline is the latest one it was told of.
GateInv == TypeOK /\ pause = limit

LEMMA GateKept == GateInv /\ [Next]_vars => GateInv'
<1> SUFFICES ASSUME GateInv, [Next]_vars PROVE GateInv'
  OBVIOUS
<1>t. TypeOK'
  BY Typing DEF GateInv
<1> USE <1>t DEF GateInv, TypeOK, history, Informed, LaterOf
<1>1. ASSUME NEW c \in Call, Acquire(c) \/ Progress(c) \/ Beat(c) \/ Abort(c)
      PROVE  pause' = limit'
  <2>1. CASE Prepare(c) \/ Answer(c)
    BY <2>1 DEF Prepare, Answer
  <2>2. CASE ~(Prepare(c) \/ Answer(c))
    BY <1>1, <2>2 DEF Acquire, Progress, Beat, Abort, Request, Rest, Skip,
                      Start, Send, RefuseAtGate, Finish, Drain
  <2>3. QED
    BY <2>1, <2>2
<1>2. ASSUME NEW p \in Process, Observe(p) \/ Crash(p) PROVE pause' = limit'
  BY <1>2 DEF Observe, Crash
<1>3. CASE Tick
  BY <1>3 DEF Tick
<1>4. CASE UNCHANGED vars
  BY <1>4 DEF vars
<1>5. QED
  BY <1>1, <1>2, <1>3, <1>4 DEF Next

\* No request of a process leaves before the latest reset it was told of.
THEOREM ResetsRespected == Spec => ResetsAreRespected
<1>1. Init => GateInv
  BY InitSpacing DEF GateInv, SpacingInv, Init
<1>2. ASSUME GateInv, [Next]_vars
      PROVE  [\A c \in Call : Sends(c) => limit[home[c]] = 0]_vars
  <2> SUFFICES ASSUME NEW c \in Call, Sends(c), Next
               PROVE  limit[home[c]] = 0
    BY <1>2 DEF vars, Sends
  <2>1. stage[c] = "gated" /\ stage'[c] = "sent"
    BY DEF Sends
  <2>2. Send(c)
    <3>1. ASSUME NEW d \in Call, Acquire(d) \/ Progress(d) \/ Beat(d) \/ Abort(d)
          PROVE  Send(c)
      BY <1>2, <2>1, <3>1
      DEF GateInv, TypeOK, Acquire, Progress, Beat, Abort, Request, Rest,
          Prepare, Skip, Start, Send, RefuseAtGate, Answer, Finish, Drain, Goto,
          GoOn
    <3>2. ASSUME NEW p \in Process, Observe(p) \/ Crash(p) PROVE FALSE
      BY <1>2, <2>1, <3>2 DEF GateInv, TypeOK, Observe, Crash
    <3>3. ~Tick
      BY <2>1 DEF Tick
    <3>4. QED
      BY <3>1, <3>2, <3>3 DEF Next
  <2>3. QED
    BY <1>2, <2>2 DEF Send, GateInv
<1>3. QED
  BY <1>1, GateKept, <1>2, PTL DEF Spec, ResetsAreRespected
-----------------------------------------------------------------------------
(* The chain of a process.  Every job but the first waits for the one just  *)
(* before it, and the tail is the last: there is a numbering of the calls   *)
(* that says so.  So only the first has its turn, and only a job that had   *)
(* its turn reaches the gate.                                               *)
Chain(p) ==
    {c \in Call : home[c] = p /\ stage[c] \in {"queued", "resting", "prepared",
                                               "gated", "sent", "draining"}}

Numbers(p, at) ==
    /\ \A c, d \in Chain(p) : at[c] = at[d] => c = d
    /\ \A c \in Chain(p) :
          IF behind[c] = None
          THEN \A d \in Chain(p) : at[c] <= at[d]
          ELSE /\ behind[c] \in Chain(p)
               /\ at[behind[c]] < at[c]
               /\ \A d \in Chain(p) : at[d] <= at[behind[c]] \/ at[c] <= at[d]
    /\ IF tail[p] = None THEN Chain(p) = {}
       ELSE tail[p] \in Chain(p) /\ \A d \in Chain(p) : at[d] <= at[tail[p]]

\* A call whose job had its turn, or that has none, waits for nobody.
Waiting == {"queued", "resting", "draining"}

ChainInv ==
    /\ TypeOK
    /\ \A c \in Call : stage[c] \notin Waiting => behind[c] = None
    /\ \A p \in Process : \E at \in [Call -> Nat] : Numbers(p, at)

Ordered == \A p \in Process : \E at \in [Call -> Nat] : Numbers(p, at)

(* Where nothing of a chain changes, its numbering stays.                   *)
LEMMA ChainStays ==
    ASSUME NEW p \in Process, NEW at \in [Call -> Nat], Numbers(p, at),
           tail'[p] = tail[p], Chain(p)' = Chain(p),
           \A c \in Chain(p) : behind'[c] = behind[c]
    PROVE  Numbers(p, at)'
BY DEF Numbers

(* A call takes its place in a chain only in its own process.               *)
LEMMA OtherChains ==
    ASSUME TypeOK, NEW c \in Call, NEW p \in Process, home[c] # p, home'[c] # p,
           \A d \in Call \ {c} : home'[d] = home[d] /\ stage'[d] = stage[d]
    PROVE  Chain(p)' = Chain(p)
BY DEF Chain

(* The job of c comes last, behind the one that was last.                   *)
LEMMA Enqueued ==
    ASSUME ChainInv, TypeOK', NEW c \in Call, stage[c] \in {"holding", "leaving"},
           Enqueue(c), home' = home, NEW label \in Waiting, Goto(c, label)
    PROVE  ChainInv'
<1> DEFINE q == home[c]
<1>1. /\ q \in Process
      /\ stage' = [stage EXCEPT ![c] = label]
      /\ behind' = [behind EXCEPT ![c] = tail[q]]
      /\ tail' = [tail EXCEPT ![q] = c]
  BY DEF ChainInv, TypeOK, Enqueue, Chained, Goto
<1>2. c \notin Chain(q) /\ Chain(q)' = Chain(q) \cup {c}
  BY <1>1 DEF Chain, Waiting, ChainInv, TypeOK
<1>3. \A d \in Call : stage'[d] \notin Waiting => behind'[d] = None
  BY <1>1 DEF ChainInv, TypeOK
<1>4. \E at \in [Call -> Nat] : Numbers(q, at)'
  <2>1. PICK at \in [Call -> Nat] : Numbers(q, at)
    BY <1>1 DEF ChainInv
  <2>2. /\ tail'[q] = c /\ behind'[c] = tail[q]
        /\ \A d \in Chain(q) : behind'[d] = behind[d]
        /\ Chain(q) \subseteq Call
    BY <1>1, <1>2 DEF ChainInv, TypeOK, Chain
  <2>3. PICK n \in Nat : \A d \in Chain(q) : at[d] < n
    <3>1. CASE tail[q] = None
      BY <2>1, <3>1 DEF Numbers
    <3>2. CASE tail[q] # None
      <4>1. tail[q] \in Call /\ \A d \in Chain(q) : at[d] <= at[tail[q]]
        BY <2>1, <2>2, <3>2 DEF Numbers
      <4>2. at[tail[q]] + 1 \in Nat /\ \A d \in Chain(q) : at[d] < at[tail[q]] + 1
        BY <2>2, <4>1
      <4>3. QED
        BY <4>2
    <3>3. QED
      BY <3>1, <3>2
  <2>4. PICK new \in [Call -> Nat] :
           new[c] = n /\ \A d \in Call \ {c} : new[d] = at[d]
    <3>1. [at EXCEPT ![c] = n] \in [Call -> Nat]
      OBVIOUS
    <3>2. QED
      BY <3>1
  <2>5. /\ \A d \in Chain(q) : new[d] = at[d] /\ new[d] < new[c]
        /\ \A d \in Chain(q) : new[d] \in Nat
        /\ new[c] \in Nat
    BY <1>2, <2>2, <2>3, <2>4
  <2>6. \A d, e \in Chain(q)' : new[d] = new[e] => d = e
    BY <1>2, <2>1, <2>5 DEF Numbers
  <2>7. \A d \in Chain(q)' : new[d] <= new[c]
    BY <1>2, <2>5
  <2>8. ASSUME NEW d \in Chain(q)'
        PROVE  IF behind'[d] = None
               THEN \A e \in Chain(q)' : new[d] <= new[e]
               ELSE /\ behind'[d] \in Chain(q)'
                    /\ new[behind'[d]] < new[d]
                    /\ \A e \in Chain(q)' : new[e] <= new[behind'[d]] \/ new[d] <= new[e]
    <3>1. CASE d = c
      <4>1. CASE tail[q] = None
        BY <1>2, <2>1, <2>2, <2>5, <3>1, <4>1 DEF Numbers
      <4>2. CASE tail[q] # None
        BY <1>2, <2>1, <2>2, <2>5, <3>1, <4>2 DEF Numbers
      <4>3. QED
        BY <4>1, <4>2
    <3>2. CASE d # c
      <4>1. d \in Chain(q) /\ behind'[d] = behind[d]
        BY <1>2, <2>2, <2>8, <3>2
      <4>2. CASE behind[d] = None
        BY <1>2, <2>1, <2>5, <4>1, <4>2 DEF Numbers
      <4>3. CASE behind[d] # None
        <5>1. /\ behind[d] \in Chain(q) /\ at[behind[d]] < at[d]
              /\ \A e \in Chain(q) : at[e] <= at[behind[d]] \/ at[d] <= at[e]
          BY <2>1, <4>1, <4>3 DEF Numbers
        <5>2. QED
          BY <1>2, <2>5, <4>1, <4>3, <5>1
      <4>4. QED
        BY <4>2, <4>3
    <3>3. QED
      BY <3>1, <3>2
  <2>9. Numbers(q, new)'
    BY <1>2, <2>2, <2>6, <2>7, <2>8, PacingAssumption DEF Numbers
  <2>10. QED
    BY <2>4, <2>9
<1>5. ASSUME NEW p \in Process, p # q PROVE \E at \in [Call -> Nat] : Numbers(p, at)'
  <2>1. PICK at \in [Call -> Nat] : Numbers(p, at)
    BY DEF ChainInv
  <2>2. Chain(p)' = Chain(p)
    BY <1>1, <1>5, OtherChains DEF ChainInv, TypeOK
  <2>3. tail'[p] = tail[p] /\ \A d \in Chain(p) : behind'[d] = behind[d]
    BY <1>1, <1>5 DEF ChainInv, TypeOK, Chain
  <2>4. QED
    BY <2>1, <2>2, <2>3, ChainStays
<1>6. QED
  BY <1>3, <1>4, <1>5 DEF ChainInv

(* The job of c, which is the first, leaves the chain, and the second is    *)
(* the first.                                                               *)
LEMMA Settled ==
    ASSUME ChainInv, TypeOK', NEW c \in Call, stage[c] # "idle", c \in Chain(home[c]), Turn(c), Settle(c),
           NEW label \in {"idle", "holding", "leaving"}, Goto(c, label),
           \A d \in Call \ {c} : home'[d] = home[d]
    PROVE  ChainInv'
<1> PICK q \in Process : q = home[c]
  BY DEF ChainInv, TypeOK, Chain
<1>1. /\ stage' = [stage EXCEPT ![c] = label]
      /\ \A d \in Call : behind'[d] = IF behind[d] = c THEN None ELSE behind[d]
      /\ \A p \in Process : tail'[p] = IF tail[p] = c THEN None ELSE tail[p]
      /\ behind[c] = None
  BY DEF ChainInv, TypeOK, Settle, Goto, Chain, Turn
<1>2. Chain(q)' = Chain(q) \ {c}
  BY <1>1 DEF Chain, ChainInv, TypeOK
<1>3. \A d \in Call : stage'[d] \notin Waiting => behind'[d] = None
  BY <1>1 DEF ChainInv, TypeOK
<1>4. \E at \in [Call -> Nat] : Numbers(q, at)'
  <2>1. PICK at \in [Call -> Nat] : Numbers(q, at)
    BY <1>1 DEF ChainInv
  <2>2. /\ Chain(q) \subseteq Call /\ (\A d \in Chain(q) : at[d] \in Nat)
        /\ \A d \in Chain(q) : at[c] <= at[d] /\ (d # c => at[c] < at[d])
    <3>1. Chain(q) \subseteq Call /\ (\A d \in Chain(q) : at[d] \in Nat)
      BY DEF Chain
    <3>2. \A d \in Chain(q) : at[c] <= at[d]
      BY <1>1, <2>1 DEF Numbers
    <3>3. QED
      BY <2>1, <3>1, <3>2 DEF Numbers
  <2>3. \A d, e \in Chain(q)' : at[d] = at[e] => d = e
    BY <1>2, <2>1 DEF Numbers
  <2>4. IF tail'[q] = None THEN Chain(q)' = {}
        ELSE tail'[q] \in Chain(q)' /\ \A d \in Chain(q)' : at[d] <= at[tail'[q]]
    <3>1. CASE tail[q] = c
      <4>1. \A d \in Chain(q) : at[d] <= at[c]
        BY <2>1, <3>1, PacingAssumption DEF Numbers
      <4>2. Chain(q) = {c}
        BY <2>2, <4>1
      <4>3. QED
        BY <1>1, <1>2, <3>1, <4>2
    <3>2. CASE tail[q] # c
      BY <1>1, <1>2, <2>1, <3>2 DEF Numbers
    <3>3. QED
      BY <3>1, <3>2
  <2>5. ASSUME NEW d \in Chain(q)'
        PROVE  IF behind'[d] = None
               THEN \A e \in Chain(q)' : at[d] <= at[e]
               ELSE /\ behind'[d] \in Chain(q)'
                    /\ at[behind'[d]] < at[d]
                    /\ \A e \in Chain(q)' : at[e] <= at[behind'[d]] \/ at[d] <= at[e]
    <3>1. d \in Chain(q) /\ d # c /\ d \in Call
      BY <1>2, <2>2, <2>5
    <3>2. behind[d] # None
      <4>1. SUFFICES ASSUME behind[d] = None PROVE FALSE
        OBVIOUS
      <4>2. at[d] <= at[c]
        BY <2>1, <3>1, <4>1 DEF Numbers
      <4>3. QED
        BY <2>2, <3>1, <4>2
    <3>3. /\ behind[d] \in Chain(q) /\ at[behind[d]] < at[d]
          /\ \A e \in Chain(q) : at[e] <= at[behind[d]] \/ at[d] <= at[e]
      BY <2>1, <3>1, <3>2 DEF Numbers
    <3>4. CASE behind[d] = c
      <4>1. behind'[d] = None
        BY <1>1, <3>1, <3>4
      <4>2. \A e \in Chain(q)' : at[d] <= at[e]
        BY <1>2, <2>2, <3>3, <3>4
      <4>3. QED
        BY <4>1, <4>2
    <3>5. CASE behind[d] # c
      <4>1. behind'[d] = behind[d]
        BY <1>1, <3>1, <3>5
      <4>2. QED
        BY <1>2, <3>2, <3>3, <3>5, <4>1
    <3>6. QED
      BY <3>4, <3>5
  <2>6. Numbers(q, at)'
    BY <2>3, <2>4, <2>5 DEF Numbers
  <2>7. QED
    BY <2>6
<1>5. ASSUME NEW p \in Process, p # q PROVE \E at \in [Call -> Nat] : Numbers(p, at)'
  <2>1. PICK at \in [Call -> Nat] : Numbers(p, at)
    BY DEF ChainInv
  <2>2. c \notin Chain(p) /\ Chain(p)' = Chain(p)
    BY <1>1, <1>5 DEF Chain, ChainInv, TypeOK
  <2>3. \A d \in Chain(p) : behind[d] # c
    BY <2>1, <2>2, PacingAssumption DEF Numbers
  <2>4. tail[p] # c
    BY <2>1, <2>2, PacingAssumption DEF Numbers
  <2>5. tail'[p] = tail[p] /\ \A d \in Chain(p) : behind'[d] = behind[d]
    BY <1>1, <2>3, <2>4 DEF Chain
  <2>6. QED
    BY <2>1, <2>2, <2>5, ChainStays
<1>6. QED
  BY <1>3, <1>4, <1>5 DEF ChainInv

(* A step that leaves the chains alone: a call moves inside its chain once  *)
(* it has had its turn, or outside of all.                                  *)
LEMMA ChainsAlone ==
    ASSUME ChainInv, TypeOK', NEW c \in Call, UNCHANGED <<behind, tail>>,
           \A d \in Call \ {c} : home'[d] = home[d] /\ stage'[d] = stage[d],
           \/ /\ home'[c] = home[c]
              /\ {stage[c], stage'[c]} \subseteq Waiting \cup {"prepared", "gated", "sent"}
           \/ /\ {stage[c], stage'[c]} \subseteq {"idle", "holding", "leaving"},
           stage'[c] \notin Waiting => behind[c] = None
    PROVE  ChainInv'
<1>1. \A p \in Process : Chain(p)' = Chain(p)
  BY DEF Chain, Waiting
<1>2. \A d \in Call : stage'[d] \notin Waiting => behind'[d] = None
  BY DEF ChainInv
<1>3. ASSUME NEW p \in Process PROVE \E at \in [Call -> Nat] : Numbers(p, at)'
  BY <1>1, ChainStays DEF ChainInv
<1>4. QED
  BY <1>2, <1>3 DEF ChainInv

LEMMA ChainStep == ChainInv /\ [Next]_vars => ChainInv'
<1> SUFFICES ASSUME ChainInv, [Next]_vars PROVE ChainInv'
  OBVIOUS
<1> TypeOK /\ TypeOK'
  BY Typing DEF ChainInv
<1>1. ASSUME NEW c \in Call, Acquire(c) \/ Progress(c) \/ Beat(c) \/ Abort(c)
      PROVE  ChainInv'
  <2>1. CASE Acquire(c) \/ Beat(c) \/ Abort(c)
    <3>1. UNCHANGED <<behind, tail>>
      BY <2>1 DEF Acquire, Beat, Abort
    <3>2. \/ UNCHANGED <<home, stage>>
          \/ /\ stage[c] = "idle" /\ stage' = [stage EXCEPT ![c] = "holding"]
             /\ \E p \in Process : home' = [home EXCEPT ![c] = p]
      BY <2>1 DEF Acquire, Beat, Abort, Goto
    <3>3. CASE UNCHANGED <<home, stage>>
      <4>1. \A p \in Process : Chain(p)' = Chain(p)
        BY <3>3 DEF Chain
      <4>2. QED
        BY <3>1, <3>3, <4>1, ChainStays DEF ChainInv
    <3>4. CASE stage[c] = "idle" /\ stage' = [stage EXCEPT ![c] = "holding"]
      BY <3>1, <3>2, <3>4, ChainsAlone, ZenonT(60) DEF TypeOK, Waiting, ChainInv
    <3>5. QED
      BY <3>2, <3>3, <3>4
  <2>2. CASE Request(c) \/ Finish(c)
    <3>1. PICK label \in Waiting : Goto(c, label)
      BY <2>2 DEF Request, Finish, Waiting
    <3>2. QED
      BY <2>2, <3>1, Enqueued DEF Request, Finish
  <2>3. CASE Prepare(c) \/ Send(c)
    <3>1. /\ UNCHANGED <<behind, tail, home>>
          /\ stage[c] \in {"queued", "gated"} /\ behind[c] = None
          /\ \E label \in {"prepared", "sent"} : stage' = [stage EXCEPT ![c] = label]
      BY <2>3 DEF Prepare, Send, Goto, Turn, ChainInv, Waiting
    <3>2. QED
      BY <3>1, ChainsAlone DEF TypeOK, Waiting
  <2>4. CASE Start(c) /\ Owns(c)
    <3>1. /\ UNCHANGED <<behind, tail, home>>
          /\ stage[c] = "prepared" /\ behind[c] = None
          /\ stage' = [stage EXCEPT ![c] = "gated"]
      BY <2>4 DEF Start, Goto, ChainInv, Waiting
    <3>2. QED
      BY <3>1, ChainsAlone DEF TypeOK, Waiting
  <2>5. CASE (Start(c) /\ ~Owns(c)) \/ Rest(c) \/ Skip(c) \/ RefuseAtGate(c) \/ Answer(c)
    <3>1. /\ stage[c] \in {"queued", "resting", "prepared", "gated", "sent"}
          /\ Settle(c) /\ home' = home
      BY <2>5 DEF Start, Rest, Skip, RefuseAtGate, Refused, Answer
    <3>2. Turn(c)
      BY <2>5 DEF Start, Rest, Skip, RefuseAtGate, Refused, Answer, ChainInv, Waiting, Turn
    <3>3. PICK label \in {"idle", "holding", "leaving"} : Goto(c, label)
      BY <2>5 DEF Start, Rest, Skip, RefuseAtGate, Answer, GoOn
    <3>4. c \in Chain(home[c])
      BY <3>1 DEF Chain
    <3>5. QED
      BY <3>1, <3>2, <3>3, <3>4, Settled
  <2>6. CASE Drain(c)
    <3>1. /\ stage[c] = "draining" /\ Turn(c) /\ Settle(c) /\ Goto(c, "idle")
          /\ home' = [home EXCEPT ![c] = None]
      BY <2>6 DEF Drain
    <3>2. c \in Chain(home[c]) /\ \A d \in Call \ {c} : home'[d] = home[d]
      BY <3>1 DEF Chain, TypeOK
    <3>3. QED
      BY <3>1, <3>2, Settled
  <2>7. QED
    BY <1>1, <2>1, <2>2, <2>3, <2>4, <2>5, <2>6 DEF Progress
<1>2. ASSUME NEW p \in Process, Crash(p) PROVE ChainInv'
  <2>1. /\ \A c \in Call : IF home[c] = p
                           THEN stage'[c] = "idle" /\ behind'[c] = None /\ home'[c] = None
                           ELSE /\ stage'[c] = stage[c] /\ behind'[c] = behind[c]
                                /\ home'[c] = home[c]
        /\ tail'[p] = None /\ \A q \in Process \ {p} : tail'[q] = tail[q]
    BY <1>2 DEF Crash, TypeOK
  <2>2. Chain(p)' = {} /\ \A q \in Process \ {p} : Chain(q)' = Chain(q)
    BY <2>1, PacingAssumption DEF Chain
  <2>3. \A c \in Call : stage'[c] \notin Waiting => behind'[c] = None
    BY <2>1 DEF ChainInv
  <2>4. ASSUME NEW q \in Process, q # p PROVE \E at \in [Call -> Nat] : Numbers(q, at)'
    <3>1. \A c \in Chain(q) : behind'[c] = behind[c]
      BY <2>1, <2>4 DEF Chain
    <3>2. QED
      BY <2>1, <2>2, <2>4, <3>1, ChainStays DEF ChainInv
  <2>5. \E at \in [Call -> Nat] : Numbers(p, at)'
    <3>1. PICK at \in [Call -> Nat] : TRUE
      <4>1. [c \in Call |-> 0] \in [Call -> Nat]
        OBVIOUS
      <4>2. QED
        BY <4>1
    <3>2. Numbers(p, at)'
      BY <2>1, <2>2 DEF Numbers
    <3>3. QED
      BY <3>2
  <2>6. QED
    BY <2>3, <2>4, <2>5 DEF ChainInv
<1>3. ASSUME UNCHANGED <<behind, tail, home, stage>> PROVE ChainInv'
  <2>1. \A p \in Process : Chain(p)' = Chain(p)
    BY <1>3 DEF Chain
  <2>2. QED
    BY <1>3, <2>1, ChainStays DEF ChainInv
<1>4. ASSUME NEW p \in Process, Observe(p) PROVE ChainInv'
  BY <1>3, <1>4 DEF Observe
<1>5. CASE Tick \/ UNCHANGED vars
  BY <1>3, <1>5 DEF Tick, vars
<1>6. QED
  BY <1>1, <1>2, <1>4, <1>5 DEF Next

LEMMA ChainKept == Spec => []ChainInv
<1>1. Init => ChainInv
  <2> SUFFICES ASSUME Init PROVE ChainInv
    OBVIOUS
  <2>1. TypeOK
    BY PacingAssumption DEF Init, TypeOK, Stage
  <2>2. \A p \in Process : Chain(p) = {} /\ tail[p] = None
    BY DEF Init, Chain
  <2>3. [c \in Call |-> 0] \in [Call -> Nat]
    OBVIOUS
  <2>4. \A p \in Process : Numbers(p, [c \in Call |-> 0])
    BY <2>2 DEF Numbers
  <2>5. QED
    BY <2>1, <2>3, <2>4 DEF Init, ChainInv
<1>2. QED
  BY <1>1, ChainStep, PTL DEF Spec

(* Two mutations of one process are never under way together, whatever lease *)
(* is lost and taken meanwhile: only the first of its chain has had its turn *)
(* (MutationPacer, #enqueue).                                                *)
THEOREM MutationsAreSingle == Spec => []OneAtATime
<1>1. ChainInv => OneAtATime
  <2> SUFFICES ASSUME ChainInv, NEW c \in Call, NEW d \in Call, home[c] = home[d],
                      {stage[c], stage[d]} \subseteq {"gated", "sent"}
               PROVE  c = d
    BY DEF OneAtATime
  <2>1. PICK p \in Process : p = home[c] /\ p = home[d]
    BY DEF ChainInv, TypeOK
  <2>2. PICK at \in [Call -> Nat] : Numbers(p, at)
    BY DEF ChainInv
  <2>3. c \in Chain(p) /\ d \in Chain(p) /\ behind[c] = None /\ behind[d] = None
    BY <2>1 DEF Chain, ChainInv, Waiting
  <2>4. at[c] <= at[d] /\ at[d] <= at[c]
    BY <2>2, <2>3 DEF Numbers
  <2>5. at[c] = at[d]
    BY <2>4
  <2>6. QED
    BY <2>2, <2>3, <2>5 DEF Numbers
<1>2. QED
  BY <1>1, ChainKept, PTL
=============================================================================
