--------------------------- MODULE ServingProofs ---------------------------
(***************************************************************************)
(* The process and the dispatch together, for any set of tool calls and any *)
(* set of answers: each keeps what it promises alone, and the shutdown      *)
(* closes nothing over a mutation whose outcome is not on record.           *)
(***************************************************************************)
EXTENDS Serving, TLAPS

(* The process.  The invariant says how far the shutdown is from what is    *)
(* open and at work: it has drained only when nothing is active, nothing    *)
(* becomes active once it was asked for, and the services are created       *)
(* before any server is open.                                               *)
Stopping == shutdown # "no" <=> ~accepting

Drained == shutdown \in {"drained", "closing", "done"} => active = {}

Closed ==
    /\ server = "closed" => shutdown \in {"closing", "done"}
    /\ shutdown \in {"closing", "done"} => server # "open"
    /\ store = "closed" <=> shutdown = "done"
    /\ main = "ended" => shutdown = "done"

Starting ==
    /\ main = "booting" => shutdown = "no" /\ active = {}
    /\ Boot \in active => main = "creating"
    /\ main \in {"booting", "creating", "created"} =>
            server = "absent" /\ active \subseteq {Boot}

IInv == TypeOK /\ Stopping /\ EveryoneIsTold /\ Drained /\ Closed /\ Starting

USE DEF Operation

LEMMA InitInv == Init => IInv
BY DEF Init, IInv, TypeOK, Stopping, EveryoneIsTold, Drained, Closed, Starting

\* Asking for the shutdown keeps all of it, whatever is active.
LEMMA StepInv == IInv /\ [Next]_vars => IInv'
<1> SUFFICES ASSUME IInv, [Next]_vars PROVE IInv'
  OBVIOUS
<1> USE LifecycleAssumption
        DEF IInv, TypeOK, Stopping, EveryoneIsTold, Drained, Closed, Starting
<1>1. CASE Begin
  BY <1>1 DEF Begin, Request, Idle, ToTell
<1>2. CASE Serve
  BY <1>2 DEF Serve, MayServe
<1>3. CASE Connect
  BY <1>3 DEF Connect, Request, Idle, ToTell
<1>4. CASE End
  BY <1>4 DEF End
<1>5. CASE Stop
  BY <1>5 DEF Stop, Request, Idle, ToTell
<1>6. CASE CloseServer
  BY <1>6 DEF CloseServer
<1>7. CASE CloseStore
  BY <1>7 DEF CloseStore
<1>8. ASSUME NEW t \in Tool, Call(t) PROVE IInv'
  BY <1>8 DEF Call, Admits
<1>9. ASSUME NEW t \in Tool, Cancel(t) PROVE IInv'
  BY <1>9 DEF Cancel
<1>10. ASSUME NEW o \in Operation, Settle(o) PROVE IInv'
  <2>1. CASE o = Boot
    <3>1. active = {Boot} /\ active' = {} /\ server = "absent"
      BY <1>10, <2>1 DEF Settle
    <3> QED
      BY <1>10, <2>1, <3>1 DEF Settle, Rest
  <2>2. CASE o # Boot
    BY <1>10, <2>2 DEF Settle, Rest
  <2> QED
    BY <2>1, <2>2
<1>11. CASE UNCHANGED vars
  BY <1>11 DEF vars
<1> QED
  BY <1>1, <1>2, <1>3, <1>4, <1>5, <1>6, <1>7, <1>8, <1>9, <1>10, <1>11 DEF Next

LEMMA Invariance == Spec => []IInv
BY InitInv, StepInv, PTL DEF Spec

\* The store and the server are closed over nobody's work, however the signal,
\* the creation of the services and the tool calls interleave.
THEOREM WorkIsDrained == Spec => []StoreOutlivesWork
<1>1. IInv => StoreOutlivesWork
  BY DEF IInv, Drained, Closed, StoreOutlivesWork
<1> QED
  BY <1>1, Invariance, PTL

\* No operation is at work during a shutdown without having been told.
THEOREM AllAreTold == Spec => []EveryoneIsTold
<1>1. IInv => EveryoneIsTold
  BY DEF IInv
<1> QED
  BY <1>1, Invariance, PTL

\* runServer returns with store and server closed.
THEOREM CleanEnd == Spec => []EndsClean
<1>1. IInv => EndsClean
  BY DEF IInv, Closed, EndsClean
<1> QED
  BY <1>1, Invariance, PTL

----------------------------------------------------------------------------
(* A dispatch, whose signal may fire at any moment and whatever GitHub may  *)
(* answer, provided that what it answers is true.                           *)

\* Where the call is tells what can have become of the mutation: it has not left
\* before "sent", and what is being verified was carried out.
Known ==
    /\ stage \in {"preparing", "prepared", "gated"} =>
          effect = "none" /\ verdict = "none"
    /\ stage \in {"sent", "verifying"} =>
          effect \in {"open", "landed", "lost"} /\ verdict = "none"
    /\ stage = "verifying" => effect = "landed"
    /\ stage # "ended" => ~hidden
    /\ stage = "ended" => verdict # "none"
    /\ stage \in {"preparing", "prepared", "gated", "sent", "verifying", "ended"}

\* An error that is taken for final after an answer is one of a refusal, for an
\* answer with GraphQL errors and for one that the transport throws at.
LEMMA GraphqlErrorIsRefusal ==
    ASSUME NEW a \in Answers, kind \notin D!Starring, D!Returned(a), a.errors # {},
           D!Outcome(D!GraphqlError(a.errors)) = "failed"
    PROVE  D!Refusal(a)
<1>1. ~D!GraphqlError(a.errors).retryable
  BY DEF D!Outcome
<1>2. ~(a.errors \subseteq D!Failing)
  BY <1>1 DEF D!GraphqlError, D!Failing, D!Again, D!Final
<1> QED
  BY <1>2 DEF D!Refusal, D!Returned

LEMMA CaughtIsRefusal ==
    ASSUME NEW a \in Answers, ~D!GateThrows(a), D!Outcome(D!Caught(a)) = "failed"
    PROVE  D!Refusal(a)
<1>1. D!KnownRejection(a)
  BY DEF D!Caught, D!Outcome, D!Ambiguous
<1> QED
  BY <1>1 DEF D!KnownRejection, D!Refusal

\* The gate throws at failing answers only.
LEMMA ThrownIsNotReturned ==
    ASSUME NEW a, D!GateThrows(a)
    PROVE  ~D!Returned(a)
<1> DEFINE s == a.status
<1>1. s \in 400..599
  BY Zenon DEF D!GateThrows
<1> HIDE DEF s
<1>2. s \in Int /\ 400 <= s
  BY <1>1
<1>3. s \notin 200..299 /\ s # 200
  BY <1>2
<1> QED
  BY <1>3 DEF D!Returned, s

\* The exception is real: a failing answer to what was sent, with a time that has
\* passed or is too far ahead, puts "failed" on record whatever became of the
\* mutation (observeClassifiedFailure throws before executeMutationOnce asks
\* whether it had left).
THEOREM GateHidesTheDispatch ==
    ASSUME NEW a \in Answers, D!Answer(a), D!GateThrows(a), Apply \notin told
    PROVE  verdict' = "failed" /\ UNCHANGED effect
<1>1. ~D!Returned(a)
  BY ThrownIsNotReturned
<1>2. D!Outcome(D!Caught(a)) = "failed"
  BY DEF D!Outcome, D!Caught, D!Final
<1> QED
  BY <1>1, <1>2 DEF D!Answer, D!Throw, D!Put

\* What is left is good.
LEMMA ReceiptIsGood ==
    ASSUME NEW a \in Answers, D!Returned(a), D!Receipt(a),
           kind \in D!Starring \/ a.errors = {}
    PROVE  D!Good(a)
<1>1. CASE kind \in D!Starring
  <2>1. kind \notin {"list_create", "list_update"} /\ kind # "list_delete"
    BY <1>1 DEF D!Starring
  <2>2. a.status = 204
    BY <1>1, <2>1 DEF D!Receipt
  <2> QED
    BY <1>1, <2>2 DEF D!Returned, D!Good
<1>2. CASE kind \notin D!Starring
  BY <1>2 DEF D!Returned, D!Good
<1> QED
  BY <1>1, <1>2

LEMMA KnownInvariant == D!Spec => []Known
<1>1. D!Init => Known
  BY DEF D!Init, Known
<1>2. Known /\ [D!Next]_(D!vars) => Known'
  <2> SUFFICES ASSUME Known, [D!Next]_(D!vars) PROVE Known'
    OBVIOUS
  <2>1. CASE D!Prepare
    BY <2>1 DEF Known, D!Prepare, D!Put
  <2>2. CASE D!Start
    BY <2>2 DEF Known, D!Start, D!Put
  <2>3. CASE D!Refuse
    BY <2>3 DEF Known, D!Refuse, D!Throw, D!Put, D!Outcome
  <2>4. CASE D!Send
    BY <2>4 DEF Known, D!Send
  <2>5. ASSUME NEW a \in Answers, D!Truthful(a), D!Answer(a), hidden' = D!Hides(a)
        PROVE  Known'
    <3>1. CASE stage' = "ended"
      BY <2>5, <3>1 DEF Known, D!Answer, D!Throw, D!Put, D!Outcome
    <3>2. CASE stage' # "ended"
      <4>1. D!Returned(a) /\ D!Receipt(a) /\ (kind \in D!Starring \/ a.errors = {})
        BY <2>5, <3>2 DEF D!Answer, D!Throw, D!Put
      <4>2. effect = "landed"
        BY <2>5, <4>1, ReceiptIsGood DEF D!Truthful
      <4>3. ~hidden'
        BY <2>5, <4>1, ThrownIsNotReturned DEF D!Hides
      <4> QED
        BY <2>5, <3>2, <4>1, <4>2, <4>3 DEF Known, D!Answer
    <3> QED
      BY <3>1, <3>2
  <2>6. CASE D!Interrupted
    BY <2>6 DEF Known, D!Interrupted, D!Throw, D!Put, D!Outcome
  <2>7. CASE D!Verify
    BY <2>7 DEF Known, D!Verify, D!Throw, D!Put, D!Outcome
  <2>8. CASE D!Land \/ D!Lose
    BY <2>8 DEF Known, D!Land, D!Lose
  <2>9. CASE D!Edit \/ D!Abort \/ UNCHANGED D!vars
    BY <2>9 DEF Known, D!Edit, D!Abort, D!vars
  <2> QED
    BY <2>1, <2>2, <2>3, <2>4, <2>5, <2>6, <2>7, <2>8, <2>9 DEF D!Next, D!Own, D!Answered
<1> QED
  BY <1>1, <1>2, PTL DEF D!Spec

\* Every step of a dispatch is one of the promise, or none, or the answer of a
\* mutation that the gate throws at and that is no refusal: in every other case the
\* outcome on record says no more than is known of the mutation.
THEOREM PromiseKeptButForTheGate == D!Spec => D!PromiseButForTheGate
<1>1. D!Init => D!Promise!Init
  BY DEF D!Init, D!Promise!Init
<1>2. Known /\ [D!Next]_(D!vars) => [D!Promise!Next \/ D!Hidden]_<<effect, verdict>>
  <2> SUFFICES ASSUME Known, [D!Next]_(D!vars)
               PROVE  [D!Promise!Next \/ D!Hidden]_<<effect, verdict>>
    OBVIOUS
  <2> USE DEF D!Promise!Next
  <2>1. CASE D!Prepare \/ D!Start
    BY <2>1 DEF Known, D!Prepare, D!Start, D!Put, D!Promise!Decide
  <2>2. CASE D!Refuse
    BY <2>2 DEF Known, D!Refuse, D!Throw, D!Put, D!Outcome, D!Promise!Decide
  <2>3. CASE D!Send
    BY <2>3 DEF Known, D!Send, D!Promise!Depart
  <2>4. ASSUME NEW a \in Answers, D!Truthful(a), D!Answer(a), hidden' = D!Hides(a)
        PROVE  [D!Promise!Next \/ D!Hidden]_<<effect, verdict>>
    <3>1. effect' = effect
      BY <2>4 DEF D!Answer
    <3>2. CASE verdict' = verdict
      BY <3>1, <3>2
    <3>3. CASE D!GateThrows(a) /\ ~D!Refusal(a)
      BY <2>4, <3>3 DEF D!Hidden, D!Hides, Known, D!Answer
    <3>4. CASE verdict' # verdict /\ (D!GateThrows(a) => D!Refusal(a))
      <4>1. PICK error :
              /\ verdict' = D!Outcome(error)
              /\ \/ error = D!Caught(a)
                 \/ /\ D!Returned(a) /\ kind \notin D!Starring /\ a.errors # {}
                    /\ error = D!GraphqlError(a.errors)
                 \/ error = D!Ambiguous
        BY <2>4, <3>4 DEF D!Answer, D!Throw, D!Put
      <4>2. CASE D!Outcome(error) = "failed"
        <5>1. error # D!Ambiguous
          BY <4>2 DEF D!Outcome, D!Ambiguous
        <5>2. effect = "lost"
          BY <2>4, <3>4, <4>1, <4>2, <5>1, CaughtIsRefusal, GraphqlErrorIsRefusal
             DEF D!Truthful
        <5> QED
          BY <2>4, <3>1, <4>1, <4>2, <5>2 DEF Known, D!Answer, D!Promise!Decide
      <4>3. CASE D!Outcome(error) = "unresolved"
        BY <2>4, <3>1, <4>1, <4>3 DEF Known, D!Answer, D!Promise!Decide
      <4> QED
        BY <4>2, <4>3 DEF D!Outcome
    <3> QED
      BY <3>2, <3>3, <3>4
  <2>5. CASE D!Interrupted
    BY <2>5 DEF Known, D!Interrupted, D!Throw, D!Put, D!Outcome, D!Ambiguous, D!Promise!Decide
  <2>6. CASE D!Verify
    BY <2>6 DEF Known, D!Verify, D!Throw, D!Put, D!Outcome, D!Ambiguous, D!Promise!Decide
  <2>7. CASE D!Land \/ D!Lose
    BY <2>7 DEF D!Land, D!Lose, D!Promise!Carry
  <2>8. CASE D!Edit \/ D!Abort \/ UNCHANGED D!vars
    BY <2>8 DEF D!Edit, D!Abort, D!vars
  <2> QED
    BY <2>1, <2>2, <2>3, <2>4, <2>5, <2>6, <2>7, <2>8 DEF D!Next, D!Own, D!Answered
<1> QED
  BY <1>1, <1>2, KnownInvariant, PTL
     DEF D!Spec, D!PromiseButForTheGate

----------------------------------------------------------------------------
(* The process and the dispatch in it.                                      *)
(* Every step is one of the process, or leaves the process as it is.        *)
LEMMA ProcessStep == [NextAll]_allVars => [Next]_vars
BY DEF NextAll, ServerStep, DispatchStep, AnswerArrives, Elsewhere, allVars,
       server_vars

(* Nobody who was told is untold.                                           *)
LEMMA ToldGrows == Next => told \subseteq told'
BY DEF Next, Begin, Serve, Connect, End, Stop, CloseServer, CloseStore, Call,
       Cancel, Settle, Request

(* Every step is one of the dispatch, its abort, or none.                   *)
LEMMA DispatchStepOrNone == [NextAll]_allVars => [D!Next]_(D!vars)
<1> SUFFICES ASSUME [NextAll]_allVars PROVE [D!Next]_(D!vars)
  OBVIOUS
<1>1. CASE ServerStep
  <2>1. UNCHANGED dispatch_vars /\ (Apply \in told => Apply \in told')
    BY <1>1, ToldGrows DEF ServerStep
  <2>2. CASE Apply \in told <=> Apply \in told'
    BY <2>1, <2>2 DEF dispatch_vars, D!vars
  <2>3. CASE Apply \notin told /\ Apply \in told'
    BY <2>1, <2>3 DEF dispatch_vars, D!Abort, D!Next
  <2> QED
    BY <2>1, <2>2, <2>3
<1>2. CASE DispatchStep \/ AnswerArrives \/ Elsewhere
  BY <1>2 DEF DispatchStep, AnswerArrives, Elsewhere, D!Next
<1> QED
  BY <1>1, <1>2 DEF NextAll, allVars, dispatch_vars, server_vars, vars, D!vars

(* The process contains a dispatch as module Dispatch specifies it.         *)
LEMMA RunsADispatch == SpecAll => D!Spec
<1>1. InitAll => D!Init
  BY DEF InitAll
<1> QED
  BY <1>1, DispatchStepOrNone, PTL DEF SpecAll, D!Spec

LEMMA RunsAServer == SpecAll => Spec
<1>1. InitAll => Init
  BY DEF InitAll
<1> QED
  BY <1>1, ProcessStep, PTL DEF SpecAll, Spec

(* In a server that is shut down at any moment, as on its own, a dispatch   *)
(* never says more than is known of its mutation, but for the gate.         *)
THEOREM ServedPromiseKeptButForTheGate == SpecAll => PromiseButForTheGate
BY RunsADispatch, PromiseKeptButForTheGate, PTL DEF PromiseButForTheGate

\* A dispatch that has begun and not ended is one of a call at work.
AtWork == stage \notin {"preparing", "ended"} => Apply \in active

LEMMA AtWorkInv == IInv /\ AtWork /\ [NextAll]_allVars => AtWork'
<1> SUFFICES ASSUME AtWork, [NextAll]_allVars PROVE AtWork'
  OBVIOUS
<1>1. CASE ServerStep
  BY <1>1 DEF ServerStep, AtWork, dispatch_vars
<1>2. CASE DispatchStep \/ AnswerArrives
  BY <1>2 DEF DispatchStep, AnswerArrives, AtWork, server_vars, vars
<1>3. CASE Elsewhere
  BY <1>3 DEF Elsewhere, AtWork, server_vars, vars, D!Land, D!Lose, D!Edit
<1> QED
  BY <1>1, <1>2, <1>3 DEF NextAll, allVars, dispatch_vars, server_vars, vars, AtWork

(* Whenever the signal comes, the outcome of what was sent to GitHub is on  *)
(* record before the server and the store are closed.                       *)
THEOREM OutcomeRecorded == SpecAll => []OutcomeIsRecorded
<1>1. InitAll => AtWork
  BY DEF InitAll, D!Init, AtWork
<1>2. SpecAll => []IInv
  BY RunsAServer, Invariance, PTL
<1>3. SpecAll => []Known
  BY RunsADispatch, KnownInvariant, PTL
<1>4. IInv /\ Known /\ AtWork => OutcomeIsRecorded
  BY DEF IInv, Drained, Closed, Known, AtWork, OutcomeIsRecorded
<1> QED
  BY <1>1, <1>2, <1>3, <1>4, AtWorkInv, PTL DEF SpecAll
=============================================================================
