---------------------------- MODULE ReadsProofs -----------------------------
(***************************************************************************)
(* Theorems about Reads, for any number of workers, repositories, attempts  *)
(* and answers: nothing of a discovery call outlives it, and the evidence   *)
(* it returns is what GitHub said of each repository.                       *)
(*                                                                          *)
(* The argument is who owns an index: below nextIndex every one has its     *)
(* record, or one worker that is still asking for it, or the pool has been  *)
(* stopped; and only its owner's request is answered (OwnedInv).            *)
(***************************************************************************)
EXTENDS Reads, FiniteSetTheorems, TLAPS

Busy == {"gate", "sent", "backoff"}
Failure == Codes \cup {"cancelled"}
NotFound == <<"http", 404>>
Served == <<"http", 200>>
Evidence(answer) == CASE answer = Served -> "readme"
                      [] answer = NotFound -> "missing"

Typed ==
    /\ stage \in [Reader -> Busy \cup {"idle", "ended"}]
    /\ index \in [Worker -> Nat]
    /\ next \in Nat
    /\ stopped \in BOOLEAN
    /\ failure \in Failure \cup {None}
    /\ output \in [Position -> {None, "readme", "missing"}]
    /\ mode \in EvidenceModes
    /\ call \in [kind : {"open", "failed"} \cup EvidenceModes,
                 code : Failure \cup {"STORAGE_ERROR", None}]
    /\ aborted \in BOOLEAN
    /\ DOMAIN told = Position

\* The pool has not begun before the search has ended.
SearchInv ==
    IF stage[Search] = "ended" THEN \A w \in Worker : stage[w] # "idle"
    ELSE /\ stage[Search] \in Busy
         /\ \A w \in Worker : stage[w] = "idle"
         /\ call = Open /\ next = 1 /\ ~stopped
         /\ \A i \in Position : output[i] = None

\* A worker that is asking owns an index that has no record yet.
OwnedInv ==
    /\ \A w \in Worker : stage[w] \in Busy =>
          index[w] \in Position /\ index[w] < next /\ output[index[w]] = None
    /\ \A v, w \in Worker :
          stage[v] \in Busy /\ stage[w] \in Busy /\ index[v] = index[w] => v = w

\* A record is what was answered; what has been taken and has none has an owner,
\* if the pool goes on.
RecordInv ==
    \A i \in Position :
        IF output[i] = None
        THEN i < next => stopped \/ \E w \in Worker : stage[w] \in Busy /\ index[w] = i
        ELSE i < next /\ told[i] \in {Served, NotFound} /\ output[i] = Evidence(told[i])

\* The first failure is kept, and a cancellation has a signal behind it.
FailureInv ==
    /\ stopped <=> failure # None
    /\ failure = "cancelled" => aborted
    /\ call.code = "cancelled" => aborted

\* A worker ends when nothing is left or the pool was stopped, and the call after
\* all of them.
EndInv ==
    /\ call.kind = "open" /\ stage[Search] = "ended" =>
          \A w \in Worker : stage[w] = "ended" => stopped \/ next > Count
    /\ call.kind # "open" => \A r \in Reader : stage[r] = "ended"
    /\ call.kind = "readme" => \A i \in Position : output[i] # None

ReadsInv == Typed /\ SearchInv /\ OwnedInv /\ RecordInv /\ FailureInv /\ EndInv

-----------------------------------------------------------------------------
(* What an answer says                                                      *)

(* A failed request has one of the codes, and NOT_FOUND is a 404.           *)
LEMMA Classifying ==
    ASSUME NEW a \in Answers
    PROVE  /\ Classified(a).code \in Codes
           /\ Classified(a).code = "NOT_FOUND" => <<a.reply, a.status>> = NotFound
<1>1. a.reply \in {"http", "unreachable", "broken"}
  BY ReadsAssumption
<1>2. /\ Never("GITHUB_UNAVAILABLE").code = "GITHUB_UNAVAILABLE"
      /\ Backoff.code = "GITHUB_UNAVAILABLE"
  BY DEF Never, Backoff
<1>3. /\ Forbidden(a).code \in {"SECONDARY_RATE_LIMITED", "RATE_LIMITED", "INSUFFICIENT_PERMISSION"}
      /\ TooMany(a).code \in {"SECONDARY_RATE_LIMITED", "RATE_LIMITED"}
  BY DEF Forbidden, TooMany, Limited, Never
<1>4. /\ HttpFailure(a).code \in Codes
      /\ HttpFailure(a).code = "NOT_FOUND" => a.status = 404
  BY <1>2, <1>3 DEF HttpFailure, Never, Codes
<1>5. CASE a.reply = "http"
  BY <1>2, <1>4, <1>5 DEF Classified, Codes, NotFound
<1>6. CASE a.reply # "http"
  BY <1>1, <1>2, <1>6 DEF Classified, Codes
<1>7. QED
  BY <1>5, <1>6

(* An answer to the request of r says something of its repository alone.    *)
HeardBy(r) ==
    /\ DOMAIN told' = Position
    /\ \A i \in Position : r = Search \/ i # index[r] => told'[i] = told[i]

LEMMA Hearing ==
    ASSUME Typed, OwnedInv, NEW r \in Reader, stage[r] \in Busy, NEW a, Hear(r, a)
    PROVE  /\ HeardBy(r)
           /\ r # Search => told'[index[r]] = <<a.reply, a.status>>
<1>1. CASE r = Search
  BY <1>1 DEF Hear, HeardBy, Typed
<1>2. CASE r # Search
  <2>1. r \in Worker /\ index[r] \in Position
    BY <1>2 DEF Reader, OwnedInv
  <2>2. told' = [told EXCEPT ![index[r]] = <<a.reply, a.status>>]
    BY <1>2 DEF Hear
  <2>3. QED
    BY <1>2, <2>1, <2>2 DEF HeardBy, Typed
<1>3. QED
  BY <1>1, <1>2

(* The search is no worker.                                                 *)
LEMMA Readers == Search \in Reader /\ Search \notin Worker /\ Reader = Worker \cup {Search}
BY ReadsAssumption DEF Reader, Worker, Search

-----------------------------------------------------------------------------
(* Steps of one reader                                                      *)

(* A request goes on: it is sent, waits or is sent again.                   *)
LEMMA GoesOn ==
    ASSUME ReadsInv, NEW r \in Reader, stage[r] \in Busy, NEW label \in Busy,
           stage' = [stage EXCEPT ![r] = label],
           UNCHANGED <<pool, mode, call, aborted>>, HeardBy(r)
    PROVE  ReadsInv'
<1> USE DEF ReadsInv, pool
<1>1. /\ \A q \in Reader : stage'[q] \in Busy <=> stage[q] \in Busy
      /\ \A q \in Reader : stage'[q] = "ended" <=> stage[q] = "ended"
      /\ \A q \in Reader : stage'[q] = "idle" <=> stage[q] = "idle"
  BY DEF Typed, Busy
<1>2. Typed'
  BY DEF Typed, HeardBy
<1>3. SearchInv'
  BY <1>1, Readers DEF SearchInv, Open
<1>4. OwnedInv'
  BY <1>1, Readers DEF OwnedInv
<1>5. RecordInv'
  <2>1. \A i \in Position : output[i] # None => told'[i] = told[i]
    BY Readers DEF HeardBy, OwnedInv
  <2>2. QED
    BY <1>1, <2>1, Readers DEF RecordInv
<1>6. FailureInv'
  BY DEF FailureInv
<1>7. EndInv'
  BY <1>1, Readers DEF EndInv
<1>8. QED
  BY <1>2, <1>3, <1>4, <1>5, <1>6, <1>7

(* A busy worker is one of an open call whose search has ended.             *)
LEMMA WorkerAtWork ==
    ASSUME ReadsInv, NEW w \in Worker, stage[w] \in Busy
    PROVE  stage[Search] = "ended" /\ call.kind = "open" /\ w \in Reader /\ w # Search
BY Readers DEF ReadsInv, SearchInv, EndInv, Busy

(* A worker fails and stops the pool.                                       *)
LEMMA WorkerFails ==
    ASSUME ReadsInv, NEW w \in Worker, stage[w] \in Busy, NEW code \in Failure,
           code = "cancelled" => aborted, FailWorker(w, code),
           UNCHANGED <<mode, aborted>>, HeardBy(w)
    PROVE  ReadsInv'
<1> USE DEF ReadsInv
<1>1. stage[Search] = "ended" /\ call.kind = "open" /\ w \in Reader /\ w # Search
  BY WorkerAtWork
<1>2. /\ stage' = [stage EXCEPT ![w] = "ended"]
      /\ stopped' = TRUE /\ failure' = (IF stopped THEN failure ELSE code)
      /\ UNCHANGED <<index, next, output, call>>
  BY DEF FailWorker
<1>3. \A v \in Worker : stage'[v] \in Busy => stage[v] \in Busy
  BY <1>1, <1>2, Readers DEF Typed, Busy
<1>4. Typed'
  BY <1>2 DEF Typed, HeardBy
<1>5. SearchInv'
  BY <1>1, <1>2, Readers DEF SearchInv, Typed
<1>6. OwnedInv'
  BY <1>2, <1>3 DEF OwnedInv
<1>7. RecordInv'
  <2>1. \A i \in Position : output[i] # None => told'[i] = told[i]
    BY DEF HeardBy, OwnedInv
  <2>2. QED
    BY <1>2, <2>1 DEF RecordInv
<1>8. FailureInv'
  BY <1>2, ReadsAssumption DEF FailureInv, Failure
<1>9. EndInv'
  BY <1>1, <1>2 DEF EndInv
<1>10. QED
  BY <1>4, <1>5, <1>6, <1>7, <1>8, <1>9

(* A worker delivers its record and takes the next index, or ends.          *)
LEMMA WorkerDelivers ==
    ASSUME ReadsInv, NEW w \in Worker, stage[w] \in Busy, NEW answer \in {Served, NotFound},
           Deliver(w, Evidence(answer)), UNCHANGED <<mode, aborted>>, HeardBy(w),
           told'[index[w]] = answer
    PROVE  ReadsInv'
<1> USE DEF ReadsInv
<1>1. /\ stage[Search] = "ended" /\ call.kind = "open" /\ w \in Reader /\ w # Search
      /\ index[w] \in Position /\ index[w] < next /\ output[index[w]] = None
  BY WorkerAtWork DEF OwnedInv
<1>2. PICK record \in {"readme", "missing"} : record = Evidence(answer) /\ record # None
  BY ReadsAssumption DEF Evidence, Served, NotFound
<1>3. /\ output' = [output EXCEPT ![index[w]] = record]
      /\ UNCHANGED <<stopped, failure, call>>
  BY <1>2 DEF Deliver, Own
<1>4. \/ /\ ~stopped /\ next <= Count
         /\ index' = [index EXCEPT ![w] = next] /\ next' = next + 1
         /\ stage' = [stage EXCEPT ![w] = "gate"]
      \/ /\ stopped \/ next > Count
         /\ stage' = [stage EXCEPT ![w] = "ended"] /\ UNCHANGED <<index, next>>
  <2>1. next \in Nat /\ Count \in Nat /\ Loop(w)
    BY ReadsAssumption DEF Deliver, Typed
  <2>2. CASE MayTake(stopped)
    BY <2>1, <2>2 DEF Loop, MayTake
  <2>3. CASE ~MayTake(stopped)
    <3>1. stopped \/ next > Count
      BY <2>1, <2>3 DEF MayTake
    <3>2. QED
      BY <2>1, <2>3, <3>1 DEF Loop
  <2>4. QED
    BY <2>2, <2>3
<1>5. Typed'
  <2>1. /\ index' \in [Worker -> Nat] /\ next' \in Nat
        /\ stage' \in [Reader -> Busy \cup {"idle", "ended"}]
    BY <1>4 DEF Typed, Busy
  <2>2. output' \in [Position -> {None, "readme", "missing"}]
    BY <1>2, <1>3 DEF Typed
  <2>3. QED
    BY <1>3, <2>1, <2>2 DEF Typed, HeardBy
<1>6. /\ next <= next' /\ next \in Nat /\ next' \in Nat
      /\ \A i \in Position : i \in Nat
  BY <1>4, ReadsAssumption DEF Typed, Position
<1>7. SearchInv'
  BY <1>1, <1>4, Readers DEF SearchInv, Typed
<1>8. \A i \in Position : output'[i] = IF i = index[w] THEN record ELSE output[i]
  BY <1>3 DEF Typed
<1>9. \A i \in Position : output[i] # None => i < next
  BY DEF RecordInv
<1>10. CASE stage' = [stage EXCEPT ![w] = "ended"] /\ UNCHANGED <<index, next>>
             /\ (stopped \/ next > Count)
  <2>1. \A v \in Worker : stage'[v] \in Busy <=> v # w /\ stage[v] \in Busy
    BY <1>1, <1>10, Readers DEF Typed, Busy
  <2>2. OwnedInv'
    BY <1>8, <1>10, <2>1 DEF OwnedInv
  <2>3. RecordInv'
    <3>1. SUFFICES ASSUME NEW i \in Position
                   PROVE  IF output'[i] = None
                          THEN i < next' => stopped' \/ \E v \in Worker : stage'[v] \in Busy /\ index'[v] = i
                          ELSE /\ i < next' /\ told'[i] \in {Served, NotFound}
                               /\ output'[i] = Evidence(told'[i])
      BY DEF RecordInv, Evidence
    <3>2. CASE i = index[w]
      BY <1>1, <1>2, <1>8, <1>10, <3>2
    <3>3. CASE i # index[w]
      <4>1. told'[i] = told[i] /\ output'[i] = output[i]
        BY <1>8, <3>3 DEF HeardBy
      <4>2. CASE output[i] = None
        BY <1>3, <1>10, <2>1, <3>3, <4>1, <4>2 DEF RecordInv
      <4>3. CASE output[i] # None
        BY <1>10, <4>1, <4>3 DEF RecordInv
      <4>4. QED
        BY <4>2, <4>3
    <3>4. QED
      BY <3>2, <3>3
  <2>4. FailureInv' /\ EndInv'
    BY <1>1, <1>3, <1>10, Readers DEF FailureInv, EndInv, Typed
  <2>5. QED
    BY <1>5, <1>7, <2>2, <2>3, <2>4
<1>11. CASE /\ ~stopped /\ next <= Count
            /\ index' = [index EXCEPT ![w] = next] /\ next' = next + 1
            /\ stage' = [stage EXCEPT ![w] = "gate"]
  <2>1. /\ \A v \in Worker : stage'[v] \in Busy <=> stage[v] \in Busy
        /\ \A v \in Worker : index'[v] = IF v = w THEN next ELSE index[v]
        /\ \A v \in Worker \ {w} : stage'[v] = stage[v]
        /\ stage'[w] = "gate" /\ stage'[Search] = stage[Search]
    BY <1>1, <1>11, Readers DEF Typed, Busy
  <2>2. next \in Position /\ output[next] = None
    <3>1. next >= 1
      BY <1>1, <1>6, ReadsAssumption DEF Position
    <3>2. next \in Position
      BY <1>6, <1>11, <3>1, ReadsAssumption DEF Position
    <3>3. QED
      BY <1>6, <1>9, <3>2
  <2>3. OwnedInv'
    <3>1. ASSUME NEW v \in Worker, stage'[v] \in Busy
          PROVE  index'[v] \in Position /\ index'[v] < next' /\ output'[index'[v]] = None
      <4>1. CASE v = w
        BY <1>1, <1>6, <1>8, <1>11, <2>1, <2>2, <4>1
      <4>2. CASE v # w
        <5>1. /\ index[v] \in Position /\ index[v] < next /\ output[index[v]] = None
              /\ index[v] # index[w]
          BY <2>1, <3>1, <4>2 DEF OwnedInv
        <5>2. QED
          BY <1>6, <1>8, <1>11, <2>1, <4>2, <5>1
      <4>3. QED
        BY <4>1, <4>2
    <3>2. ASSUME NEW u \in Worker, NEW v \in Worker, stage'[u] \in Busy, stage'[v] \in Busy,
                 index'[u] = index'[v]
          PROVE  u = v
      <4>1. \A x \in Worker : stage[x] \in Busy => index[x] # next
        BY <1>6 DEF OwnedInv
      <4>2. QED
        BY <2>1, <3>2, <4>1 DEF OwnedInv
    <3>3. QED
      BY <3>1, <3>2 DEF OwnedInv
  <2>4. RecordInv'
    <3>1. SUFFICES ASSUME NEW i \in Position
                   PROVE  IF output'[i] = None
                          THEN i < next' => stopped' \/ \E v \in Worker : stage'[v] \in Busy /\ index'[v] = i
                          ELSE /\ i < next' /\ told'[i] \in {Served, NotFound}
                               /\ output'[i] = Evidence(told'[i])
      BY DEF RecordInv, Evidence
    <3>2. CASE i = index[w]
      BY <1>1, <1>2, <1>6, <1>8, <1>11, <3>2
    <3>3. CASE i # index[w]
      <4>1. told'[i] = told[i] /\ output'[i] = output[i]
        BY <1>8, <3>3 DEF HeardBy
      <4>2. CASE output[i] = None /\ i < next
        <5>1. PICK v \in Worker : stage[v] \in Busy /\ index[v] = i
          BY <1>11, <4>2 DEF RecordInv
        <5>2. v # w /\ stage'[v] \in Busy /\ index'[v] = i
          BY <2>1, <3>3, <5>1
        <5>3. QED
          BY <4>1, <4>2, <5>2
      <4>3. CASE output[i] = None /\ ~(i < next)
        <5>1. i < next' => i = next
          BY <1>6, <1>11, <4>3
        <5>2. stage'[w] \in Busy /\ index'[w] = next
          BY <2>1 DEF Busy
        <5>3. QED
          BY <4>1, <4>3, <5>1, <5>2
      <4>4. CASE output[i] # None
        <5>1. i < next /\ told[i] \in {Served, NotFound} /\ output[i] = Evidence(told[i])
          BY <4>4 DEF RecordInv
        <5>2. QED
          BY <1>6, <1>11, <4>1, <4>4, <5>1
      <4>5. QED
        BY <4>2, <4>3, <4>4
    <3>4. QED
      BY <3>2, <3>3
  <2>5. FailureInv'
    BY <1>3 DEF FailureInv
  <2>6. EndInv'
    <3>1. \A v \in Worker : stage'[v] = "ended" => stage[v] = "ended"
      BY <2>1
    <3>2. call.kind = "open" /\ stage[Search] = "ended" /\ next <= Count
      BY <1>1, <1>11
    <3>3. \A v \in Worker : stage[v] # "ended"
      BY <1>6, <1>11, <3>2, ReadsAssumption DEF EndInv
    <3>4. QED
      BY <1>1, <1>3, <2>1, <3>1, <3>3, ReadsAssumption DEF EndInv
  <2>7. QED
    BY <1>5, <1>7, <2>3, <2>4, <2>5, <2>6
<1>12. QED
  BY <1>4, <1>10, <1>11

-----------------------------------------------------------------------------
(* The search                                                               *)

(* Before the search has ended the pool is as it was created.               *)
LEMMA BeforeThePool ==
    ASSUME ReadsInv, stage[Search] \in Busy
    PROVE  /\ call = Open /\ call.kind = "open" /\ next = 1 /\ ~stopped /\ failure = None
           /\ \A i \in Position : output[i] = None
           /\ \A w \in Worker : stage[w] = "idle"
BY DEF ReadsInv, SearchInv, FailureInv, Busy, Open

(* The call ends with its search: the pool is never used.                   *)
LEMMA SearchEnds ==
    ASSUME ReadsInv, stage[Search] \in Busy,
           stage' = [r \in Reader |-> "ended"], UNCHANGED <<pool, mode, aborted, told>>,
           call' \in [kind : {"failed", "none", "summary"},
                     code : Failure \cup {"STORAGE_ERROR", None}],
           call'.code = "cancelled" => aborted
    PROVE  ReadsInv'
<1> USE DEF pool
<1>1. \A r \in Reader : stage'[r] = "ended"
  OBVIOUS
<1>2. /\ call.kind = "open" /\ next = 1 /\ ~stopped /\ failure = None
      /\ \A i \in Position : output[i] = None
  BY BeforeThePool
<1>3. call'.kind \in {"failed", "none", "summary"}
  OBVIOUS
<1>4. Typed'
  <2>1. call' \in [kind : {"open", "failed"} \cup EvidenceModes,
                  code : Failure \cup {"STORAGE_ERROR", None}]
    BY DEF EvidenceModes
  <2>2. QED
    BY <2>1 DEF ReadsInv, Typed
<1>5. SearchInv' /\ OwnedInv'
  BY <1>1, Readers DEF SearchInv, OwnedInv, Busy
<1>6. RecordInv'
  BY <1>2, ReadsAssumption DEF RecordInv, Position
<1>7. FailureInv' /\ EndInv'
  BY <1>1, <1>2, <1>3, ReadsAssumption DEF FailureInv, EndInv, Failure
<1>8. QED
  BY <1>4, <1>5, <1>6, <1>7 DEF ReadsInv

(* The workers that find something take the first indices, one each.        *)
LEMMA PoolStarts ==
    ASSUME ReadsInv, stage[Search] \in Busy, StartPool,
           UNCHANGED <<stopped, failure, output, call, mode, aborted, told>>
    PROVE  ReadsInv'
<1> DEFINE First == {w \in Worker : w \in Worker /\ w <= Count}
<1>1. /\ call = Open /\ call.kind = "open" /\ ~stopped /\ failure = None
      /\ \A i \in Position : output[i] = None
  BY BeforeThePool
<1>2. Concurrency \in Nat \ {0} /\ Count \in Nat \ {0}
  BY ReadsAssumption
<1>3. /\ index' = [w \in Worker |-> IF w \in Worker /\ w <= Count THEN w ELSE 0]
      /\ next' = Cardinality(First) + 1
      /\ stage' = [r \in Reader |-> IF r \in Worker /\ r <= Count THEN "gate" ELSE "ended"]
  BY DEF StartPool
<1>4. PICK n \in Nat : /\ n = (IF Concurrency <= Count THEN Concurrency ELSE Count)
                      /\ First = 1..n /\ Cardinality(First) = n
  <2>1. PICK n \in Nat \ {0} : n = IF Concurrency <= Count THEN Concurrency ELSE Count
    BY <1>2
  <2>2. First = 1..n
    BY <1>2, <2>1 DEF Worker
  <2>3. Cardinality(1..n) = n
    BY <2>1, FS_Interval
  <2>4. QED
    BY <2>1, <2>2, <2>3
<1>5. /\ next' = n + 1
      /\ \A w \in Worker : IF w \in 1..n THEN stage'[w] = "gate" /\ index'[w] = w
                                         ELSE stage'[w] = "ended"
      /\ stage'[Search] = "ended"
      /\ 1..n \subseteq Worker
  <2> HIDE DEF First
  <2>1. \A w \in Worker : w \in 1..n <=> w <= Count
    BY <1>2, <1>4 DEF Worker
  <2>2. 1..n \subseteq Worker
    BY <1>2, <1>4 DEF Worker
  <2>3. QED
    BY <1>3, <1>4, <2>1, <2>2, Readers
<1> HIDE DEF First
<1>6. Typed'
  <2>1. stage' \in [Reader -> Busy \cup {"idle", "ended"}]
    BY <1>3 DEF Busy
  <2>2. index' \in [Worker -> Nat]
    BY <1>2, <1>3 DEF Worker
  <2>3. QED
    BY <1>5, <2>1, <2>2 DEF ReadsInv, Typed
<1>7. SearchInv'
  BY <1>5 DEF SearchInv
<1>8. \A w \in Worker : stage'[w] \in Busy <=> w \in 1..n
  BY <1>5 DEF Busy
<1>9. OwnedInv'
  <2>1. \A w \in 1..n : index'[w] = w /\ w \in Position /\ w < n + 1
    BY <1>2, <1>4, <1>5 DEF Position
  <2>2. QED
    BY <1>1, <1>5, <1>8, <2>1 DEF OwnedInv
<1>10. RecordInv'
  <2>1. \A i \in Position : i < n + 1 => i \in 1..n /\ i \in Worker
    BY <1>2, <1>5 DEF Position
  <2>2. QED
    BY <1>1, <1>5, <1>8, <2>1 DEF RecordInv
<1>11. FailureInv'
  BY DEF ReadsInv, FailureInv
<1>12. EndInv'
  <2>1. \A w \in Worker : w \notin 1..n => n + 1 > Count
    BY <1>2, <1>4 DEF Worker
  <2>2. QED
    BY <1>1, <1>5, <2>1 DEF EndInv
<1>13. QED
  BY <1>6, <1>7, <1>9, <1>10, <1>11, <1>12 DEF ReadsInv

(* A reader fails.                                                          *)
LEMMA Failing ==
    ASSUME ReadsInv, NEW r \in Reader, stage[r] \in Busy, NEW code \in Failure,
           code = "cancelled" => aborted, Fail(r, code),
           UNCHANGED <<mode, aborted>>, HeardBy(r), r = Search => told' = told
    PROVE  ReadsInv'
<1>1. CASE r = Search
  BY <1>1, SearchEnds DEF Fail, FailSearch
<1>2. CASE r # Search
  BY <1>2, WorkerFails, Readers DEF Fail
<1>3. QED
  BY <1>1, <1>2

LEMMA Finding ==
    ASSUME ReadsInv, stage[Search] \in Busy, Found, UNCHANGED <<mode, aborted, told>>
    PROVE  ReadsInv'
<1>1. CASE StartPool /\ UNCHANGED <<stopped, failure, output, call>>
  BY <1>1, PoolStarts
<1>2. ASSUME stage' = [r \in Reader |-> "ended"], UNCHANGED pool,
             \/ call' = [kind |-> "failed", code |-> "STORAGE_ERROR"]
             \/ call' = [kind |-> "failed", code |-> "cancelled"] /\ aborted
             \/ call' = [kind |-> mode, code |-> None] /\ mode # "readme"
      PROVE  ReadsInv'
  <2>1. mode \in EvidenceModes
    BY DEF ReadsInv, Typed
  <2>2. /\ call' \in [kind : {"failed", "none", "summary"},
                      code : Failure \cup {"STORAGE_ERROR", None}]
        /\ call'.code = "cancelled" => aborted
    BY <1>2, <2>1, ReadsAssumption DEF EvidenceModes, Failure
  <2>3. QED
    BY <1>2, <2>2, SearchEnds
<1>3. QED
  BY <1>1, <1>2 DEF Found

-----------------------------------------------------------------------------
(* The steps                                                                *)

LEMMA Answering ==
    ASSUME ReadsInv, NEW r \in Reader, NEW a \in Answers, Good(r, a) \/ Bad(r, a)
    PROVE  ReadsInv'
<1>1. stage[r] = "sent" /\ stage[r] \in Busy /\ Hear(r, a) /\ UNCHANGED <<mode, aborted>>
  BY DEF Good, Bad, Busy
<1>2. /\ HeardBy(r) /\ (r = Search => told' = told)
      /\ r # Search => r \in Worker /\ told'[index[r]] = <<a.reply, a.status>>
  BY <1>1, Hearing, Readers DEF ReadsInv, Hear
<1>3. ASSUME NEW code \in Failure, code = "cancelled" => aborted, Fail(r, code)
      PROVE  ReadsInv'
  BY <1>1, <1>2, <1>3, Failing
<1>4. "GITHUB_UNAVAILABLE" \in Failure /\ "cancelled" \in Failure
  BY DEF Failure, Codes
<1>5. CASE Good(r, a)
  <2>1. <<a.reply, a.status>> = Served
    BY <1>5 DEF Good, Served
  <2>2. CASE Fail(r, "GITHUB_UNAVAILABLE")
    BY <1>3, <1>4, <2>2
  <2>3. CASE Fail(r, "cancelled") /\ aborted
    BY <1>3, <1>4, <2>3
  <2>4. CASE r = Search /\ Found
    BY <1>1, <1>2, <2>4, Finding
  <2>5. CASE r # Search /\ Deliver(r, "readme")
    <3>1. Evidence(Served) = "readme"
      BY DEF Evidence, Served, NotFound
    <3>2. QED
      BY <1>1, <1>2, <2>1, <2>5, <3>1, WorkerDelivers
  <2>6. QED
    BY <1>5, <2>2, <2>3, <2>4, <2>5 DEF Good
<1>6. CASE Bad(r, a)
  <2> DEFINE f == Classified(a)
  <2>1. f.code \in Codes /\ (f.code = "NOT_FOUND" => <<a.reply, a.status>> = NotFound)
    BY Classifying
  <2>2. CASE Fail(r, "GITHUB_UNAVAILABLE")
    BY <1>3, <1>4, <2>2
  <2>3. CASE Again(r, f)
    <3>1. PICK label \in Busy : stage' = [stage EXCEPT ![r] = label]
      BY <2>3 DEF Again, Busy
    <3>2. UNCHANGED <<pool, mode, call, aborted>>
      BY <1>1, <2>3 DEF Again
    <3>3. QED
      BY <1>1, <1>2, <3>1, <3>2, GoesOn
  <2>4. CASE Missing(r, f) /\ Deliver(r, "missing")
    <3>1. r # Search /\ <<a.reply, a.status>> = NotFound
      BY <2>1, <2>4 DEF Missing
    <3>2. Evidence(NotFound) = "missing"
      BY DEF Evidence, Served, NotFound
    <3>3. QED
      BY <1>1, <1>2, <2>4, <3>1, <3>2, WorkerDelivers
  <2>5. CASE Fail(r, f.code)
    <3>1. f.code \in Failure /\ f.code # "cancelled"
      BY <2>1 DEF Failure, Codes
    <3>2. QED
      BY <1>3, <2>5, <3>1
  <2>6. QED
    BY <1>6, <2>2, <2>3, <2>4, <2>5 DEF Bad
<1>7. QED
  BY <1>5, <1>6

(* The call ends: with the first failure, or with a record for every one.   *)
LEMMA Returning ==
    ASSUME ReadsInv, Return
    PROVE  ReadsInv'
<1> USE DEF ReadsInv, pool
<1>1. /\ UNCHANGED <<stage, index, next, stopped, failure, output, mode, aborted, told>>
      /\ call = Open /\ stage[Search] = "ended"
      /\ \A w \in Worker : stage[w] = "ended"
  BY DEF Return, Settled
<1>2. failure # None \/ \A i \in Position : output[i] # None
  <2>1. SUFFICES ASSUME failure = None, NEW i \in Position, output[i] = None PROVE FALSE
    OBVIOUS
  <2>2. ~stopped
    BY <2>1 DEF FailureInv
  <2>3. 1 \in Worker /\ next > Count
    <3>1. 1 \in Worker
      BY ReadsAssumption DEF Worker
    <3>2. QED
      BY <1>1, <2>2, <3>1 DEF EndInv, Open
  <2>4. i < next
    BY <2>3, ReadsAssumption DEF Typed, Position
  <2>5. QED
    BY <1>1, <2>1, <2>2, <2>4 DEF RecordInv, Busy
<1>3. \/ failure # None /\ call' = [kind |-> "failed", code |-> failure]
      \/ (\A i \in Position : output[i] # None) /\ call' = [kind |-> "readme", code |-> None]
  BY <1>2 DEF Return
<1>4. Typed'
  BY <1>1, <1>3 DEF Typed, EvidenceModes
<1>5. SearchInv'
  BY <1>1 DEF SearchInv
<1>6. OwnedInv'
  BY <1>1 DEF OwnedInv
<1>7. RecordInv'
  BY <1>1 DEF RecordInv
<1>8. FailureInv'
  BY <1>1, <1>3, ReadsAssumption DEF FailureInv
<1>9. EndInv'
  BY <1>1, <1>3, Readers DEF EndInv
<1>10. QED
  BY <1>4, <1>5, <1>6, <1>7, <1>8, <1>9

LEMMA Reading == ReadsInv /\ [Next]_vars => ReadsInv'
<1> SUFFICES ASSUME ReadsInv, [Next]_vars PROVE ReadsInv'
  OBVIOUS
<1>1. ASSUME NEW r \in Reader, Send(r) \/ BackedOff(r) PROVE ReadsInv'
  <2>1. PICK label \in Busy : stage' = [stage EXCEPT ![r] = label]
    BY <1>1 DEF Send, BackedOff, Busy
  <2>2. stage[r] \in Busy /\ UNCHANGED <<pool, mode, call, aborted, told>>
    BY <1>1 DEF Send, BackedOff, Busy
  <2>3. HeardBy(r)
    BY <2>2 DEF HeardBy, ReadsInv, Typed
  <2>4. QED
    BY <2>1, <2>2, <2>3, GoesOn
<1>2. ASSUME NEW r \in Reader, Cancel(r) \/ BadAfterAbort(r) PROVE ReadsInv'
  <2>1. /\ stage[r] \in Busy /\ aborted /\ Fail(r, "cancelled")
        /\ UNCHANGED <<mode, aborted, told>> /\ "cancelled" \in Failure
    BY <1>2 DEF Cancel, BadAfterAbort, Busy, Failure
  <2>2. HeardBy(r)
    BY <2>1 DEF HeardBy, ReadsInv, Typed
  <2>3. QED
    BY <2>1, <2>2, Failing
<1>3. ASSUME NEW r \in Reader, NEW a \in Answers, Good(r, a) \/ Bad(r, a) PROVE ReadsInv'
  BY <1>3, Answering
<1>4. CASE Return
  BY <1>4, Returning
<1>5. CASE Abort
  BY <1>5 DEF Abort, pool, ReadsInv, Typed, SearchInv, OwnedInv, RecordInv, FailureInv, EndInv
<1>6. ASSUME UNCHANGED <<stage, pool, mode, call, aborted, told>> PROVE ReadsInv'
  BY <1>6 DEF pool, ReadsInv, Typed, SearchInv, OwnedInv, RecordInv, FailureInv, EndInv
<1>7. CASE Observe \/ Tick \/ UNCHANGED vars
  BY <1>6, <1>7 DEF Observe, Tick, vars
<1>8. QED
  BY <1>1, <1>2, <1>3, <1>4, <1>5, <1>7 DEF Next

LEMMA InitReads == Init => ReadsInv
<1> SUFFICES ASSUME Init PROVE ReadsInv
  OBVIOUS
<1>1. Typed
  BY Readers DEF Init, Typed, Busy, Open
<1>2. SearchInv
  BY Readers DEF Init, SearchInv, Busy
<1>3. OwnedInv
  BY Readers DEF Init, OwnedInv, Busy
<1>4. RecordInv
  BY ReadsAssumption DEF Init, RecordInv, Position
<1>5. FailureInv /\ EndInv
  <2>1. call.kind = "open" /\ call.code = None /\ stage[Search] = "gate"
    BY Readers DEF Init, Open
  <2>2. QED
    BY <2>1, ReadsAssumption DEF Init, FailureInv, EndInv
<1>6. QED
  BY <1>1, <1>2, <1>3, <1>4, <1>5 DEF ReadsInv

LEMMA ReadsKept == Spec => []ReadsInv
BY InitReads, Reading, PTL DEF Spec

(* When a discovery call has returned or thrown, none of its readers waits  *)
(* at the gate, in a backoff or for an answer (Promise.allSettled in fetch).*)
THEOREM NothingIsLeft == Spec => []NothingOutlivesTheCall
<1>1. ReadsInv => NothingOutlivesTheCall
  BY DEF ReadsInv, EndInv, NothingOutlivesTheCall
<1>2. QED
  BY <1>1, ReadsKept, PTL

(* Evidence is what GitHub said of that very repository, no record is       *)
(* missing without a failure, and nothing is cancelled that nobody aborted  *)
(* (the workers' index and output, getReadme, classifyFailure).             *)
THEOREM EvidenceHolds == Spec => []EvidenceIsTrue
<1>1. ReadsInv => EvidenceIsTrue
  <2> SUFFICES ASSUME ReadsInv PROVE EvidenceIsTrue
    OBVIOUS
  <2>1. ASSUME call.kind = "readme", NEW i \in Position
        PROVE  output[i] = CASE told[i] = <<"http", 200>> -> "readme"
                             [] told[i] = <<"http", 404>> -> "missing"
    BY <2>1 DEF ReadsInv, EndInv, RecordInv, Evidence, Served, NotFound
  <2>2. call.code # "INTERNAL_ERROR"
    <3>1. call.code \in Failure \cup {"STORAGE_ERROR", None}
      BY DEF ReadsInv, Typed
    <3>2. QED
      BY <3>1, ReadsAssumption DEF Failure, Codes
  <2>3. call.code = "cancelled" => aborted
    BY DEF ReadsInv, FailureInv
  <2>4. QED
    BY <2>1, <2>2, <2>3 DEF EvidenceIsTrue
<1>2. QED
  BY <1>1, ReadsKept, PTL
=============================================================================
