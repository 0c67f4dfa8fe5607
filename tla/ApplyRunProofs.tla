--------------------------- MODULE ApplyRunProofs ---------------------------
(***************************************************************************)
(* Theorems about ApplyRun for every plan, any number of calls, of attempts *)
(* and of crashes, and whether or not a process may stall past its lease.   *)
(* The first ones and the last hold whatever the transport says and whoever *)
(* edits the account; the refinement of ChangeLedger needs that an error    *)
(* which says "not applied" is right (HonestTransport), and what is said    *)
(* about the account also that nobody else edits it (MaxEdits = 0).         *)
(***************************************************************************)
EXTENDS ApplyRun, TLAPS

\* Where a call is working on the operation at its position.
AtRow == {"observed", "blocking", "pacing", "decided", "gated", "sent",
          "recording"}

\* The typing invariant: TypeOK, and a call at a row is within the plan.
TypeInv ==
    /\ TypeOK
    /\ \A r \in Request : pc[r] \in AtRow => InRange(r)

(* The plan's order and bounds, without the covering condition.             *)
LEMMA PlanOrder == N \in Nat /\ Order \in [1..N -> Op] /\ None \notin Request
BY ApplyAssumption

(* Where a call is in the plan, its row is a row.                           *)
LEMMA CurrentRow ==
    ASSUME TypeInv, NEW r \in Request, InRange(r)
    PROVE  /\ Current(r) \in Op
           /\ row[Current(r)] \in RowType
           /\ live[Current(r)] \in {"before", "after", "other"}
<1>1. pos[r] \in 1..N
  BY PlanOrder DEF TypeInv, TypeOK, InRange
<1>2. Current(r) \in Op
  BY <1>1, PlanOrder DEF Current
<1>3. QED
  BY <1>2 DEF TypeInv, TypeOK

(* The row updates keep a row a row.                                        *)
LEMMA RowUpdates ==
    ASSUME NEW x \in RowType
    PROVE  /\ Queued(x) \in RowType /\ Started(x) \in RowType
           /\ \A st \in Status, b \in BOOLEAN : Settled(x, st, b) \in RowType
           /\ \A st \in {"succeeded", "failed", "unresolved"} :
                  Finished(x, st) \in RowType
           /\ \A ob : Reconciled(x, ob) \in RowType
           /\ RecoveredRow(x) \in RowType
<1> USE DEF RowType, Status, Attempt
<1>1. Queued(x) \in RowType
  BY DEF Queued
<1>0. Started(x) \in RowType
  <2>1. x.attempts + 1 \in Nat
    BY DEF RowType
  <2>2. QED
    BY <2>1 DEF Started
<1>2. \A st \in Status, b \in BOOLEAN : Settled(x, st, b) \in RowType
  BY DEF Settled
<1>3. \A st \in {"succeeded", "failed", "unresolved"} : Finished(x, st) \in RowType
  BY DEF Finished
<1>4. \A ob : Reconciled(x, ob) \in RowType
  BY <1>2 DEF Reconciled
<1>5. RecoveredRow(x) \in RowType
  BY <1>2, <1>3, ZenonT(60) DEF RecoveredRow
<1>6. QED
  BY <1>0, <1>1, <1>2, <1>3, <1>4, <1>5

(* Moving on, or to the end of the loop, keeps a call within the plan.      *)
LEMMA MoveTyped ==
    ASSUME TypeInv, NEW r \in Request, InRange(r)
    PROVE  /\ pos[r] + 1 \in 1..N + 1
           /\ NextOrStop(r) =>
                 /\ pc' \in [Request -> PC]
                 /\ pos' \in [Request -> 1..N + 1]
                 /\ \A q \in Request : pc'[q] \in AtRow => pos'[q] <= N
<1>1. pos[r] + 1 \in 1..N + 1
  BY PlanOrder DEF TypeInv, TypeOK, InRange
<1>2. CASE StopMode
  BY <1>1, <1>2 DEF NextOrStop, Goto, TypeInv, TypeOK, InRange, PC, Active, AtRow
<1>3. CASE ~StopMode
  BY <1>1, <1>3
     DEF NextOrStop, Goto, Advance, TypeInv, TypeOK, InRange, PC, Active, AtRow
<1>4. QED
  BY <1>1, <1>2, <1>3

(* Recording a row of the current operation is well typed.                  *)
LEMMA WriteTyped ==
    ASSUME TypeInv, NEW r \in Request, InRange(r), NEW x \in RowType, Write(r, x)
    PROVE  /\ row' \in [Op -> RowType]
           /\ fresh' \in [Request -> SUBSET Op]
<1>1. Current(r) \in Op
  BY CurrentRow
<1>2. QED
  BY <1>1 DEF Write, TypeInv, TypeOK

LEMMA Typing == TypeInv /\ [Next]_vars => TypeInv'
<1> SUFFICES ASSUME TypeInv, [Next]_vars PROVE TypeInv'
  OBVIOUS
<1> USE DEF TypeInv, TypeOK, AtRow, PC, Active, Seen, InRange, durable, remote,
            local, Goto, Note, Fire, Advance
<1>1. \A r \in Request : InRange(r) => row[Current(r)] \in RowType
  BY CurrentRow
<1>2. ASSUME NEW r \in Request, Acquire(r) PROVE TypeInv'
  BY <1>2 DEF Acquire
<1>3. ASSUME NEW r \in Request, Claim(r) PROVE TypeInv'
  <2>1. row' \in [Op -> RowType]
    BY <1>3, RowUpdates DEF Claim, SetPlan
  <2>2. QED
    BY <1>3, <2>1 DEF Claim, SetPlan
<1>4. ASSUME NEW r \in Request, PassOver(r) PROVE TypeInv'
  <2>1. CASE InRange(r)
    <3>1. pos[r] + 1 \in 1..N + 1
      BY <2>1, MoveTyped
    <3>2. QED
      BY <1>4, <2>1, <3>1 DEF PassOver
  <2>2. CASE ~InRange(r)
    <3>1. 1 \in 1..N + 1
      BY PlanOrder
    <3>2. QED
      BY <1>4, <2>2, <3>1 DEF PassOver
  <2>3. QED
    BY <2>1, <2>2
<1>5. ASSUME NEW r \in Request, Observe(r) PROVE TypeInv'
  <2>1. live[Current(r)] \in Seen
    BY <1>5, CurrentRow DEF Observe
  <2>2. QED
    BY <1>5, <2>1 DEF Observe
<1>6. ASSUME NEW r \in Request, Reconcile(r) PROVE TypeInv'
  <2> DEFINE stops == Aborted(r) \/ ~TakesADecision(row[Current(r)])
  <2>1. stops => TypeInv'
    BY <1>6 DEF Reconcile
  <2>2. Reconciled(row[Current(r)], seen[r]) \in RowType
    BY <1>6, <1>1, RowUpdates DEF Reconcile
  <2>3. ~stops => row' \in [Op -> RowType] /\ fresh' \in [Request -> SUBSET Op]
    BY <1>6, <2>2, WriteTyped DEF Reconcile
  <2>4. pos[r] + 1 \in 1..N + 1
    BY <1>6, MoveTyped DEF Reconcile
  <2>5. QED
    BY <1>6, <2>1, <2>3, <2>4 DEF Reconcile
<1>7. ASSUME NEW r \in Request, StepOver(r) PROVE TypeInv'
  <2>1. CASE ~InRange(r) /\ Goto(r, "closing") /\ UNCHANGED pos
    BY <1>7, <2>1 DEF StepOver
  <2>2. CASE InRange(r) /\ Advance(r) /\ UNCHANGED pc
    BY <1>7, <2>2, MoveTyped DEF StepOver
  <2>3. CASE InRange(r) /\ NextOrStop(r)
    BY <1>7, <2>3, MoveTyped DEF StepOver
  <2>4. QED
    BY <1>7, <2>1, <2>2, <2>3 DEF StepOver
<1>8. ASSUME NEW r \in Request, WriteAhead(r) PROVE TypeInv'
  <2>1. Queued(row[Current(r)]) \in RowType
    BY <1>8, <1>1, RowUpdates DEF WriteAhead
  <2>2. row' \in [Op -> RowType] /\ fresh' \in [Request -> SUBSET Op]
    BY <1>8, <2>1, WriteTyped DEF WriteAhead
  <2>3. QED
    BY <1>8, <2>2 DEF WriteAhead
<1>9. ASSUME NEW r \in Request, RecordBlocked(r) PROVE TypeInv'
  <2>1. Settled(row[Current(r)], "failed", TRUE) \in RowType
    BY <1>9, <1>1, RowUpdates DEF RecordBlocked, Status
  <2>2. row' \in [Op -> RowType] /\ fresh' \in [Request -> SUBSET Op]
    BY <1>9, <2>1, WriteTyped DEF RecordBlocked
  <2>3. QED
    BY <1>9, <2>2, MoveTyped DEF RecordBlocked
<1>10. ASSUME NEW r \in Request, Retry(r) PROVE TypeInv'
  <2>1. Queued(row[Current(r)]) \in RowType
    BY <1>10, <1>1, RowUpdates DEF Retry
  <2>2. row' \in [Op -> RowType] /\ fresh' \in [Request -> SUBSET Op]
    BY <1>10, <2>1, WriteTyped DEF Retry
  <2>3. QED
    BY <1>10, <2>2 DEF Retry
<1>11. ASSUME NEW r \in Request, Prepare(r) PROVE TypeInv'
  <2>1. live[Current(r)] \in Seen
    BY <1>11, CurrentRow DEF Prepare
  <2>2. QED
    BY <1>11, <2>1 DEF Prepare
<1>12. ASSUME NEW r \in Request, Decline(r) PROVE TypeInv'
  <2>1. \A st \in Status, b \in BOOLEAN :
            Settled(row[Current(r)], st, b) \in RowType
    BY <1>12, <1>1, RowUpdates DEF Decline
  <2>2. row' \in [Op -> RowType] /\ fresh' \in [Request -> SUBSET Op]
    <3>1. CASE seen[r] = "after"
      BY <1>12, <2>1, <3>1, WriteTyped DEF Decline, Status
    <3>2. CASE seen[r] # "after"
      BY <1>12, <2>1, <3>2, WriteTyped DEF Decline, Status
    <3>3. QED
      BY <3>1, <3>2
  <2>3. /\ pc' \in [Request -> PC]
        /\ pos' \in [Request -> 1..N + 1]
        /\ \A q \in Request : pc'[q] \in AtRow => pos'[q] <= N
    <3>1. InRange(r) /\ pos[r] + 1 \in 1..N + 1
      BY <1>12, MoveTyped DEF Decline
    <3>2. CASE seen[r] = "after"
      BY <1>12, <3>1, <3>2 DEF Decline
    <3>3. CASE seen[r] # "after"
      BY <1>12, <3>1, <3>3, MoveTyped DEF Decline
    <3>4. QED
      BY <3>2, <3>3
  <2>4. QED
    BY <1>12, <2>2, <2>3 DEF Decline
<1>13. ASSUME NEW r \in Request, AbandonBeforeDispatch(r) PROVE TypeInv'
  <2>1. Settled(row[Current(r)], "failed", TRUE) \in RowType
    BY <1>13, <1>1, RowUpdates DEF AbandonBeforeDispatch, Status
  <2>2. row' \in [Op -> RowType] /\ fresh' \in [Request -> SUBSET Op]
    BY <1>13, <2>1, WriteTyped DEF AbandonBeforeDispatch
  <2>3. QED
    BY <1>13, <2>2 DEF AbandonBeforeDispatch
<1>14. ASSUME NEW r \in Request, Start(r) PROVE TypeInv'
  <2>1. Started(row[Current(r)]) \in RowType
    BY <1>14, <1>1, RowUpdates DEF Start
  <2>2. row' \in [Op -> RowType] /\ fresh' \in [Request -> SUBSET Op]
    BY <1>14, <2>1, WriteTyped DEF Start
  <2>3. QED
    BY <1>14, <2>2 DEF Start
<1>15. ASSUME NEW r \in Request, Send(r) PROVE TypeInv'
  BY <1>15, CurrentRow DEF Send
<1>16. ASSUME NEW r \in Request, RefusedAtGate(r) PROVE TypeInv'
  BY <1>16 DEF RefusedAtGate
<1>17. ASSUME NEW r \in Request, Answer(r) PROVE TypeInv'
  BY <1>17 DEF Answer
<1>18. ASSUME NEW r \in Request, Record(r) PROVE TypeInv'
  <2>1. \A st \in {"succeeded", "failed", "unresolved"} :
            Finished(row[Current(r)], st) \in RowType
    BY <1>18, <1>1, RowUpdates DEF Record
  <2>2. row' \in [Op -> RowType] /\ fresh' \in [Request -> SUBSET Op]
    BY <1>18, <2>1, WriteTyped DEF Record
  <2>3. /\ pc' \in [Request -> PC]
        /\ pos' \in [Request -> 1..N + 1]
        /\ \A q \in Request : pc'[q] \in AtRow => pos'[q] <= N
    BY <1>18, MoveTyped DEF Record
  <2>4. QED
    BY <1>18, <2>2, <2>3 DEF Record
<1>19. ASSUME NEW r \in Request, Finalize(r) PROVE TypeInv'
  BY <1>19 DEF Finalize, SetPlan
<1>20. ASSUME NEW r \in Request, Unwind(r) PROVE TypeInv'
  BY <1>20 DEF Unwind
<1>21. ASSUME NEW r \in Request, Leave(r) PROVE TypeInv'
  <2>1. /\ pos' \in [Request -> 1..N + 1] /\ seen' \in [Request -> Seen]
        /\ signal' \in [Request -> {"none", "abort", "lost"}]
        /\ fresh' \in [Request -> SUBSET Op]
    BY <1>21, PlanOrder DEF Leave, Forget
  <2>2. QED
    BY <1>21, <2>1, PlanOrder DEF Leave, Forget
<1>22. ASSUME NEW r \in Request, Disturb(r) \/ CallAgain(r) PROVE TypeInv'
  <2>1. CASE Abort(r)
    BY <2>1 DEF Abort
  <2>2. CASE LoseLease(r)
    BY <2>2 DEF LoseLease
  <2>3. CASE StorageFails(r)
    BY <2>3 DEF StorageFails
  <2>4. CASE Crash(r)
    <3>1. /\ pos' \in [Request -> 1..N + 1] /\ seen' \in [Request -> Seen]
          /\ signal' \in [Request -> {"none", "abort", "lost"}]
          /\ fresh' \in [Request -> SUBSET Op]
      BY <2>4, PlanOrder DEF Crash, Forget
    <3>2. QED
      BY <2>4, <3>1, PlanOrder DEF Crash, Forget
  <2>5. CASE CallAgain(r)
    BY <2>5 DEF CallAgain
  <2>6. QED
    BY <1>22, <2>1, <2>2, <2>3, <2>4, <2>5 DEF Disturb
<1>23. CASE LeaseExpires
  BY <1>23 DEF LeaseExpires
<1>24. CASE RecoverAtStartup
  <2>1. row' \in [Op -> RowType]
    BY <1>24, RowUpdates DEF RecoverAtStartup
  <2>2. QED
    BY <1>24, <2>1 DEF RecoverAtStartup
<1>25. CASE PlanExpires
  BY <1>25 DEF PlanExpires
<1>26. ASSUME NEW o \in Op, NEW r \in Request, Land(o, r) PROVE TypeInv'
  BY <1>26 DEF Land
<1>27. ASSUME NEW o \in Op, NEW r \in Request, Drop(o, r) PROVE TypeInv'
  BY <1>27 DEF Drop
<1>28. ASSUME NEW o \in Op, Edit(o) PROVE TypeInv'
  BY <1>28 DEF Edit
<1>29. CASE UNCHANGED vars
  BY <1>29 DEF vars
<1>30. QED
  BY <1>2, <1>3, <1>4, <1>5, <1>6, <1>7, <1>8, <1>9, <1>10, <1>11, <1>12,
     <1>13, <1>14, <1>15, <1>16, <1>17, <1>18, <1>19, <1>20, <1>21, <1>22,
     <1>23, <1>24, <1>25, <1>26, <1>27, <1>28, <1>29 DEF Next, Step, Network

LEMMA InitTyped == Init => TypeInv
<1> SUFFICES ASSUME Init PROVE TypeInv
  OBVIOUS
<1>1. NoRow \in RowType
  BY DEF NoRow, RowType, Status, Attempt
<1>2. \A r \in Request : pc[r] \notin AtRow
  BY DEF Init, AtRow
<1>3. TypeOK
  <2>1. 1 \in 1..N + 1
    BY PlanOrder
  <2>2. QED
    BY <1>1, <2>1 DEF Init, TypeOK, PC, Active, Seen
<1>4. QED
  BY <1>2, <1>3 DEF TypeInv

(* Every variable keeps its type, and no call runs off the end of the plan. *)
THEOREM TypeCorrect == Spec => []TypeOK
<1>1. TypeInv => TypeOK
  BY DEF TypeInv
<1>2. QED
  BY <1>1, InitTyped, Typing, PTL DEF Spec

----------------------------------------------------------------------------
(* Ownership.  A request that holds the lease from its claim on owns the    *)
(* run, the run is running, and the row it works on is as it left it: no    *)
(* other call and no recovery writes rows meanwhile.  This is what makes    *)
(* every later invariant inductive.                                         *)
Working == {"reconciling", "observed", "executing", "blocking", "pacing",
            "decided", "gated", "sent", "recording", "closing"}

Placed(r) ==
    /\ pc[r] = "idle" => holder # r
    /\ pc[r] \in {"idle", "acquired"} => run.owner # r
    /\ holder = r /\ pc[r] \in Working => run.owner = r /\ run.state = "running"
    /\ holder = r /\ pc[r] = "observed" => Reconcilable(row[Current(r)])
    /\ holder = r /\ pc[r] \in {"blocking", "pacing", "decided"} =>
           row[Current(r)].status = "pending"
    /\ holder = r /\ pc[r] \in {"gated", "sent", "recording"} =>
           row[Current(r)].status = "running"

PlaceInv == \A r \in Request : Placed(r)

(* What a step of r may change for the others: rows and run only if it      *)
(* holds the lease, the lease only for itself.                              *)
Frame(r) ==
    /\ \A q \in Request \ {r} : pc'[q] = pc[q] /\ pos'[q] = pos[q]
    /\ \/ holder = r /\ holder' \in {r, None} /\ run'.owner \in {run.owner, r}
       \/ holder' \in {holder, None, r} /\ UNCHANGED <<row, run>>

LEMMA OthersKeepTheirPlace ==
    ASSUME PlaceInv, NEW r \in Request, Frame(r), NEW q \in Request, q # r
    PROVE  Placed(q)'
<1>1. Placed(q) /\ pc'[q] = pc[q] /\ pos'[q] = pos[q] /\ q # None
  BY PlanOrder DEF PlaceInv, Frame
<1>2. CASE holder = r /\ holder' \in {r, None} /\ run'.owner \in {run.owner, r}
  BY <1>1, <1>2 DEF Placed
<1>3. CASE holder' \in {holder, None, r} /\ UNCHANGED <<row, run>>
  BY <1>1, <1>3 DEF Placed, Current
<1>4. QED
  BY <1>2, <1>3 DEF Frame

(* A step of r keeps the others' place, so only its own is left to show.    *)
LEMMA MyPlace ==
    ASSUME PlaceInv, NEW r \in Request, Frame(r), Placed(r)'
    PROVE  PlaceInv'
BY OthersKeepTheirPlace DEF PlaceInv

LEMMA Placing == TypeInv /\ PlaceInv /\ [Next]_vars => PlaceInv'
<1> SUFFICES ASSUME TypeInv, PlaceInv, [Next]_vars PROVE PlaceInv'
  OBVIOUS
<1>0. /\ pc \in [Request -> PC] /\ pos \in [Request -> 1..N + 1]
      /\ row \in [Op -> RowType] /\ None \notin Request
      /\ run \in [state: {"none", "running", "partial", "completed"},
                  owner: Request \cup {None}]
      /\ \A r \in Request : Placed(r) /\ (pc[r] \in AtRow => InRange(r))
      /\ \A r \in Request : InRange(r) => Current(r) \in Op
  BY PlanOrder, CurrentRow DEF TypeInv, TypeOK, PlaceInv
<1> USE DEF Placed, Frame, Working, AtRow, durable, remote, local, Goto, Advance,
            CanWrite
<1>1. ASSUME NEW r \in Request, Claim(r) PROVE PlaceInv'
  <2>1. Frame(r)
    BY <1>0, <1>1 DEF Claim, SetPlan
  <2>2. Placed(r)'
    BY <1>0, <1>1 DEF Claim, SetPlan
  <2>3. QED
    BY <2>1, <2>2, MyPlace
<1>2. ASSUME NEW r \in Request, Acquire(r) PROVE PlaceInv'
  <2>1. Frame(r)
    BY <1>0, <1>2 DEF Acquire
  <2>2. Placed(r)'
    BY <1>0, <1>2 DEF Acquire
  <2>3. QED
    BY <2>1, <2>2, MyPlace
<1>3. ASSUME NEW r \in Request, PassOver(r) PROVE PlaceInv'
  <2>1. Frame(r)
    BY <1>0, <1>3 DEF PassOver
  <2>2. Placed(r)'
    BY <1>0, <1>3 DEF PassOver
  <2>3. QED
    BY <2>1, <2>2, MyPlace
<1>4. ASSUME NEW r \in Request, Observe(r) PROVE PlaceInv'
  <2>1. Frame(r)
    BY <1>0, <1>4 DEF Observe, Current
  <2>2. Placed(r)'
    BY <1>0, <1>4 DEF Observe, Current
  <2>3. QED
    BY <2>1, <2>2, MyPlace
<1>5. ASSUME NEW r \in Request, Reconcile(r) PROVE PlaceInv'
  <2>1. Frame(r)
    BY <1>0, <1>5 DEF Reconcile, Write
  <2>2. Placed(r)'
    BY <1>0, <1>5 DEF Reconcile, Write
  <2>3. QED
    BY <2>1, <2>2, MyPlace
<1>6. ASSUME NEW r \in Request, StepOver(r) PROVE PlaceInv'
  <2>1. Frame(r)
    BY <1>0, <1>6 DEF StepOver, NextOrStop
  <2>2. Placed(r)'
    BY <1>0, <1>6 DEF StepOver, NextOrStop
  <2>3. QED
    BY <2>1, <2>2, MyPlace
<1>7. ASSUME NEW r \in Request, RecordBlocked(r) PROVE PlaceInv'
  <2>1. Frame(r)
    BY <1>0, <1>7 DEF RecordBlocked, NextOrStop, Write
  <2>2. Placed(r)'
    BY <1>0, <1>7 DEF RecordBlocked, NextOrStop, Write
  <2>3. QED
    BY <2>1, <2>2, MyPlace
<1>8. ASSUME NEW r \in Request, Prepare(r) PROVE PlaceInv'
  <2>1. Frame(r)
    BY <1>0, <1>8 DEF Prepare, Current
  <2>2. Placed(r)'
    BY <1>0, <1>8 DEF Prepare, Current
  <2>3. QED
    BY <2>1, <2>2, MyPlace
<1>9. ASSUME NEW r \in Request, Decline(r) PROVE PlaceInv'
  <2>1. Frame(r)
    <3>1. CASE seen[r] = "after"
      BY <1>0, <1>9, <3>1 DEF Decline
    <3>2. CASE seen[r] # "after" /\ StopMode
      BY <1>0, <1>9, <3>2 DEF Decline, NextOrStop
    <3>3. CASE seen[r] # "after" /\ ~StopMode
      BY <1>0, <1>9, <3>3 DEF Decline, NextOrStop
    <3>4. QED
      BY <3>1, <3>2, <3>3
  <2>2. Placed(r)'
    BY <1>0, <1>9 DEF Decline, NextOrStop, Write
  <2>3. QED
    BY <2>1, <2>2, MyPlace
<1>10. ASSUME NEW r \in Request, AbandonBeforeDispatch(r) PROVE PlaceInv'
  <2>1. Frame(r)
    BY <1>0, <1>10 DEF AbandonBeforeDispatch, Write
  <2>2. Placed(r)'
    BY <1>0, <1>10 DEF AbandonBeforeDispatch, Write
  <2>3. QED
    BY <2>1, <2>2, MyPlace
<1>11. ASSUME NEW r \in Request, Send(r) PROVE PlaceInv'
  <2>1. Frame(r)
    BY <1>0, <1>11 DEF Send, Current
  <2>2. Placed(r)'
    BY <1>0, <1>11 DEF Send, Current
  <2>3. QED
    BY <2>1, <2>2, MyPlace
<1>12. ASSUME NEW r \in Request, RefusedAtGate(r) PROVE PlaceInv'
  <2>1. Frame(r)
    BY <1>0, <1>12 DEF RefusedAtGate, Current
  <2>2. Placed(r)'
    BY <1>0, <1>12 DEF RefusedAtGate, Current
  <2>3. QED
    BY <2>1, <2>2, MyPlace
<1>13. ASSUME NEW r \in Request, Answer(r) PROVE PlaceInv'
  <2>1. Frame(r)
    BY <1>0, <1>13 DEF Answer, Current
  <2>2. Placed(r)'
    BY <1>0, <1>13 DEF Answer, Current
  <2>3. QED
    BY <2>1, <2>2, MyPlace
<1>14. ASSUME NEW r \in Request, Record(r) PROVE PlaceInv'
  <2>1. Frame(r)
    BY <1>0, <1>14 DEF Record, NextOrStop, Write
  <2>2. Placed(r)'
    BY <1>0, <1>14 DEF Record, NextOrStop, Write
  <2>3. QED
    BY <2>1, <2>2, MyPlace
<1>15. ASSUME NEW r \in Request, Finalize(r) PROVE PlaceInv'
  <2>1. Frame(r)
    BY <1>0, <1>15 DEF Finalize, SetPlan
  <2>2. Placed(r)'
    BY <1>0, <1>15 DEF Finalize, SetPlan
  <2>3. QED
    BY <2>1, <2>2, MyPlace
<1>16. ASSUME NEW r \in Request, Unwind(r) PROVE PlaceInv'
  <2>1. Frame(r)
    BY <1>0, <1>16 DEF Unwind
  <2>2. Placed(r)'
    BY <1>0, <1>16 DEF Unwind
  <2>3. QED
    BY <2>1, <2>2, MyPlace
<1>17. ASSUME NEW r \in Request, Leave(r) PROVE PlaceInv'
  <2>1. Frame(r)
    BY <1>0, <1>17 DEF Leave, Forget
  <2>2. Placed(r)'
    BY <1>0, <1>17 DEF Leave, Forget
  <2>3. QED
    BY <2>1, <2>2, MyPlace
<1>18. ASSUME NEW r \in Request, WriteAhead(r) PROVE PlaceInv'
  <2>1. Frame(r)
    BY <1>0, <1>18 DEF WriteAhead, Write
  <2>2. Placed(r)'
    BY <1>0, <1>18 DEF WriteAhead, Write, Current, Queued, RowType, InRange
  <2>3. QED
    BY <2>1, <2>2, MyPlace
<1>19. ASSUME NEW r \in Request, Retry(r) PROVE PlaceInv'
  <2>1. Frame(r)
    BY <1>0, <1>19 DEF Retry, Write
  <2>2. Placed(r)'
    <3>1. CASE Aborted(r)
      BY <1>0, <1>19, <3>1 DEF Retry
    <3>2. CASE ~Aborted(r)
      <4>1. /\ Current(r) \in Op /\ pos' = pos /\ pc'[r] = "pacing"
            /\ row'[Current(r)] = Queued(row[Current(r)])
        BY <1>0, <1>19, <3>2 DEF Retry, Write
      <4>2. Queued(row[Current(r)]).status = "pending"
        BY <1>0, <4>1 DEF Queued, RowType
      <4>3. row'[Current(r)'].status = "pending" /\ UNCHANGED <<holder, run>>
        BY <1>19, <4>1, <4>2 DEF Retry, Current
      <4>4. QED
        BY <1>0, <1>19, <4>1, <4>3 DEF Retry
    <3>3. QED
      BY <3>1, <3>2
  <2>3. QED
    BY <2>1, <2>2, MyPlace
<1>20. ASSUME NEW r \in Request, Start(r) PROVE PlaceInv'
  <2>1. Frame(r)
    BY <1>0, <1>20 DEF Start, Write
  <2>2. Placed(r)'
    BY <1>0, <1>20 DEF Start, Write, Current, Started, RowType, InRange
  <2>3. QED
    BY <2>1, <2>2, MyPlace
<1>21. ASSUME NEW r \in Request, Disturb(r) \/ CallAgain(r) PROVE PlaceInv'
  <2>1. Frame(r)
    BY <1>0, <1>21 DEF Disturb, Abort, LoseLease, StorageFails, Crash, Forget,
                       CallAgain
  <2>2. Placed(r)'
    BY <1>0, <1>21 DEF Disturb, Abort, LoseLease, StorageFails, Crash, Forget,
                       CallAgain, Current
  <2>3. QED
    BY <2>1, <2>2, MyPlace
<1>22. CASE LeaseExpires
  BY <1>0, <1>22 DEF LeaseExpires, PlaceInv, Current
<1>23. CASE RecoverAtStartup
  BY <1>0, <1>23 DEF RecoverAtStartup, PlaceInv
<1>24. CASE PlanExpires \/ Network \/ (\E o \in Op : Edit(o))
  <2>1. UNCHANGED <<plan, run, row, holder, pc, pos>>
    BY <1>24 DEF PlanExpires, Network, Land, Drop, Edit
  <2>2. QED
    BY <1>0, <2>1 DEF PlaceInv, Current
<1>25. CASE UNCHANGED vars
  BY <1>0, <1>25 DEF vars, PlaceInv, Current
<1>26. QED
  BY <1>1, <1>2, <1>3, <1>4, <1>5, <1>6, <1>7, <1>8, <1>9, <1>10, <1>11,
     <1>12, <1>13, <1>14, <1>15, <1>16, <1>17, <1>18, <1>19, <1>20,
     <1>21, <1>22, <1>23, <1>24, <1>25 DEF Next, Step

----------------------------------------------------------------------------
(* The life cycle of a row: the only updates any step can make to it, and   *)
(* from where.  They happen only while the run is running.                  *)
RowStep(o) ==
    \/ row'[o] = row[o]
    \/ /\ row[o].status = "absent" \/ Retryable(row[o])
       /\ row'[o] = Queued(row[o])
    \/ /\ row[o].status = "pending"
       /\ \/ row'[o] = Started(row[o])
          \/ row'[o] = Settled(row[o], "skipped", FALSE)
          \/ \E b \in BOOLEAN : row'[o] = Settled(row[o], "failed", b)
    \/ /\ row[o].status = "running"
       /\ \E st \in {"succeeded", "failed", "unresolved"} :
             row'[o] = Finished(row[o], st)
    \/ /\ Reconcilable(row[o]) /\ TakesADecision(row[o])
       /\ \E ob \in Seen : row'[o] = Reconciled(row[o], ob)

LifeCycle == (\A o \in Op : RowStep(o)) /\ (row' # row => run.state = "running")

(* A step that writes the current row only, by one of these updates.        *)
LEMMA OneRowStep ==
    ASSUME TypeInv, NEW r \in Request, InRange(r), NEW x, Write(r, x),
           run.state = "running", RowStep(Current(r))
    PROVE  LifeCycle
<1>1. \A o \in Op \ {Current(r)} : row'[o] = row[o]
  BY DEF Write, TypeInv, TypeOK
<1>2. QED
  BY <1>1 DEF LifeCycle, RowStep

(* The written row is the new one.                                          *)
LEMMA WrittenRow ==
    ASSUME TypeInv, NEW r \in Request, InRange(r), NEW x, Write(r, x)
    PROVE  row'[Current(r)] = x
BY CurrentRow DEF Write, TypeInv, TypeOK

LEMMA Recovering ==
    ASSUME TypeInv, row' = [o \in Op |-> RecoveredRow(row[o])],
           run.state = "running"
    PROVE  LifeCycle
<1> SUFFICES ASSUME NEW o \in Op PROVE RowStep(o)
  BY DEF LifeCycle
<1>1. row'[o] = RecoveredRow(row[o])
  OBVIOUS
<1>2. CASE row[o].status = "pending"
  BY <1>1, <1>2 DEF RecoveredRow, RowStep
<1>3. CASE row[o].status = "running"
  BY <1>1, <1>3 DEF RecoveredRow, RowStep
<1>4. CASE row[o].status \notin {"pending", "running"}
  BY <1>1, <1>4 DEF RecoveredRow, RowStep
<1>5. QED
  BY <1>2, <1>3, <1>4

LEMMA RowLifeCycle == TypeInv /\ PlaceInv /\ [Next]_vars => LifeCycle
<1> SUFFICES ASSUME TypeInv, PlaceInv, [Next]_vars PROVE LifeCycle
  OBVIOUS
<1>0. UNCHANGED row => LifeCycle
  BY DEF LifeCycle, RowStep
<1>1. \A r \in Request : Placed(r) /\ (pc[r] \in AtRow => InRange(r))
  BY DEF PlaceInv, TypeInv
<1>2. ASSUME NEW r \in Request, Claim(r) PROVE LifeCycle
  <2>1. CASE run.state = "running" /\ row' # row
    <3>1. row' = [o \in Op |-> RecoveredRow(row[o])]
      BY <1>2, <2>1 DEF Claim, SetPlan, durable
    <3>2. QED
      BY <2>1, <3>1, Recovering
  <2>2. CASE run.state # "running"
    BY <1>0, <1>2, <2>2 DEF Claim, SetPlan, durable
  <2>3. QED
    BY <1>0, <2>1, <2>2
<1>3. ASSUME NEW r \in Request, Reconcile(r) PROVE LifeCycle
  <2> DEFINE stops == Aborted(r) \/ ~TakesADecision(row[Current(r)])
  <2>1. CASE stops
    BY <1>0, <1>3, <2>1 DEF Reconcile
  <2>2. CASE ~stops
    <3>1. /\ InRange(r) /\ Reconcilable(row[Current(r)]) /\ run.state = "running"
          /\ TakesADecision(row[Current(r)])
          /\ Write(r, Reconciled(row[Current(r)], seen[r])) /\ seen[r] \in Seen
      BY <1>1, <1>3, <2>2
         DEF Reconcile, CanWrite, Placed, Working, AtRow, TypeInv, TypeOK
    <3>2. RowStep(Current(r))
      BY <3>1, WrittenRow DEF RowStep
    <3>3. QED
      BY <3>1, <3>2, OneRowStep
  <2>3. QED
    BY <2>1, <2>2
<1>4. ASSUME NEW r \in Request, WriteAhead(r) PROVE LifeCycle
  <2>1. /\ InRange(r) /\ run.state = "running"
        /\ row[Current(r)].status = "absent"
        /\ Write(r, Queued(row[Current(r)]))
    BY <1>1, <1>4 DEF WriteAhead, CanWrite, Placed, Working
  <2>2. RowStep(Current(r))
    BY <2>1, WrittenRow DEF RowStep
  <2>3. QED
    BY <2>1, <2>2, OneRowStep
<1>5. ASSUME NEW r \in Request, RecordBlocked(r) PROVE LifeCycle
  <2>1. /\ InRange(r) /\ run.state = "running"
        /\ row[Current(r)].status = "pending"
        /\ Write(r, Settled(row[Current(r)], "failed", TRUE))
    BY <1>1, <1>5 DEF RecordBlocked, CanWrite, Placed, Working, AtRow
  <2>2. RowStep(Current(r))
    BY <2>1, WrittenRow DEF RowStep
  <2>3. QED
    BY <2>1, <2>2, OneRowStep
<1>6. ASSUME NEW r \in Request, Retry(r) PROVE LifeCycle
  <2>1. CASE Aborted(r)
    BY <1>0, <1>6, <2>1 DEF Retry
  <2>2. CASE ~Aborted(r)
    <3>1. /\ InRange(r) /\ run.state = "running" /\ Retryable(row[Current(r)])
          /\ Write(r, Queued(row[Current(r)]))
      BY <1>1, <1>6, <2>2 DEF Retry, CanWrite, Placed, Working
    <3>2. RowStep(Current(r))
      BY <3>1, WrittenRow DEF RowStep
    <3>3. QED
      BY <3>1, <3>2, OneRowStep
  <2>3. QED
    BY <2>1, <2>2
<1>7. ASSUME NEW r \in Request, Decline(r) PROVE LifeCycle
  <2>1. /\ InRange(r) /\ run.state = "running"
        /\ row[Current(r)].status = "pending"
    BY <1>1, <1>7 DEF Decline, CanWrite, Placed, Working, AtRow
  <2>2. CASE seen[r] = "after"
    <3>1. Write(r, Settled(row[Current(r)], "skipped", FALSE))
      BY <1>7, <2>2 DEF Decline
    <3>2. RowStep(Current(r))
      BY <2>1, <3>1, WrittenRow DEF RowStep
    <3>3. QED
      BY <2>1, <3>1, <3>2, OneRowStep
  <2>3. CASE seen[r] # "after"
    <3>1. Write(r, Settled(row[Current(r)], "failed", seen[r] = "transient"))
      BY <1>7, <2>3 DEF Decline
    <3>2. RowStep(Current(r))
      BY <2>1, <3>1, WrittenRow DEF RowStep
    <3>3. QED
      BY <2>1, <3>1, <3>2, OneRowStep
  <2>4. QED
    BY <2>2, <2>3
<1>8. ASSUME NEW r \in Request, AbandonBeforeDispatch(r) PROVE LifeCycle
  <2>1. /\ InRange(r) /\ run.state = "running"
        /\ row[Current(r)].status = "pending"
        /\ Write(r, Settled(row[Current(r)], "failed", TRUE))
    BY <1>1, <1>8 DEF AbandonBeforeDispatch, CanWrite, Placed, Working, AtRow
  <2>2. RowStep(Current(r))
    BY <2>1, WrittenRow DEF RowStep
  <2>3. QED
    BY <2>1, <2>2, OneRowStep
<1>9. ASSUME NEW r \in Request, Start(r) PROVE LifeCycle
  <2>1. /\ InRange(r) /\ run.state = "running"
        /\ row[Current(r)].status = "pending"
        /\ Write(r, Started(row[Current(r)]))
    BY <1>1, <1>9 DEF Start, CanWrite, Placed, Working, AtRow
  <2>2. RowStep(Current(r))
    BY <2>1, WrittenRow DEF RowStep
  <2>3. QED
    BY <2>1, <2>2, OneRowStep
<1>10. ASSUME NEW r \in Request, Record(r) PROVE LifeCycle
  <2>1. /\ InRange(r) /\ run.state = "running"
        /\ row[Current(r)].status = "running"
    BY <1>1, <1>10 DEF Record, CanWrite, Placed, Working, AtRow
  <2>2. PICK st \in {"succeeded", "failed", "unresolved"} :
            Write(r, Finished(row[Current(r)], st))
    BY <1>10 DEF Record
  <2>3. RowStep(Current(r))
    BY <2>1, <2>2, WrittenRow DEF RowStep
  <2>4. QED
    BY <2>1, <2>2, <2>3, OneRowStep
<1>11. CASE RecoverAtStartup
  BY <1>11, Recovering DEF RecoverAtStartup
<1>12. ASSUME NEW r \in Request,
              \/ Acquire(r) \/ PassOver(r) \/ Observe(r) \/ StepOver(r)
              \/ Prepare(r) \/ Send(r) \/ RefusedAtGate(r) \/ Answer(r)
              \/ Finalize(r) \/ Unwind(r) \/ Leave(r) \/ Disturb(r)
              \/ CallAgain(r)
       PROVE  LifeCycle
  <2>1. UNCHANGED row
    BY <1>12
       DEF Acquire, PassOver, Observe, StepOver, Prepare, Send, RefusedAtGate,
           Answer, Finalize, SetPlan, Unwind, Leave, Disturb, Abort, LoseLease,
           StorageFails, Crash, CallAgain, durable
  <2>2. QED
    BY <1>0, <2>1
<1>13. CASE LeaseExpires \/ PlanExpires \/ Network \/ (\E o \in Op : Edit(o))
            \/ UNCHANGED vars
  <2>1. UNCHANGED row
    BY <1>13 DEF LeaseExpires, PlanExpires, Network, Land, Drop, Edit, vars, durable
  <2>2. QED
    BY <1>0, <2>1
<1>14. QED
  BY <1>2, <1>3, <1>4, <1>5, <1>6, <1>7, <1>8, <1>9, <1>10, <1>11, <1>12,
     <1>13 DEF Next, Step

LEMMA InitPlaced == Init => PlaceInv
BY PlanOrder DEF Init, PlaceInv, Placed, Working

(* The two invariants together, as a property of the behaviours.            *)
LEMMA Invariants == Spec => [](TypeInv /\ PlaceInv)
BY InitTyped, InitPlaced, Typing, Placing, PTL DEF Spec

(* Whatever crashes, recovers and resumes, an operation that is done or was *)
(* refused keeps its row: finishRunOperation, retryRunOperation,            *)
(* reconcileRunOperation and the recovery start from other rows only.       *)
THEOREM VerdictsAreFinal == Spec => DoneIsFinal
<1>1. TypeInv /\ PlaceInv /\ [Next]_vars =>
          \A o \in Op :
              Done(row[o]) \/ (row[o].status = "failed" /\ ~row[o].retryable) =>
                  row'[o] = row[o]
  <2> SUFFICES ASSUME LifeCycle, NEW o \in Op,
                      Done(row[o]) \/ (row[o].status = "failed" /\ ~row[o].retryable)
               PROVE  row'[o] = row[o]
    BY RowLifeCycle
  <2>1. RowStep(o)
    BY DEF LifeCycle
  <2>2. QED
    BY <2>1 DEF RowStep, Done, Retryable, Reconcilable
<1>2. QED
  BY <1>1, Invariants, PTL DEF Spec, DoneIsFinal

----------------------------------------------------------------------------
(* Attempts.  AttemptsAreBounded needs that an absent row has no attempt.   *)
AttemptInv ==
    /\ AttemptsAreBounded
    /\ \A o \in Op : row[o].status = "absent" => row[o].attempts = 0

LEMMA Attempting == TypeInv /\ PlaceInv /\ AttemptInv /\ [Next]_vars => AttemptInv'
<1> SUFFICES ASSUME TypeInv, AttemptInv, LifeCycle, NEW o \in Op
             PROVE  /\ row'[o].attempts <= MaxAttempts
                    /\ row'[o].status = "pending" =>
                           row'[o].attempts < MaxAttempts
                    /\ (row'[o].status = "running") = (row'[o].last = "running")
                    /\ row'[o].status \in {"unresolved", "running"} =>
                           row'[o].attempts >= 1
                    /\ row'[o].status = "absent" => row'[o].attempts = 0
  BY RowLifeCycle DEF AttemptInv, AttemptsAreBounded
<1> DEFINE x == row[o]
           y == row'[o]
<1>1. /\ x \in RowType /\ x.attempts \in Nat /\ x.attempts <= MaxAttempts
      /\ MaxAttempts \in Nat \ {0}
      /\ x.status = "pending" => x.attempts < MaxAttempts
      /\ (x.status = "running") = (x.last = "running")
      /\ x.status \in {"unresolved", "running"} => x.attempts >= 1
      /\ x.status = "absent" => x.attempts = 0
  BY ApplyAssumption DEF TypeInv, TypeOK, RowType, AttemptInv, AttemptsAreBounded
<1>2. RowStep(o)
  BY DEF LifeCycle
<1>3. CASE y = x
  BY <1>1, <1>3
<1>4. CASE (x.status = "absent" \/ Retryable(x)) /\ y = Queued(x)
  BY <1>1, <1>4 DEF Queued, Retryable, RowType
<1>5. CASE x.status = "pending" /\ y = Started(x)
  BY <1>1, <1>5 DEF Started, RowType
<1>6. ASSUME NEW st \in {"skipped", "failed"}, NEW b \in BOOLEAN,
             x.status = "pending", y = Settled(x, st, b)
      PROVE  /\ y.attempts = x.attempts /\ y.status = st /\ y.last = x.last
  BY <1>1, <1>6 DEF Settled, RowType
<1>7. ASSUME NEW st \in {"succeeded", "failed", "unresolved"},
             x.status = "running", y = Finished(x, st)
      PROVE  /\ y.attempts = x.attempts /\ y.status = st /\ y.last = st
  BY <1>1, <1>7 DEF Finished, RowType
<1>8. ASSUME NEW ob \in Seen, Reconcilable(x), y = Reconciled(x, ob)
      PROVE  /\ y.attempts = x.attempts /\ y.last = x.last
             /\ y.status \in {"succeeded", "failed", "unresolved"}
  BY <1>1, <1>8 DEF Reconciled, Settled, RowType
<1>9. Reconcilable(x) => x.attempts >= 1 /\ x.status \notin {"running"}
  BY <1>1 DEF Reconcilable
<1>10. QED
  BY <1>1, <1>2, <1>3, <1>4, <1>5, <1>6, <1>7, <1>8, <1>9 DEF RowStep

LEMMA InitAttempts == Init => AttemptInv
BY ApplyAssumption DEF Init, AttemptInv, AttemptsAreBounded, NoRow

(* No operation is dispatched more than MaxAttempts times, its row says     *)
(* "running" exactly while its last attempt is open, and only an operation  *)
(* that was dispatched can be unresolved.                                   *)
THEOREM AttemptsBounded == Spec => []AttemptsAreBounded
<1>1. AttemptInv => AttemptsAreBounded
  BY DEF AttemptInv
<1>2. QED
  BY <1>1, InitAttempts, Attempting, Invariants, PTL DEF Spec

(* Whatever moment a call ends at, every row it leaves is one that the      *)
(* repository accepts when it is read again (parseRunOperation).            *)
THEOREM RowsLegal == Spec => []RowsAreLegal
<1>1. Init => RowsAreLegal
  BY DEF Init, RowsAreLegal, NoRow
<1>2. TypeInv /\ PlaceInv /\ RowsAreLegal /\ [Next]_vars => RowsAreLegal'
  <2> SUFFICES ASSUME TypeInv, RowsAreLegal, LifeCycle, NEW o \in Op,
                      row'[o].status # "absent"
               PROVE  Legal(row'[o])
    BY RowLifeCycle DEF RowsAreLegal
  <2> DEFINE x == row[o]
             y == row'[o]
  <2>1. /\ x \in RowType /\ x.attempts \in Nat
        /\ x.status # "absent" => Legal(x)
    BY DEF TypeInv, TypeOK, RowType, RowsAreLegal
  <2>2. RowStep(o)
    BY DEF LifeCycle
  <2>3. CASE y = x
    BY <2>1, <2>3
  <2>4. CASE y = Queued(x)
    BY <2>1, <2>4 DEF Queued, RowType, Legal
  <2>5. CASE y = Started(x)
    BY <2>1, <2>5 DEF Started, RowType, Legal
  <2>6. ASSUME NEW st \in {"skipped", "failed"}, NEW b \in BOOLEAN,
               x.status = "pending", y = Settled(x, st, b)
        PROVE  Legal(y)
    BY <2>1, <2>6 DEF Settled, RowType, Legal
  <2>7. ASSUME NEW st \in {"succeeded", "failed", "unresolved"},
               x.status = "running", y = Finished(x, st)
        PROVE  Legal(y)
    BY <2>1, <2>7 DEF Finished, RowType, Legal
  <2>8. ASSUME NEW ob \in Seen, TakesADecision(x), y = Reconciled(x, ob)
        PROVE  Legal(y)
    BY <2>1, <2>8 DEF Reconciled, Settled, RowType, Legal, TakesADecision
  <2>9. QED
    BY <2>1, <2>2, <2>3, <2>4, <2>5, <2>6, <2>7, <2>8 DEF RowStep
<1>3. QED
  BY <1>1, <1>2, Invariants, PTL DEF Spec

----------------------------------------------------------------------------
(* Run, plan and rows.                                                      *)

(* Recovery leaves no row that may still be worked on.                      *)
LEMMA RecoveredIsClosed ==
    ASSUME NEW x \in RowType
    PROVE  ~Open(RecoveredRow(x)) /\ (Done(x) => RecoveredRow(x) = x)
<1>1. CASE x.status = "pending"
  BY <1>1 DEF RecoveredRow, Settled, Open, Done, RowType
<1>2. CASE x.status = "running"
  BY <1>2 DEF RecoveredRow, Finished, Open, Done, RowType
<1>3. CASE x.status \notin {"pending", "running"}
  BY <1>3 DEF RecoveredRow, Open, Done
<1>4. QED
  BY <1>1, <1>2, <1>3

LEMMA Consisting ==
    TypeInv /\ PlaceInv /\ RunIsConsistent /\ [Next]_vars => RunIsConsistent'
<1> SUFFICES ASSUME TypeInv, PlaceInv, RunIsConsistent, [Next]_vars
             PROVE  RunIsConsistent'
  OBVIOUS
<1>0. row' # row => run.state = "running"
  BY RowLifeCycle DEF LifeCycle
<1>1. ASSUME UNCHANGED <<run, plan>> PROVE RunIsConsistent'
  BY <1>0, <1>1 DEF RunIsConsistent
<1>2. ASSUME NEW r \in Request, Claim(r) PROVE RunIsConsistent'
  <2>1. CASE UNCHANGED durable
    BY <1>1, <2>1 DEF durable
  <2>2. CASE plan' = "applying" /\ run' = [state |-> "running", owner |-> r]
    BY <2>2 DEF RunIsConsistent
  <2>3. QED
    BY <1>2, <2>1, <2>2 DEF Claim, SetPlan
<1>3. ASSUME NEW r \in Request, Finalize(r) PROVE RunIsConsistent'
  <2>1. CASE UNCHANGED <<plan, run>>
    BY <1>1, <2>1
  <2>2. CASE \A o \in Op : ~Open(row[o])
    <3>1. /\ run' = [run EXCEPT !.state = IF Complete THEN "completed"
                                                    ELSE "partial"]
          /\ plan' = IF Complete THEN "applied" ELSE "partial"
          /\ row' = row
      BY <1>3, <2>2 DEF Finalize, SetPlan
    <3>2. run'.state = IF Complete THEN "completed" ELSE "partial"
      BY <3>1 DEF TypeInv, TypeOK
    <3>3. QED
      BY <2>2, <3>1, <3>2 DEF RunIsConsistent, Complete
  <2>3. QED
    BY <1>3, <2>1, <2>2 DEF Finalize, SetPlan
<1>4. CASE RecoverAtStartup
  <2>1. run'.state = "partial" /\ plan' = "partial"
    BY <1>4 DEF RecoverAtStartup, TypeInv, TypeOK
  <2>2. \A o \in Op : ~Open(row'[o])
    BY <1>4, RecoveredIsClosed DEF RecoverAtStartup, TypeInv, TypeOK
  <2>3. QED
    BY <2>1, <2>2 DEF RunIsConsistent
<1>5. ASSUME NEW r \in Request,
             \/ Acquire(r) \/ PassOver(r) \/ Observe(r) \/ Reconcile(r)
             \/ StepOver(r) \/ WriteAhead(r) \/ RecordBlocked(r) \/ Retry(r)
             \/ Prepare(r) \/ Decline(r) \/ AbandonBeforeDispatch(r)
             \/ Start(r) \/ Send(r) \/ RefusedAtGate(r) \/ Answer(r)
             \/ Record(r) \/ Unwind(r) \/ Leave(r) \/ Disturb(r)
            \/ CallAgain(r)
      PROVE  UNCHANGED <<run, plan>>
  BY <1>5
     DEF Acquire, PassOver, Observe, Reconcile, StepOver, WriteAhead,
         RecordBlocked, Retry, Prepare, Decline, AbandonBeforeDispatch, Start,
         Send, RefusedAtGate, Answer, Record, Unwind, Leave, Disturb, Abort,
         LoseLease, StorageFails, Crash, CallAgain, durable
<1>6. CASE LeaseExpires \/ PlanExpires \/ Network \/ (\E o \in Op : Edit(o))
           \/ UNCHANGED vars
  BY <1>1, <1>6
     DEF LeaseExpires, PlanExpires, Network, Land, Drop, Edit, vars, durable
<1>7. QED
  BY <1>1, <1>2, <1>3, <1>4, <1>5, <1>6 DEF Next, Step

LEMMA InitConsistent == Init => RunIsConsistent
BY DEF Init, RunIsConsistent, NoRow, Open

(* After every transaction of every call and recovery, a run that is not    *)
(* running has no open row, the plan's state is the run's, and a completed  *)
(* run has every operation of the plan done.                                *)
THEOREM RunConsistent == Spec => []RunIsConsistent
BY InitConsistent, Consisting, Invariants, PTL DEF Spec

----------------------------------------------------------------------------
(* The wire.  A call that has not noticed a loss of its lease holds it, and *)
(* only the mutations of the call that holds it are on their way: the       *)
(* lease is not given up over them (Quiet).  So whoever judges a row knows  *)
(* that nothing of it is still to come.                                     *)
Held(r) == pc[r] \in Active \cup {"leaving"} /\ ~Lost(r) => holder = r

InDoubt(o, r) ==
    <<o, r>> \in inflight =>
        /\ holder = r
        /\ row[o].status \in {"running", "unresolved"}
        /\ pc[r] \notin {"idle", "acquired", "reconciling", "observed"}

\* What a call was told of its own mutation, it was told when it had arrived.
Told(r) ==
    /\ pc[r] \in {"gated", "sent"} => seen[r] \in {"nothing", "landed", "dropped"}
    /\ pc[r] = "gated" => seen[r] = "nothing" /\ <<Current(r), r>> \notin inflight
    /\ pc[r] = "sent" /\ seen[r] # "nothing" => <<Current(r), r>> \notin inflight
    /\ pc[r] = "recording" /\ seen[r] \in {"verified", "rejected"} =>
           <<Current(r), r>> \notin inflight

WireInv ==
    /\ \A r \in Request : Held(r) /\ Told(r)
    /\ \A o \in Op, r \in Request : InDoubt(o, r)

(* Recovery leaves in doubt what was.                                       *)
LEMMA RecoveredInDoubt ==
    ASSUME NEW x \in RowType, x.status \in {"running", "unresolved"}
    PROVE  RecoveredRow(x).status = "unresolved"
BY DEF RecoveredRow, Finished, RowType

(* A step of r before and after which it has nothing of its own in view.    *)
LEMMA MovesOn ==
    ASSUME WireInv, NEW r \in Request, UNCHANGED <<holder, inflight, signal>>,
           \A q \in Request \ {r} :
               pc'[q] = pc[q] /\ pos'[q] = pos[q] /\ seen'[q] = seen[q],
           pc[r] \in Active,
           pc'[r] \in {"reconciling", "executing", "closing"},
           pc'[r] = "reconciling" => pc[r] = "reconciling",
           \A o \in Op : \/ row'[o] = row[o]
                         \/ row[o].status \notin {"running", "unresolved"}
    PROVE  WireInv'
<1>1. ASSUME NEW q \in Request PROVE Held(q)' /\ Told(q)'
  <2>1. CASE q = r
    BY <2>1 DEF WireInv, Held, Told, Lost, Active
  <2>2. CASE q # r
    <3>1. pc'[q] = pc[q] /\ pos'[q] = pos[q] /\ seen'[q] = seen[q]
      BY <2>2
    <3>2. QED
      BY <3>1 DEF WireInv, Held, Told, Lost, Current
  <2>3. QED
    BY <2>1, <2>2
<1>2. ASSUME NEW o \in Op, NEW q \in Request PROVE InDoubt(o, q)'
  <2>1. InDoubt(o, q) /\ (q # r => pc'[q] = pc[q])
    BY DEF WireInv
  <2>2. QED
    BY <2>1 DEF InDoubt
<1>3. QED
  BY <1>1, <1>2 DEF WireInv

(* The rows a call may write while a mutation of its own is on its way are  *)
(* not the mutation's.                                                      *)
LEMMA Wiring ==
    HonestTransport /\ TypeInv /\ PlaceInv /\ WireInv /\ [Next]_vars => WireInv'
<1> SUFFICES ASSUME HonestTransport, TypeInv, PlaceInv, WireInv, [Next]_vars
             PROVE  WireInv'
  OBVIOUS
<1>0. /\ pc \in [Request -> PC] /\ pos \in [Request -> 1..N + 1]
      /\ row \in [Op -> RowType] /\ None \notin Request
      /\ seen \in [Request -> Seen] /\ signal \in [Request -> {"none", "abort", "lost"}]
      /\ inflight \subseteq Op \X Request
      /\ \A r \in Request : Placed(r) /\ (pc[r] \in AtRow => InRange(r))
      /\ \A r \in Request : InRange(r) => Current(r) \in Op
      /\ \A r \in Request : Held(r) /\ Told(r)
      /\ \A o \in Op, r \in Request : InDoubt(o, r)
  BY PlanOrder, CurrentRow DEF TypeInv, TypeOK, PlaceInv, WireInv
<1> USE DEF Placed, Working, AtRow, durable, remote, local, Goto, Advance, Note, Fire,
            CanWrite, Held, Told, InDoubt, Active, Lost
<1>1. ASSUME NEW r \in Request, Claim(r) PROVE WireInv'
  BY <1>0, <1>1, RecoveredInDoubt DEF Claim, SetPlan, WireInv, Current
<1>2. ASSUME NEW r \in Request, Acquire(r) PROVE WireInv'
  BY <1>0, <1>2 DEF Acquire, WireInv, Current
<1>3. ASSUME NEW r \in Request, PassOver(r) PROVE WireInv'
  <2>1. /\ \A q \in Request \ {r} :
               pc'[q] = pc[q] /\ pos'[q] = pos[q] /\ seen'[q] = seen[q]
        /\ pc'[r] \in {"reconciling", "executing", "closing"}
        /\ pc'[r] = "reconciling" => pc[r] = "reconciling"
        /\ pc[r] \in Active /\ UNCHANGED <<holder, inflight, signal>>
    BY <1>0, <1>3 DEF PassOver
  <2>2. \A o \in Op : \/ row'[o] = row[o]
                      \/ row[o].status \notin {"running", "unresolved"}
    BY <1>0, <1>3 DEF PassOver
  <2>3. QED
    BY <2>1, <2>2, MovesOn
<1>4. ASSUME NEW r \in Request, Observe(r) PROVE WireInv'
  BY <1>0, <1>4 DEF Observe, WireInv, Current
<1>5. ASSUME NEW r \in Request, Reconcile(r) PROVE WireInv'
  BY <1>0, <1>5 DEF Reconcile, Write, WireInv, Current
<1>6. ASSUME NEW r \in Request, StepOver(r) PROVE WireInv'
  <2>1. /\ \A q \in Request \ {r} :
               pc'[q] = pc[q] /\ pos'[q] = pos[q] /\ seen'[q] = seen[q]
        /\ pc'[r] \in {"reconciling", "executing", "closing"}
        /\ pc'[r] = "reconciling" => pc[r] = "reconciling"
        /\ pc[r] \in Active /\ UNCHANGED <<holder, inflight, signal>>
    BY <1>0, <1>6 DEF StepOver, NextOrStop
  <2>2. \A o \in Op : \/ row'[o] = row[o]
                      \/ row[o].status \notin {"running", "unresolved"}
    BY <1>0, <1>6 DEF StepOver, NextOrStop
  <2>3. QED
    BY <2>1, <2>2, MovesOn
<1>7. ASSUME NEW r \in Request, RecordBlocked(r) PROVE WireInv'
  <2>1. /\ \A q \in Request \ {r} :
               pc'[q] = pc[q] /\ pos'[q] = pos[q] /\ seen'[q] = seen[q]
        /\ pc'[r] \in {"reconciling", "executing", "closing"}
        /\ pc'[r] = "reconciling" => pc[r] = "reconciling"
        /\ pc[r] \in Active /\ UNCHANGED <<holder, inflight, signal>>
    BY <1>0, <1>7 DEF RecordBlocked, NextOrStop, Write
  <2>2. \A o \in Op : \/ row'[o] = row[o]
                      \/ row[o].status \notin {"running", "unresolved"}
    BY <1>0, <1>7 DEF RecordBlocked, NextOrStop, Write
  <2>3. QED
    BY <2>1, <2>2, MovesOn
<1>8. ASSUME NEW r \in Request, Prepare(r) PROVE WireInv'
  BY <1>0, <1>8 DEF Prepare, WireInv, Current
<1>9. ASSUME NEW r \in Request, Decline(r) PROVE WireInv'
  <2>1. /\ \A q \in Request \ {r} :
               pc'[q] = pc[q] /\ pos'[q] = pos[q] /\ seen'[q] = seen[q]
        /\ pc'[r] \in {"reconciling", "executing", "closing"}
        /\ pc'[r] = "reconciling" => pc[r] = "reconciling"
        /\ pc[r] \in Active /\ UNCHANGED <<holder, inflight, signal>>
    <3>1. CASE seen[r] = "after"
      BY <1>0, <1>9, <3>1 DEF Decline
    <3>2. CASE seen[r] # "after" /\ StopMode
      BY <1>0, <1>9, <3>2 DEF Decline, NextOrStop
    <3>3. CASE seen[r] # "after" /\ ~StopMode
      BY <1>0, <1>9, <3>3 DEF Decline, NextOrStop
    <3>4. QED
      BY <3>1, <3>2, <3>3
  <2>2. \A o \in Op : \/ row'[o] = row[o]
                      \/ row[o].status \notin {"running", "unresolved"}
    BY <1>0, <1>9 DEF Decline, NextOrStop, Write
  <2>3. QED
    BY <2>1, <2>2, MovesOn
<1>10. ASSUME NEW r \in Request, AbandonBeforeDispatch(r) PROVE WireInv'
  BY <1>0, <1>10, ZenonT(60) DEF AbandonBeforeDispatch, Write, WireInv, Current
<1>11. ASSUME NEW r \in Request, Send(r) PROVE WireInv'
  BY <1>0, <1>11 DEF Send, WireInv, Current
<1>12. ASSUME NEW r \in Request, RefusedAtGate(r) PROVE WireInv'
  BY <1>0, <1>12 DEF RefusedAtGate, WireInv, Current
<1>13. ASSUME NEW r \in Request, Answer(r) PROVE WireInv'
  BY <1>0, <1>13 DEF Answer, WireInv, Current
<1>14. ASSUME NEW r \in Request, Record(r) PROVE WireInv'
  BY <1>0, <1>14 DEF Record, NextOrStop, Write, WireInv, Current, Finished, RowType
<1>15. ASSUME NEW r \in Request, Finalize(r) PROVE WireInv'
  BY <1>0, <1>15 DEF Finalize, SetPlan, WireInv, Current
<1>16. ASSUME NEW r \in Request, Unwind(r) PROVE WireInv'
  BY <1>0, <1>16 DEF Unwind, WireInv, Current
<1>17. ASSUME NEW r \in Request, Leave(r) PROVE WireInv'
  BY <1>0, <1>17 DEF Leave, Forget, WireInv, Current, Quiet
<1>18. ASSUME NEW r \in Request, WriteAhead(r) PROVE WireInv'
  BY <1>0, <1>18 DEF WriteAhead, Write, WireInv, Current
<1>19. ASSUME NEW r \in Request, Retry(r) PROVE WireInv'
  BY <1>0, <1>19 DEF Retry, Write, WireInv, Current, Retryable
<1>20. ASSUME NEW r \in Request, Start(r) PROVE WireInv'
  BY <1>0, <1>20 DEF Start, Write, WireInv, Current, Started, RowType
<1>21. ASSUME NEW r \in Request, Disturb(r) PROVE WireInv'
  BY <1>0, <1>21 DEF Disturb, Abort, LoseLease, StorageFails, Crash, Forget,
                       WireInv, Current
<1>22. ASSUME NEW r \in Request, CallAgain(r) PROVE WireInv'
  BY <1>0, <1>22 DEF CallAgain, WireInv, Current, Quiet
<1>23. CASE LeaseExpires
  BY <1>0, <1>23 DEF LeaseExpires, WireInv, Current, Quiet
<1>24. CASE RecoverAtStartup
  BY <1>0, <1>24, RecoveredInDoubt DEF RecoverAtStartup, WireInv, Current
<1>25. ASSUME NEW o \in Op, NEW r \in Request, Land(o, r) \/ Drop(o, r) PROVE WireInv'
  BY <1>0, <1>25 DEF Land, Drop, WireInv, Current
<1>26. CASE PlanExpires \/ (\E o \in Op : Edit(o)) \/ UNCHANGED vars
  BY <1>0, <1>26 DEF PlanExpires, Edit, WireInv, Current, vars
<1>27. QED
  BY <1>1, <1>2, <1>3, <1>4, <1>5, <1>6, <1>7, <1>8, <1>9, <1>10, <1>11,
     <1>12, <1>13, <1>14, <1>15, <1>16, <1>17, <1>18, <1>19, <1>20,
     <1>21, <1>22, <1>23, <1>24, <1>25, <1>26 DEF Next, Step, Network

----------------------------------------------------------------------------
(* The dependencies.  An operation was dispatched only when all it depends  *)
(* on was done, and what is done stays done.                                *)
AtDispatch == {"pacing", "decided", "gated", "sent", "recording"}

Dispatchable(r) == holder = r /\ pc[r] \in AtDispatch => DepsDone(Current(r))

DepsInv ==
    /\ \A o \in Op : row[o].attempts >= 1 => DepsDone(o)
    /\ \A r \in Request : Dispatchable(r)

LEMMA DoneStays ==
    ASSUME TypeInv, LifeCycle
    PROVE  /\ \A o \in Op : Done(row[o]) => row'[o] = row[o]
           /\ \A o \in Op : DepsDone(o) => DepsDone(o)'
<1>1. \A o \in Op : Done(row[o]) => row'[o] = row[o]
  BY DEF LifeCycle, RowStep, Done, Retryable, Reconcilable
<1>2. Deps \in [Op -> SUBSET Op]
  BY ApplyAssumption
<1>3. QED
  BY <1>1, <1>2 DEF DepsDone

(* Only Start counts an attempt.                                            *)
LEMMA AttemptsCounted ==
    ASSUME NEW x \in RowType
    PROVE  /\ Queued(x).attempts = x.attempts
           /\ \A st \in Status, b \in BOOLEAN : Settled(x, st, b).attempts = x.attempts
           /\ \A st : Finished(x, st).attempts = x.attempts
           /\ \A ob : Reconciled(x, ob).attempts = x.attempts
           /\ RecoveredRow(x).attempts = x.attempts
BY DEF Queued, Settled, Finished, Reconciled, RecoveredRow, RowType, Status

(* A step after which each dispatch was ready before or is ready by now.    *)
LEMMA KeepsDeps ==
    ASSUME TypeInv, LifeCycle, DepsInv,
           \A o \in Op : row'[o].attempts = row[o].attempts \/ DepsDone(o),
           \A q \in Request :
               holder' = q /\ pc'[q] \in AtDispatch =>
                   /\ pos'[q] = pos[q] /\ Current(q) \in Op
                   /\ (holder = q /\ pc[q] \in AtDispatch) \/ DepsDone(Current(q))
    PROVE  DepsInv'
<1>1. \A o \in Op : row'[o].attempts >= 1 => DepsDone(o)'
  BY DoneStays DEF DepsInv
<1>2. \A q \in Request : Dispatchable(q)'
  BY DoneStays DEF DepsInv, Dispatchable, Current
<1>3. QED
  BY <1>1, <1>2 DEF DepsInv

LEMMA Depending == TypeInv /\ PlaceInv /\ DepsInv /\ [Next]_vars => DepsInv'
<1> SUFFICES ASSUME TypeInv, PlaceInv, DepsInv, [Next]_vars PROVE DepsInv'
  OBVIOUS
<1> DEFINE Counts == \A o \in Op : row'[o].attempts = row[o].attempts \/ DepsDone(o)
           Ready == \A q \in Request :
                       holder' = q /\ pc'[q] \in AtDispatch =>
                           /\ pos'[q] = pos[q] /\ Current(q) \in Op
                           /\ \/ holder = q /\ pc[q] \in AtDispatch
                              \/ DepsDone(Current(q))
<1>0. /\ LifeCycle
      /\ pc \in [Request -> PC] /\ pos \in [Request -> 1..N + 1]
      /\ row \in [Op -> RowType] /\ None \notin Request
      /\ \A r \in Request : Placed(r) /\ Dispatchable(r)
      /\ \A r \in Request : pc[r] \in AtRow => InRange(r)
      /\ \A r \in Request : InRange(r) => Current(r) \in Op
  BY PlanOrder, CurrentRow, RowLifeCycle DEF TypeInv, TypeOK, PlaceInv, DepsInv
<1> USE DEF Placed, Working, AtRow, AtDispatch, durable, remote, local, Goto,
            Advance, CanWrite
<1>1. ASSUME NEW r \in Request, Claim(r) PROVE Counts /\ Ready
  BY <1>0, <1>1, AttemptsCounted DEF Claim, SetPlan
<1>2. ASSUME NEW r \in Request, Reconcile(r) PROVE Counts /\ Ready
  BY <1>0, <1>2, AttemptsCounted DEF Reconcile, Write
<1>3. ASSUME NEW r \in Request, WriteAhead(r) PROVE Counts /\ Ready
  BY <1>0, <1>3, AttemptsCounted DEF WriteAhead, Write
<1>4. ASSUME NEW r \in Request, RecordBlocked(r) PROVE Counts /\ Ready
  <2>1. Counts
    BY <1>0, <1>4, AttemptsCounted, ZenonT(60) DEF RecordBlocked, Write, Status
  <2>2. Ready
    BY <1>0, <1>4 DEF RecordBlocked, NextOrStop
  <2>3. QED
    BY <2>1, <2>2
<1>5. ASSUME NEW r \in Request, Retry(r) PROVE Counts /\ Ready
  BY <1>0, <1>5, AttemptsCounted DEF Retry, Write
<1>6. ASSUME NEW r \in Request, Decline(r) PROVE Counts /\ Ready
  <2>1. Counts
    <3>1. PICK st \in Status, b \in BOOLEAN :
              Write(r, Settled(row[Current(r)], st, b))
      BY <1>6, Zenon DEF Decline, Status
    <3>2. QED
      BY <1>0, <1>6, <3>1, AttemptsCounted DEF Decline, Write
  <2>2. Ready
    BY <1>0, <1>6 DEF Decline, NextOrStop
  <2>3. QED
    BY <2>1, <2>2
<1>7. ASSUME NEW r \in Request, AbandonBeforeDispatch(r) PROVE Counts /\ Ready
  <2>1. Counts
    BY <1>0, <1>7, AttemptsCounted DEF AbandonBeforeDispatch, Write, Status
  <2>2. Ready
    BY <1>0, <1>7 DEF AbandonBeforeDispatch
  <2>3. QED
    BY <2>1, <2>2
<1>8. ASSUME NEW r \in Request, Start(r) PROVE Counts /\ Ready
  BY <1>0, <1>8 DEF Start, Write, Dispatchable
<1>9. ASSUME NEW r \in Request, Record(r) PROVE Counts /\ Ready
  BY <1>0, <1>9, AttemptsCounted DEF Record, Write, NextOrStop
<1>10. ASSUME RecoverAtStartup PROVE Counts /\ Ready
  <2>1. Counts
    BY <1>0, <1>10, AttemptsCounted DEF RecoverAtStartup
  <2>2. Ready
    BY <1>0, <1>10 DEF RecoverAtStartup
  <2>3. QED
    BY <2>1, <2>2
<1>11. ASSUME NEW r \in Request,
              \/ Acquire(r) \/ PassOver(r) \/ Observe(r) \/ Prepare(r) \/ Send(r)
              \/ RefusedAtGate(r) \/ Answer(r) \/ Finalize(r) \/ Unwind(r)
       PROVE  Counts /\ Ready
  BY <1>0, <1>11
     DEF Acquire, PassOver, Observe, Prepare, Send, RefusedAtGate, Answer,
         Finalize, SetPlan, Unwind
<1>12. ASSUME NEW r \in Request, Leave(r) \/ Disturb(r) \/ CallAgain(r)
       PROVE  Counts /\ Ready
  BY <1>0, <1>12 DEF Leave, Disturb, Abort, LoseLease, StorageFails, Crash,
                     Forget, CallAgain
<1>13. ASSUME NEW r \in Request, StepOver(r) PROVE Counts /\ Ready
  BY <1>0, <1>13 DEF StepOver, NextOrStop
<1>14. ASSUME LeaseExpires \/ PlanExpires \/ Network \/ (\E o \in Op : Edit(o))
              \/ UNCHANGED vars
       PROVE  Counts /\ Ready
  <2>1. UNCHANGED <<row, pc, pos>> /\ holder' \in {holder, None}
    BY <1>14 DEF LeaseExpires, PlanExpires, Network, Land, Drop, Edit, vars
  <2>2. QED
    BY <1>0, <2>1
<1>15. Counts /\ Ready
  BY <1>1, <1>2, <1>3, <1>4, <1>5, <1>6, <1>7, <1>8, <1>9, <1>10, <1>11,
     <1>12, <1>13, <1>14 DEF Next, Step
<1>16. QED
  BY <1>0, <1>15, KeepsDeps

----------------------------------------------------------------------------
(* The contract.  Every step of a call, of a recovery or of the network is  *)
(* a step of ChangeLedger, or nothing to it.                                *)
Contract == [Ledger!Next]_(Ledger!ledgerVars)

LEMMA VerdictTyped ==
    TypeInv => \A o \in Op : LedgerStatus(row[o]) \in {"open", "doubt", "done", "refused"}
BY DEF TypeInv, TypeOK, LedgerStatus

LEMMA DoneIsDone == \A x : Done(x) => LedgerStatus(x) = "done"
BY DEF Done, LedgerStatus

(* A step that changes no verdict, the run's state and the wire is none.    *)
LEMMA NothingDecided ==
    ASSUME UNCHANGED <<run.state, inflight>>, \A o \in Op : LedgerStatus(row'[o]) = LedgerStatus(row[o])
    PROVE  Contract
BY DEF Contract, Ledger!ledgerVars

(* A step that writes the row of one operation whose dependencies are done  *)
(* and of which nothing is on the wire puts it in doubt or judges it.       *)
LEMMA OneDecided ==
    ASSUME TypeInv, TypeInv', run.state = "running", UNCHANGED <<run, inflight>>,
           NEW c \in Op, \A o \in Op \ {c} : row'[o] = row[o],
           LedgerStatus(row[c]) \in {"open", "doubt"},
           \/ LedgerStatus(row'[c]) = LedgerStatus(row[c])
           \/ DepsDone(c) /\ \A r \in Request : <<c, r>> \notin inflight
    PROVE  Contract
<1> DEFINE st == [o \in Op |-> LedgerStatus(row[o])]
<1>1. CASE LedgerStatus(row'[c]) = LedgerStatus(row[c])
  <2>1. \A o \in Op : LedgerStatus(row'[o]) = LedgerStatus(row[o])
    BY <1>1
  <2>2. QED
    BY <2>1, NothingDecided
<1>2. CASE LedgerStatus(row'[c]) # LedgerStatus(row[c])
  <2>1. LedgerStatus(row'[c]) \in {"open", "doubt", "done", "refused"}
    BY VerdictTyped DEF TypeInv, TypeOK, LedgerStatus
  <2>2. st' = [st EXCEPT ![c] = LedgerStatus(row'[c])]
    OBVIOUS
  <2>3. Ledger!Ready(c)
    <3>1. Deps \in [Op -> SUBSET Op] /\ DepsDone(c)
      BY <1>2, ApplyAssumption
    <3>2. \A d \in Deps[c] : d \in Op /\ LedgerStatus(row[d]) = "done"
      BY <3>1, DoneIsDone DEF DepsDone
    <3>3. QED
      BY <3>1, <3>2 DEF Ledger!Ready
  <2>4. c \notin {o \in Op : \E r \in Request : <<o, r>> \in inflight}
    BY <1>2
  <2>5. /\ UNCHANGED {o \in Op : \E r \in Request : <<o, r>> \in inflight}
        /\ UNCHANGED run.state
    OBVIOUS
  <2>6. CASE LedgerStatus(row[c]) = "open" /\ LedgerStatus(row'[c]) = "doubt"
    <3>1. Ledger!Doubt(c)
      BY <2>2, <2>3, <2>5, <2>6 DEF Ledger!Doubt
    <3>2. QED
      BY <3>1 DEF Contract, Ledger!Next
  <2>7. CASE LedgerStatus(row'[c]) \in {"open", "done", "refused"}
    <3>1. Ledger!Judge(c)
      BY <2>2, <2>3, <2>4, <2>5, <2>7 DEF Ledger!Judge
    <3>2. QED
      BY <3>1 DEF Contract, Ledger!Next
  <2>8. QED
    BY <1>2, <2>1, <2>6, <2>7
<1>3. QED
  BY <1>1, <1>2

(* What each update of a row makes of its verdict.                          *)
LEMMA VerdictOfUpdate ==
    ASSUME NEW x \in RowType
    PROVE  /\ x.status = "absent" \/ Retryable(x) =>
                  LedgerStatus(x) = "open" /\ LedgerStatus(Queued(x)) = "open"
           /\ x.status = "pending" =>
                  /\ LedgerStatus(x) = "open"
                  /\ LedgerStatus(Settled(x, "failed", TRUE)) = "open"
           /\ x.status \in {"running", "unresolved"} => LedgerStatus(x) = "doubt"
           /\ Reconcilable(x) => LedgerStatus(x) \in {"open", "doubt"}
           /\ LedgerStatus(RecoveredRow(x)) = LedgerStatus(x)
<1> USE DEF LedgerStatus, Done, RowType
<1>1. x.status = "absent" \/ Retryable(x) =>
          LedgerStatus(x) = "open" /\ LedgerStatus(Queued(x)) = "open"
  BY DEF Retryable, Queued
<1>2. x.status = "pending" =>
          /\ LedgerStatus(x) = "open"
          /\ LedgerStatus(Settled(x, "failed", TRUE)) = "open"
  BY DEF Settled
<1>3. x.status \in {"running", "unresolved"} => LedgerStatus(x) = "doubt"
  OBVIOUS
<1>4. Reconcilable(x) => LedgerStatus(x) \in {"open", "doubt"}
  BY DEF Reconcilable
<1>5. LedgerStatus(RecoveredRow(x)) = LedgerStatus(x)
  BY DEF RecoveredRow, Settled, Finished
<1>6. QED
  BY <1>1, <1>2, <1>3, <1>4, <1>5

LEMMA KeepsTheContract ==
    TypeInv /\ TypeInv' /\ PlaceInv /\ AttemptInv /\ WireInv /\ DepsInv
        /\ RunIsConsistent /\ [Next]_vars => Contract
<1> SUFFICES ASSUME TypeInv, TypeInv', PlaceInv, AttemptInv, WireInv, DepsInv,
                    RunIsConsistent, [Next]_vars
             PROVE  Contract
  OBVIOUS
<1>0. /\ pc \in [Request -> PC] /\ row \in [Op -> RowType] /\ None \notin Request
      /\ \A r \in Request : Placed(r) /\ Held(r) /\ Told(r) /\ Dispatchable(r)
      /\ \A r \in Request : pc[r] \in AtRow => InRange(r)
      /\ \A r \in Request : InRange(r) => Current(r) \in Op
      /\ \A o \in Op, r \in Request : InDoubt(o, r)
      /\ \A o \in Op : row[o].attempts >= 1 => DepsDone(o)
      /\ \A o \in Op : row[o].status = "unresolved" => row[o].attempts >= 1
  BY PlanOrder, CurrentRow
     DEF TypeInv, TypeOK, PlaceInv, WireInv, DepsInv, AttemptInv, AttemptsAreBounded
<1> USE DEF Placed, Working, AtRow, AtDispatch, durable, remote, local, Goto, Note,
            Advance, CanWrite, Dispatchable
<1>1. ASSUME NEW r \in Request, NEW x, InRange(r), Write(r, x),
             holder = r, run.state = "running", UNCHANGED <<run, inflight>>,
             LedgerStatus(row[Current(r)]) \in {"open", "doubt"},
             \/ LedgerStatus(x) = LedgerStatus(row[Current(r)])
             \/ DepsDone(Current(r)) /\ <<Current(r), r>> \notin inflight
      PROVE  Contract
  <2>1. PICK c \in Op : c = Current(r)
    BY <1>0, <1>1
  <2>2. row'[c] = x /\ \A o \in Op \ {c} : row'[o] = row[o]
    BY <1>0, <1>1, <2>1 DEF Write
  <2>3. \A q \in Request : <<c, q>> \in inflight => q = r
    BY <1>0, <1>1 DEF InDoubt
  <2>4. QED
    BY <1>1, <2>1, <2>2, <2>3, OneDecided
<1>2. ASSUME NEW r \in Request, Claim(r) PROVE Contract
  <2>1. CASE UNCHANGED durable
    BY <1>2, <2>1, NothingDecided DEF Claim
  <2>2. CASE run.state = "running" /\ ~UNCHANGED durable
    <3>1. row' = [o \in Op |-> RecoveredRow(row[o])] /\ run'.state = "running"
      BY <1>2, <2>2 DEF Claim, SetPlan
    <3>2. QED
      BY <1>0, <1>2, <2>2, <3>1, VerdictOfUpdate, NothingDecided DEF Claim
  <2>3. CASE run.state # "running" /\ ~UNCHANGED durable
    <3>1. /\ run.state \in {"none", "partial"} /\ run'.state = "running"
          /\ UNCHANGED <<row, inflight>>
      BY <1>2, <2>3 DEF Claim, SetPlan, TypeInv, TypeOK
    <3>2. Ledger!Begin
      BY <3>1 DEF Ledger!Begin
    <3>3. QED
      BY <3>2 DEF Contract, Ledger!Next
  <2>4. QED
    BY <2>1, <2>2, <2>3
<1>3. ASSUME NEW r \in Request, Reconcile(r) PROVE Contract
  <2>1. CASE UNCHANGED row
    BY <1>3, <2>1, NothingDecided DEF Reconcile
  <2>2. CASE ~UNCHANGED row
    <3>1. /\ InRange(r) /\ Reconcilable(row[Current(r)]) /\ holder = r
          /\ run.state = "running" /\ UNCHANGED <<run, inflight>>
          /\ Write(r, Reconciled(row[Current(r)], seen[r]))
      BY <1>0, <1>3, <2>2 DEF Reconcile
    <3>2. DepsDone(Current(r)) /\ <<Current(r), r>> \notin inflight
      BY <1>0, <1>3, <3>1 DEF Reconcile, Reconcilable, InDoubt
    <3>3. LedgerStatus(row[Current(r)]) \in {"open", "doubt"}
      BY <1>0, <3>1, VerdictOfUpdate
    <3>4. QED
      BY <1>1, <3>1, <3>2, <3>3
  <2>3. QED
    BY <2>1, <2>2
<1>4. ASSUME NEW r \in Request, WriteAhead(r) PROVE Contract
  <2>1. /\ InRange(r) /\ holder = r /\ run.state = "running"
        /\ UNCHANGED <<run, inflight>> /\ row[Current(r)].status = "absent"
        /\ Write(r, Queued(row[Current(r)])) /\ row[Current(r)] \in RowType
    BY <1>0, <1>4 DEF WriteAhead
  <2>2. /\ LedgerStatus(row[Current(r)]) = "open"
        /\ LedgerStatus(Queued(row[Current(r)])) = "open"
    BY <2>1, VerdictOfUpdate
  <2>3. QED
    BY <1>1, <2>1, <2>2
<1>5. ASSUME NEW r \in Request, RecordBlocked(r) \/ AbandonBeforeDispatch(r)
      PROVE  Contract
  <2>1. /\ InRange(r) /\ holder = r /\ run.state = "running"
        /\ UNCHANGED <<run, inflight>> /\ row[Current(r)].status = "pending"
        /\ Write(r, Settled(row[Current(r)], "failed", TRUE))
    BY <1>0, <1>5 DEF RecordBlocked, AbandonBeforeDispatch
  <2>2. QED
    BY <1>0, <1>1, <2>1, VerdictOfUpdate
<1>6. ASSUME NEW r \in Request, Retry(r) PROVE Contract
  <2>1. CASE Aborted(r)
    BY <1>6, <2>1, NothingDecided DEF Retry
  <2>2. CASE ~Aborted(r)
    <3>1. /\ InRange(r) /\ holder = r /\ run.state = "running"
          /\ UNCHANGED <<run, inflight>> /\ Retryable(row[Current(r)])
          /\ Write(r, Queued(row[Current(r)]))
      BY <1>0, <1>6, <2>2 DEF Retry
    <3>2. QED
      BY <1>0, <1>1, <3>1, VerdictOfUpdate
  <2>3. QED
    BY <2>1, <2>2
<1>7. ASSUME NEW r \in Request, Decline(r) \/ Start(r) PROVE Contract
  <2>1. /\ InRange(r) /\ holder = r /\ run.state = "running"
        /\ UNCHANGED <<run, inflight>> /\ row[Current(r)].status = "pending"
        /\ DepsDone(Current(r)) /\ Current(r) \in Op
    BY <1>0, <1>7 DEF Decline, Start
  <2>2. <<Current(r), r>> \notin inflight
    BY <1>0, <2>1 DEF InDoubt
  <2>3. \E x : Write(r, x)
    BY <1>7 DEF Decline, Start
  <2>4. LedgerStatus(row[Current(r)]) = "open"
    BY <1>0, <2>1, VerdictOfUpdate
  <2>5. QED
    BY <1>1, <2>1, <2>2, <2>3, <2>4
<1>8. ASSUME NEW r \in Request, Record(r) PROVE Contract
  <2>1. /\ InRange(r) /\ holder = r /\ run.state = "running"
        /\ UNCHANGED <<run, inflight>> /\ row[Current(r)].status = "running"
        /\ DepsDone(Current(r)) /\ Current(r) \in Op
    BY <1>0, <1>8 DEF Record
  <2>2. LedgerStatus(row[Current(r)]) = "doubt"
    BY <1>0, <2>1, VerdictOfUpdate
  <2>3. CASE seen[r] \in {"verified", "rejected"}
    <3>1. <<Current(r), r>> \notin inflight
      BY <1>0, <1>8, <2>3 DEF Record, Told
    <3>2. \E x : Write(r, x)
      BY <1>8 DEF Record
    <3>3. QED
      BY <1>1, <2>1, <2>2, <3>1, <3>2
  <2>4. CASE seen[r] \notin {"verified", "rejected"}
    <3>1. Write(r, Finished(row[Current(r)], "unresolved"))
      BY <1>8, <2>4 DEF Record
    <3>2. LedgerStatus(Finished(row[Current(r)], "unresolved")) = "doubt"
      BY <1>0, <2>1 DEF Finished, LedgerStatus, Done, RowType
    <3>3. QED
      BY <1>1, <2>1, <2>2, <3>1, <3>2
  <2>5. QED
    BY <2>3, <2>4
<1>9. ASSUME NEW r \in Request, Finalize(r) PROVE Contract
  <2>1. CASE UNCHANGED run
    BY <1>9, <2>1, NothingDecided DEF Finalize
  <2>2. CASE ~UNCHANGED run
    <3>1. /\ run.state = "running" /\ UNCHANGED <<row, inflight>>
          /\ run'.state = IF Complete THEN "completed" ELSE "partial"
      BY <1>0, <1>9, <2>2 DEF Finalize, SetPlan, TypeInv, TypeOK
    <3>2. Complete => Ledger!AllDone
      BY DoneIsDone DEF Complete, Ledger!AllDone
    <3>3. Ledger!Close
      BY <3>1, <3>2 DEF Ledger!Close
    <3>4. QED
      BY <3>3 DEF Contract, Ledger!Next
  <2>3. QED
    BY <2>1, <2>2
<1>10. CASE RecoverAtStartup
  <2>1. /\ run.state = "running" /\ run'.state = "partial" /\ UNCHANGED inflight
        /\ row' = [o \in Op |-> RecoveredRow(row[o])]
    BY <1>10 DEF RecoverAtStartup, TypeInv, TypeOK
  <2>2. \A o \in Op : LedgerStatus(row'[o]) = LedgerStatus(row[o])
    BY <1>0, <2>1, VerdictOfUpdate
  <2>3. Ledger!Close
    BY <2>1, <2>2 DEF Ledger!Close
  <2>4. QED
    BY <2>3 DEF Contract, Ledger!Next
<1>11. ASSUME NEW r \in Request, Send(r) PROVE Contract
  <2>1. /\ holder = r /\ run.state = "running" /\ Current(r) \in Op
        /\ row[Current(r)].status = "running" /\ UNCHANGED <<run, row>>
        /\ inflight' = inflight \cup {<<Current(r), r>>}
    BY <1>0, <1>11 DEF Send, Held, Lost, Active
  <2>2. PICK c \in Op : c = Current(r)
    BY <2>1
  <2>3. Ledger!Send(c)
    BY <1>0, <2>1, <2>2, VerdictOfUpdate DEF Ledger!Send
  <2>4. QED
    BY <2>3 DEF Contract, Ledger!Next
<1>12. ASSUME NEW o \in Op, NEW r \in Request, Land(o, r) \/ Drop(o, r)
       PROVE  Contract
  <2>1. /\ <<o, r>> \in inflight /\ inflight' = inflight \ {<<o, r>>}
        /\ UNCHANGED <<run, row>>
    BY <1>12 DEF Land, Drop
  <2>2. \A q \in Request : <<o, q>> \in inflight => q = r
    BY <1>0, <2>1 DEF InDoubt
  <2>3. Ledger!Arrive(o)
    BY <2>1, <2>2 DEF Ledger!Arrive
  <2>4. QED
    BY <2>3 DEF Contract, Ledger!Next
<1>13. ASSUME NEW r \in Request,
              \/ Acquire(r) \/ PassOver(r) \/ Observe(r) \/ StepOver(r)
              \/ Prepare(r) \/ RefusedAtGate(r) \/ Answer(r)
              \/ Unwind(r) \/ Leave(r) \/ Disturb(r) \/ CallAgain(r)
       PROVE  Contract
  <2>1. UNCHANGED <<run, row, inflight>>
    BY <1>13
       DEF Acquire, PassOver, Observe, StepOver, Prepare, RefusedAtGate,
           Answer, Unwind, Leave, Disturb, Abort, LoseLease,
           StorageFails, Crash, CallAgain
  <2>2. QED
    BY <2>1, NothingDecided
<1>14. CASE LeaseExpires \/ PlanExpires \/ (\E o \in Op : Edit(o)) \/ UNCHANGED vars
  <2>1. UNCHANGED <<run, row, inflight>>
    BY <1>14 DEF LeaseExpires, PlanExpires, Edit, vars
  <2>2. QED
    BY <2>1, NothingDecided
<1>15. QED
  BY <1>2, <1>3, <1>4, <1>5, <1>6, <1>7, <1>8, <1>9, <1>10, <1>11, <1>12,
     <1>13, <1>14 DEF Next, Step, Network

LEMMA InitWired == Init => WireInv
BY PlanOrder DEF Init, WireInv, Held, Told, InDoubt, Active

LEMMA InitDeps == Init => DepsInv
BY DEF Init, DepsInv, Dispatchable, AtDispatch, NoRow

LEMMA InitContract == Init => Ledger!Init
<1> SUFFICES ASSUME Init PROVE Ledger!Init
  OBVIOUS
<1>1. \A o \in Op : LedgerStatus(row[o]) = "open"
  BY DEF Init, NoRow, LedgerStatus, Done
<1>2. {o \in Op : \E r \in Request : <<o, r>> \in inflight} = {}
  BY DEF Init
<1>3. QED
  BY <1>1, <1>2 DEF Init, Ledger!Init

(* Where the transport's "not applied" is right, all calls, crashes, lost   *)
(* leases and recoveries together implement ChangeLedger: an operation is   *)
(* on the wire only while it is in doubt, is judged only when nothing of it *)
(* is, and only after all it depends on is done; verdicts stand.            *)
THEOREM ImplementsLedger == HonestTransport => (Spec => KeepsTheLedger)
<1> SUFFICES ASSUME HonestTransport PROVE Spec => KeepsTheLedger
  OBVIOUS
<1>1. TypeInv /\ PlaceInv /\ WireInv /\ [Next]_vars => WireInv'
  BY Wiring
<1>2. Spec => [](TypeInv /\ PlaceInv /\ AttemptInv /\ RunIsConsistent)
  BY Invariants, InitAttempts, Attempting, InitConsistent, Consisting, PTL DEF Spec
<1>3. Spec => [](WireInv /\ DepsInv)
  BY <1>1, Invariants, InitWired, InitDeps, Depending, PTL DEF Spec
<1>4. Contract <=> [Ledger!Next]_(Ledger!ledgerVars)
  BY DEF Contract
<1>5. QED
  BY <1>2, <1>3, <1>4, InitContract, KeepsTheContract, PTL
     DEF Spec, KeepsTheLedger, Ledger!Spec
(* What the contract is worth.  Each of its promises is inductive by itself *)
(* once the types are known.                                                *)
LedgerSafe ==
    /\ Ledger!TypeOK /\ Ledger!WireIsInDoubt /\ Ledger!CompletedIsWhole
    /\ Ledger!DoneInOrder

LEMMA LedgerStep == LedgerSafe /\ Contract => LedgerSafe'
<1> SUFFICES ASSUME LedgerSafe, Contract PROVE LedgerSafe'
  OBVIOUS
<1> DEFINE Wire == {o \in Op : \E r \in Request : <<o, r>> \in inflight}
<1>0. Deps \in [Op -> SUBSET Op]
  BY ApplyAssumption
<1> USE DEF LedgerSafe, Ledger!TypeOK, Ledger!WireIsInDoubt,
            Ledger!CompletedIsWhole, Ledger!DoneInOrder, Ledger!AllDone, Ledger!Ready
<1>1. CASE Ledger!Begin
  BY <1>1 DEF Ledger!Begin
<1>2. CASE Ledger!Close
  BY <1>2 DEF Ledger!Close
<1>3. ASSUME NEW o \in Op, Ledger!Doubt(o) PROVE LedgerSafe'
  <2>1. LedgerStatus(row'[o]) = "doubt" /\ run.state = "running"
    BY <1>3 DEF Ledger!Doubt
  <2>2. \A p \in Op \ {o} : LedgerStatus(row'[p]) = LedgerStatus(row[p])
    BY <1>3 DEF Ledger!Doubt
  <2>3. run'.state = run.state /\ LedgerStatus(row[o]) = "open"
    BY <1>3 DEF Ledger!Doubt
  <2>4. \A p \in Deps[o] : p \in Op /\ LedgerStatus(row[p]) = "done"
    BY <1>0, <1>3 DEF Ledger!Doubt
  <2>5. UNCHANGED Wire
    BY <1>3 DEF Ledger!Doubt
  <2>6. Ledger!TypeOK' /\ Ledger!CompletedIsWhole'
    BY <2>1, <2>2, <2>3, <2>5
  <2>7. Ledger!WireIsInDoubt'
    BY <2>1, <2>2, <2>5
  <2>8. Ledger!DoneInOrder'
    BY <1>0, <2>1, <2>2, <2>3, ZenonT(60)
  <2>9. QED
    BY <2>6, <2>7, <2>8
<1>4. ASSUME NEW o \in Op, Ledger!Send(o) \/ Ledger!Arrive(o) PROVE LedgerSafe'
  BY <1>4 DEF Ledger!Send, Ledger!Arrive
<1>5. ASSUME NEW o \in Op, Ledger!Judge(o) PROVE LedgerSafe'
  <2>1. /\ LedgerStatus(row'[o]) \in {"open", "done", "refused"}
        /\ run.state = "running" /\ LedgerStatus(row[o]) \in {"open", "doubt"}
    BY <1>5 DEF Ledger!Judge
  <2>2. \A p \in Op \ {o} : LedgerStatus(row'[p]) = LedgerStatus(row[p])
    BY <1>5 DEF Ledger!Judge
  <2>3. run'.state = run.state /\ o \notin Wire
    BY <1>5 DEF Ledger!Judge
  <2>4. \A p \in Deps[o] : p \in Op /\ LedgerStatus(row[p]) = "done"
    BY <1>0, <1>5 DEF Ledger!Judge
  <2>5. UNCHANGED Wire
    BY <1>5 DEF Ledger!Judge
  <2>6. Ledger!TypeOK' /\ Ledger!CompletedIsWhole'
    BY <2>1, <2>2, <2>3, <2>5
  <2>7. Ledger!WireIsInDoubt'
    BY <2>2, <2>3, <2>5
  <2>8. Ledger!DoneInOrder'
    BY <1>0, <2>1, <2>2, <2>3, <2>4
  <2>9. QED
    BY <2>6, <2>7, <2>8
<1>6. CASE UNCHANGED Ledger!ledgerVars
  BY <1>6 DEF Ledger!ledgerVars
<1>7. QED
  BY <1>1, <1>2, <1>3, <1>4, <1>5, <1>6 DEF Contract, Ledger!Next

LEMMA LedgerSafety == Ledger!Spec => []LedgerSafe
<1>1. Ledger!Init => LedgerSafe
  BY DEF Ledger!Init, LedgerSafe, Ledger!TypeOK, Ledger!WireIsInDoubt,
         Ledger!CompletedIsWhole, Ledger!DoneInOrder
<1>2. Contract <=> [Ledger!Next]_(Ledger!ledgerVars)
  BY DEF Contract
<1>3. QED
  BY <1>1, <1>2, LedgerStep, PTL DEF Ledger!Spec

(* Whatever keeps the contract completes a run only with the whole plan     *)
(* applied, for good (claimRun never reopens a completed run).              *)
THEOREM WholeAtTheEnd == Ledger!Spec => []Ledger!CompletedIsWhole
<1>1. LedgerSafe => Ledger!CompletedIsWhole
  BY DEF LedgerSafe
<1>2. QED
  BY <1>1, LedgerSafety, PTL

(* Whatever keeps the contract has nothing done before what it depends on.  *)
THEOREM InOrder == Ledger!Spec => []Ledger!DoneInOrder
<1>1. LedgerSafe => Ledger!DoneInOrder
  BY DEF LedgerSafe
<1>2. QED
  BY <1>1, LedgerSafety, PTL

(* Whatever keeps the contract decides no outcome over a request that is    *)
(* still on its way.                                                        *)
THEOREM NothingDecidedOnTheWire == Ledger!Spec => []Ledger!WireIsInDoubt
<1>1. LedgerSafe => Ledger!WireIsInDoubt
  BY DEF LedgerSafe
<1>2. QED
  BY <1>1, LedgerSafety, PTL

(* Whatever keeps the contract never touches a verdict again.               *)
THEOREM Verdicts == Ledger!Spec => Ledger!VerdictsStand
<1>1. LedgerSafe /\ Contract => [Ledger!StandsBy]_(Ledger!ledgerVars)
  <2> SUFFICES ASSUME LedgerSafe, Ledger!Next PROVE Ledger!StandsBy
    BY DEF Contract
  <2> USE DEF Ledger!StandsBy
  <2>1. CASE Ledger!Begin \/ Ledger!Close
    BY <2>1 DEF Ledger!Begin, Ledger!Close
  <2>2. ASSUME NEW p \in Op, Ledger!Doubt(p) \/ Ledger!Judge(p)
        PROVE  Ledger!StandsBy
    BY <2>2 DEF Ledger!Doubt, Ledger!Judge
  <2>3. ASSUME NEW p \in Op, Ledger!Send(p) \/ Ledger!Arrive(p)
        PROVE  Ledger!StandsBy
    BY <2>3 DEF Ledger!Send, Ledger!Arrive
  <2>4. QED
    BY <2>1, <2>2, <2>3 DEF Ledger!Next
<1>2. Contract <=> [Ledger!Next]_(Ledger!ledgerVars)
  BY DEF Contract
<1>3. QED
  BY <1>1, <1>2, LedgerSafety, PTL DEF Ledger!Spec, Ledger!VerdictsStand

(* All calls, crashes and recoveries of a plan together apply it in the     *)
(* order of its dependencies, and judge no operation over a mutation of it  *)
(* that may still land, whichever call sent it.                             *)
THEOREM AppliesInOrder ==
    HonestTransport =>
        (Spec => []Ledger!DoneInOrder /\ []Ledger!WireIsInDoubt)
BY ImplementsLedger, InOrder, NothingDecidedOnTheWire, PTL DEF KeepsTheLedger

----------------------------------------------------------------------------
(* The account, as long as nobody else edits it and the transport's "not    *)
(* applied" is right: what the target looks like says how often the         *)
(* operation took effect, and every verdict agrees with it.                 *)
Effect(o) ==
    \/ landed[o] = 0 /\ live[o] = "before"
    \/ landed[o] = 1 /\ live[o] = "after"

Accounted(o) ==
    /\ Effect(o)
    /\ row[o].status \in {"absent", "pending", "failed"} => landed[o] = 0
    /\ Done(row[o]) => landed[o] = 1
    /\ \A r \in Request : <<o, r>> \in inflight => landed[o] = 0

\* What a call that holds the lease knows of the account.
Knows(r) ==
    holder = r =>
        /\ pc[r] = "observed" => seen[r] \in {live[Current(r)], "other"}
        /\ pc[r] = "decided" => seen[r] # "after"
        /\ pc[r] = "gated" => landed[Current(r)] = 0
        /\ pc[r] = "sent" /\ seen[r] = "landed" => landed[Current(r)] = 1
        /\ pc[r] = "sent" /\ seen[r] = "dropped" => landed[Current(r)] = 0
        /\ pc[r] = "recording" /\ seen[r] = "verified" => landed[Current(r)] = 1
        /\ pc[r] = "recording" /\ seen[r] = "rejected" => landed[Current(r)] = 0

EffectInv == (\A o \in Op : Accounted(o)) /\ (\A r \in Request : Knows(r))

(* A step of r that reaches neither the account nor the wire, and whose row *)
(* updates agree with the account.                                          *)
LEMMA KeepsEffect ==
    ASSUME EffectInv, NEW r \in Request, UNCHANGED <<live, landed, inflight>>,
           None \notin Request, holder' \in {holder, None, r},
           \A q \in Request \ {r} :
               pc'[q] = pc[q] /\ pos'[q] = pos[q] /\ seen'[q] = seen[q],
           \A o \in Op :
               /\ row'[o].status \in {"absent", "pending", "failed"} =>
                      \/ row[o].status \in {"absent", "pending", "failed"}
                      \/ landed[o] = 0
               /\ Done(row'[o]) => Done(row[o]) \/ landed[o] = 1,
           Knows(r)'
    PROVE  EffectInv'
<1>1. ASSUME NEW o \in Op PROVE Accounted(o)'
  BY DEF EffectInv, Accounted, Effect
<1>2. ASSUME NEW q \in Request PROVE Knows(q)'
  <2>1. CASE q = r
    BY <2>1
  <2>2. CASE q # r
    <3>1. Knows(q) /\ pc'[q] = pc[q] /\ pos'[q] = pos[q] /\ seen'[q] = seen[q]
      BY <2>2 DEF EffectInv
    <3>2. holder' = q => holder = q
      BY <2>2
    <3>3. QED
      BY <3>1, <3>2 DEF Knows, Current
  <2>3. QED
    BY <2>1, <2>2
<1>3. QED
  BY <1>1, <1>2 DEF EffectInv

(* A step of r that writes the row of its operation, and leaves the row's   *)
(* place: the row says what the account does.                               *)
LEMMA WritesEffect ==
    ASSUME EffectInv, TypeInv, NEW r \in Request, InRange(r), NEW x, Write(r, x),
           UNCHANGED <<live, landed, inflight, holder>>,
           \A q \in Request \ {r} :
               pc'[q] = pc[q] /\ pos'[q] = pos[q] /\ seen'[q] = seen[q],
           x.status \in {"absent", "pending", "failed"} =>
               \/ row[Current(r)].status \in {"absent", "pending", "failed"}
               \/ landed[Current(r)] = 0,
           Done(x) => landed[Current(r)] = 1,
           pc'[r] \in {"reconciling", "executing", "blocking", "pacing", "closing"}
    PROVE  EffectInv'
<1>1. PICK c \in Op : c = Current(r)
  BY CurrentRow
<1>2. row'[c] = x /\ \A o \in Op \ {c} : row'[o] = row[o]
  BY <1>1 DEF Write, TypeInv, TypeOK
<1>3. \A o \in Op :
          /\ row'[o].status \in {"absent", "pending", "failed"} =>
                 \/ row[o].status \in {"absent", "pending", "failed"}
                 \/ landed[o] = 0
          /\ Done(row'[o]) => Done(row[o]) \/ landed[o] = 1
  BY <1>1, <1>2
<1>4. Knows(r)'
  BY DEF Knows
<1>5. QED
  BY <1>3, <1>4, KeepsEffect, PlanOrder

(* The recovery fails only what never started.                              *)
LEMMA RecoveredEffect ==
    ASSUME NEW x \in RowType
    PROVE  /\ RecoveredRow(x).status \in {"absent", "pending", "failed"} =>
                  x.status \in {"absent", "pending", "failed"}
           /\ Done(RecoveredRow(x)) => Done(x)
BY DEF RecoveredRow, Settled, Finished, Done, RowType

LEMMA Effecting ==
    HonestTransport /\ MaxEdits = 0 /\ TypeInv /\ PlaceInv /\ WireInv /\ EffectInv
        /\ [Next]_vars => EffectInv'
<1> SUFFICES ASSUME HonestTransport, MaxEdits = 0, TypeInv, PlaceInv, WireInv,
                    EffectInv, [Next]_vars
             PROVE  EffectInv'
  OBVIOUS
<1>0. /\ pc \in [Request -> PC] /\ pos \in [Request -> 1..N + 1]
      /\ row \in [Op -> RowType] /\ None \notin Request
      /\ seen \in [Request -> Seen] /\ landed \in [Op -> Nat]
      /\ live \in [Op -> {"before", "after", "other"}]
      /\ \A r \in Request : Placed(r) /\ Held(r) /\ Told(r) /\ Knows(r)
      /\ \A r \in Request : pc[r] \in AtRow => InRange(r)
      /\ \A r \in Request : InRange(r) => Current(r) \in Op
      /\ \A o \in Op, r \in Request : InDoubt(o, r)
      /\ \A o \in Op : Accounted(o)
  BY PlanOrder, CurrentRow DEF TypeInv, TypeOK, PlaceInv, WireInv, EffectInv
<1> USE DEF Placed, Working, AtRow, durable, remote, local, Goto, Advance, Note, Fire,
            CanWrite
<1>1. ASSUME NEW r \in Request, Claim(r) PROVE EffectInv'
  <2>1. /\ \A o \in Op : row'[o] = row[o] \/ row'[o] = RecoveredRow(row[o])
        /\ UNCHANGED <<live, landed, inflight, holder>>
        /\ pc'[r] \in {"leaving", "reconciling"}
        /\ \A q \in Request \ {r} :
               pc'[q] = pc[q] /\ pos'[q] = pos[q] /\ seen'[q] = seen[q]
    BY <1>0, <1>1 DEF Claim, SetPlan
  <2>2. Knows(r)'
    BY <2>1 DEF Knows
  <2>3. QED
    BY <1>0, <2>1, <2>2, RecoveredEffect, KeepsEffect
<1>2. ASSUME NEW r \in Request, Reconcile(r) PROVE EffectInv'
  <2> DEFINE stops == Aborted(r) \/ ~TakesADecision(row[Current(r)])
  <2>1. CASE stops
    <3>1. Knows(r)'
      BY <1>0, <1>2, <2>1 DEF Reconcile, Knows
    <3>2. QED
      BY <1>0, <1>2, <2>1, <3>1, KeepsEffect DEF Reconcile
  <2>2. CASE ~stops
    <3>1. /\ InRange(r) /\ Current(r) \in Op
          /\ Write(r, Reconciled(row[Current(r)], seen[r]))
          /\ UNCHANGED <<live, landed, inflight, holder>>
          /\ pc'[r] = "reconciling"
          /\ \A q \in Request \ {r} :
                 pc'[q] = pc[q] /\ pos'[q] = pos[q] /\ seen'[q] = seen[q]
      BY <1>0, <1>2, <2>2 DEF Reconcile
    <3>2. seen[r] \in {live[Current(r)], "other"} /\ Effect(Current(r))
      BY <1>0, <1>2, <3>1 DEF Reconcile, Knows, Accounted
    <3>3. /\ Reconciled(row[Current(r)], seen[r]).status
                 \in {"absent", "pending", "failed"} => landed[Current(r)] = 0
          /\ Done(Reconciled(row[Current(r)], seen[r])) => landed[Current(r)] = 1
      BY <1>0, <3>1, <3>2 DEF Reconciled, Settled, Done, Effect, RowType
    <3>4. QED
      BY <3>1, <3>3, WritesEffect
  <2>3. QED
    BY <2>1, <2>2
<1>3. ASSUME NEW r \in Request,
             WriteAhead(r) \/ (Retry(r) /\ ~Aborted(r))
      PROVE  EffectInv'
  <2>1. /\ InRange(r) /\ Current(r) \in Op
        /\ row[Current(r)].status \in {"absent", "failed"}
        /\ Write(r, Queued(row[Current(r)]))
        /\ UNCHANGED <<live, landed, inflight, holder>>
        /\ pc'[r] \in {"pacing", "blocking"}
        /\ \A q \in Request \ {r} :
               pc'[q] = pc[q] /\ pos'[q] = pos[q] /\ seen'[q] = seen[q]
    BY <1>0, <1>3 DEF WriteAhead, Retry, Retryable
  <2>2. Queued(row[Current(r)]).status = "pending"
    BY <1>0, <2>1 DEF Queued, RowType
  <2>3. QED
    BY <2>1, <2>2, WritesEffect DEF Done
<1>4. ASSUME NEW r \in Request, RecordBlocked(r) \/ AbandonBeforeDispatch(r)
      PROVE  EffectInv'
  <2>1. /\ InRange(r) /\ Current(r) \in Op
        /\ row[Current(r)].status = "pending"
        /\ Write(r, Settled(row[Current(r)], "failed", TRUE))
        /\ UNCHANGED <<live, landed, inflight, holder>>
    BY <1>0, <1>4 DEF RecordBlocked, AbandonBeforeDispatch
  <2>2. /\ pc'[r] \in {"executing", "closing"}
        /\ \A q \in Request \ {r} :
               pc'[q] = pc[q] /\ pos'[q] = pos[q] /\ seen'[q] = seen[q]
    BY <1>0, <1>4 DEF RecordBlocked, AbandonBeforeDispatch, NextOrStop
  <2>3. Settled(row[Current(r)], "failed", TRUE).status = "failed"
    BY <1>0, <2>1 DEF Settled, RowType
  <2>4. QED
    BY <2>1, <2>2, <2>3, WritesEffect DEF Done
<1>5. ASSUME NEW r \in Request, Decline(r) PROVE EffectInv'
  <2>1. /\ InRange(r) /\ Current(r) \in Op /\ seen[r] # "after"
        /\ row[Current(r)].status = "pending" /\ row[Current(r)] \in RowType
        /\ UNCHANGED <<live, landed, inflight, holder>>
    BY <1>0, <1>5 DEF Decline, Knows
  <2>2. /\ pc'[r] \in {"executing", "closing"}
        /\ \A q \in Request \ {r} :
               pc'[q] = pc[q] /\ pos'[q] = pos[q] /\ seen'[q] = seen[q]
    BY <1>0, <1>5, <2>1 DEF Decline, NextOrStop
  <2>3. PICK b \in BOOLEAN : Write(r, Settled(row[Current(r)], "failed", b))
    BY <1>5, <2>1, Zenon DEF Decline
  <2>4. Settled(row[Current(r)], "failed", b).status = "failed"
    BY <2>1 DEF Settled, RowType
  <2>5. QED
    BY <2>1, <2>2, <2>3, <2>4, WritesEffect DEF Done
<1>6. ASSUME NEW r \in Request, Start(r) PROVE EffectInv'
  <2>1. PICK c \in Op : c = Current(r) /\ Current(r)' = c
    BY <1>0, <1>6 DEF Start, Current
  <2>2. /\ row[c].status = "pending" /\ pc'[r] = "gated"
        /\ row' = [row EXCEPT ![c] = Started(row[c])]
        /\ UNCHANGED <<live, landed, inflight, holder>>
        /\ \A q \in Request \ {r} :
               pc'[q] = pc[q] /\ pos'[q] = pos[q] /\ seen'[q] = seen[q]
    BY <1>0, <1>6, <2>1 DEF Start, Write
  <2>3. \A o \in Op : row'[o] = row[o] \/ row'[o].status = "running"
    BY <1>0, <2>2 DEF Started, RowType
  <2>4. Knows(r)'
    BY <1>0, <2>1, <2>2 DEF Knows, Accounted
  <2>5. QED
    BY <1>0, <2>2, <2>3, <2>4, KeepsEffect DEF Done
<1>7. ASSUME NEW r \in Request, Record(r) PROVE EffectInv'
  <2>1. /\ InRange(r) /\ Current(r) \in Op /\ row[Current(r)] \in RowType
        /\ UNCHANGED <<live, landed, inflight, holder>>
        /\ pc'[r] \in {"executing", "closing"}
        /\ \A q \in Request \ {r} :
               pc'[q] = pc[q] /\ pos'[q] = pos[q] /\ seen'[q] = seen[q]
    BY <1>0, <1>7 DEF Record, NextOrStop
  <2>2. PICK st \in {"succeeded", "failed", "unresolved"} :
            /\ Write(r, Finished(row[Current(r)], st))
            /\ st = "succeeded" => seen[r] = "verified"
            /\ st = "failed" => seen[r] = "rejected"
    BY <1>7 DEF Record
  <2>3. Finished(row[Current(r)], st).status = st
    BY <2>1 DEF Finished, RowType
  <2>4. /\ seen[r] = "verified" => landed[Current(r)] = 1
        /\ seen[r] = "rejected" => landed[Current(r)] = 0
    BY <1>0, <1>7 DEF Record, Knows
  <2>5. QED
    BY <2>1, <2>2, <2>3, <2>4, WritesEffect DEF Done
<1>8. CASE RecoverAtStartup
  <2>1. /\ \A o \in Op : row'[o] = RecoveredRow(row[o])
        /\ UNCHANGED <<live, landed, inflight, holder, pc, pos, seen>>
    BY <1>0, <1>8 DEF RecoverAtStartup
  <2>2. \A o \in Op : Accounted(o)'
    BY <1>0, <2>1, RecoveredEffect DEF Accounted, Effect
  <2>3. \A r \in Request : Knows(r)'
    BY <1>0, <2>1 DEF Knows, Current
  <2>4. QED
    BY <2>2, <2>3 DEF EffectInv
<1>9. ASSUME NEW r \in Request,
             \/ Acquire(r) \/ Finalize(r) \/ PassOver(r) \/ StepOver(r)
             \/ Retry(r) /\ Aborted(r)
      PROVE  EffectInv'
  <2>1. /\ UNCHANGED <<row, live, landed, inflight>> /\ holder' \in {holder, r}
        /\ pc'[r] \in {"acquired", "ended", "leaving", "reconciling", "executing",
                       "closing"}
        /\ \A q \in Request \ {r} :
               pc'[q] = pc[q] /\ pos'[q] = pos[q] /\ seen'[q] = seen[q]
    BY <1>0, <1>9 DEF Acquire, Finalize, SetPlan, PassOver, StepOver, NextOrStop, Retry
  <2>2. Knows(r)'
    BY <2>1 DEF Knows
  <2>3. QED
    BY <1>0, <2>1, <2>2, KeepsEffect
<1>10. ASSUME NEW r \in Request, Observe(r) PROVE EffectInv'
  <2>1. Knows(r)'
    BY <1>0, <1>10 DEF Observe, Knows, Current
  <2>2. QED
    BY <1>0, <1>10, <2>1, KeepsEffect DEF Observe
<1>11. ASSUME NEW r \in Request, Prepare(r) PROVE EffectInv'
  <2>1. holder = r => live[Current(r)] = "before"
    BY <1>0, <1>11 DEF Prepare, Accounted, Effect
  <2>2. Knows(r)'
    BY <1>0, <1>11, <2>1 DEF Prepare, Knows
  <2>3. QED
    BY <1>0, <1>11, <2>2, KeepsEffect DEF Prepare
<1>12. ASSUME NEW r \in Request, Send(r) PROVE EffectInv'
  <2>1. PICK c \in Op : c = Current(r)
    BY <1>0, <1>12 DEF Send
  <2>2. holder = r /\ landed[c] = 0
    BY <1>0, <1>12, <2>1 DEF Send, Held, Lost, Active, Knows
  <2>3. /\ inflight' = inflight \cup {<<c, r>>}
        /\ pc' = [pc EXCEPT ![r] = "sent"] /\ seen[r] = "nothing"
        /\ UNCHANGED <<row, live, landed, holder, pos, seen>>
    BY <1>0, <1>12, <2>1 DEF Send, Told
  <2>4. \A o \in Op : Accounted(o)'
    BY <1>0, <2>2, <2>3 DEF Accounted, Effect
  <2>5. \A q \in Request : Knows(q)'
    BY <1>0, <2>3 DEF Knows, Current
  <2>6. QED
    BY <2>4, <2>5 DEF EffectInv
<1>13. ASSUME NEW r \in Request, RefusedAtGate(r) \/ Answer(r) PROVE EffectInv'
  <2>1. Knows(r)'
    <3>1. CASE RefusedAtGate(r)
      BY <1>0, <3>1 DEF RefusedAtGate, Knows, Current
    <3>2. CASE Answer(r)
      BY <1>0, <3>2 DEF Answer, Knows, Current
    <3>3. QED
      BY <1>13, <3>1, <3>2
  <2>2. QED
    BY <1>0, <1>13, <2>1, KeepsEffect DEF RefusedAtGate, Answer
<1>14. ASSUME NEW r \in Request, Unwind(r) \/ Leave(r) \/ Disturb(r) \/ CallAgain(r)
       PROVE  EffectInv'
  <2>1. /\ UNCHANGED <<row, live, landed, inflight>> /\ holder' \in {holder, None}
        /\ \/ UNCHANGED <<pc, pos, seen>>
           \/ pc'[r] \in {"leaving", "ended", "crashed", "closing", "idle"}
        /\ \A q \in Request \ {r} :
               pc'[q] = pc[q] /\ pos'[q] = pos[q] /\ seen'[q] = seen[q]
    BY <1>0, <1>14 DEF Unwind, Leave, Disturb, Abort, LoseLease, StorageFails,
                       Crash, Forget, CallAgain
  <2>2. Knows(r)'
    BY <1>0, <2>1 DEF Knows, Current
  <2>3. QED
    BY <1>0, <2>1, <2>2, KeepsEffect
<1>15. ASSUME NEW c \in Op, NEW r \in Request, Land(c, r) PROVE EffectInv'
  <2>1. /\ <<c, r>> \in inflight /\ inflight' = inflight \ {<<c, r>>}
        /\ landed' = [landed EXCEPT ![c] = @ + 1]
        /\ UNCHANGED <<row, holder, pc, pos>>
    BY <1>15 DEF Land
  <2>2. /\ holder = r /\ landed[c] = 0 /\ live[c] = "before"
        /\ row[c].status \in {"running", "unresolved"}
        /\ \A q \in Request : <<c, q>> \in inflight => q = r
    BY <1>0, <2>1 DEF InDoubt, Accounted, Effect
  <2>3. live' = [live EXCEPT ![c] = "after"]
    BY <1>0, <1>15, <2>2 DEF Land
  <2>4. landed'[c] = 1 /\ live'[c] = "after"
    BY <1>0, <2>1, <2>2, <2>3
  <2>5. \A o \in Op : Accounted(o)'
    BY <1>0, <2>1, <2>2, <2>3, <2>4 DEF Accounted, Effect, Done
  <2>6. \A q \in Request \ {r} : Knows(q)'
    BY <2>1, <2>2 DEF Knows
  <2>7. Knows(r)'
    <3>1. CASE pc[r] = "sent" /\ Current(r) = c
      BY <1>0, <1>15, <2>1, <2>4, <3>1 DEF Land, Knows, Current
    <3>2. CASE ~(pc[r] = "sent" /\ Current(r) = c)
      <4>1. seen' = seen /\ pc[r] # "observed"
        BY <1>0, <1>15, <2>1, <3>2 DEF Land, InDoubt
      <4>2. pc[r] = "gated" => Current(r) # c
        BY <1>0, <2>1 DEF Told
      <4>3. pc[r] = "recording" /\ seen[r] \in {"verified", "rejected"} =>
                Current(r) # c
        BY <1>0, <2>1 DEF Told
      <4>4. pc[r] \in AtRow /\ Current(r) # c =>
                landed'[Current(r)] = landed[Current(r)]
        BY <1>0, <2>1
      <4>5. Knows(r)
        BY <1>0
      <4>6. QED
        BY <2>1, <3>2, <4>1, <4>2, <4>3, <4>4, <4>5 DEF Knows, Current
    <3>3. QED
      BY <3>1, <3>2
  <2>8. QED
    BY <2>5, <2>6, <2>7 DEF EffectInv
<1>16. ASSUME NEW c \in Op, NEW r \in Request, Drop(c, r) PROVE EffectInv'
  <2>1. /\ <<c, r>> \in inflight /\ inflight' = inflight \ {<<c, r>>}
        /\ UNCHANGED <<row, holder, pc, pos, live, landed>>
    BY <1>16 DEF Drop
  <2>2. landed[c] = 0
    BY <1>0, <2>1 DEF Accounted
  <2>3. \A o \in Op : Accounted(o)'
    BY <1>0, <2>1 DEF Accounted, Effect
  <2>4. \A q \in Request : Knows(q)'
    BY <1>0, <1>16, <2>1, <2>2 DEF Drop, Knows, Current
  <2>5. QED
    BY <2>3, <2>4 DEF EffectInv
<1>17. CASE LeaseExpires \/ PlanExpires \/ UNCHANGED vars
  <2>1. /\ UNCHANGED <<row, live, landed, inflight, pc, pos, seen>>
        /\ holder' \in {holder, None}
    BY <1>17 DEF LeaseExpires, PlanExpires, vars
  <2>2. \A o \in Op : Accounted(o)'
    BY <1>0, <2>1 DEF Accounted, Effect
  <2>3. \A q \in Request : Knows(q)'
    BY <1>0, <2>1 DEF Knows, Current
  <2>4. QED
    BY <2>2, <2>3 DEF EffectInv
<1>18. \A o \in Op : ~Edit(o)
  BY DEF Edit, TypeInv, TypeOK
<1>19. ASSUME NEW r \in Request, Retry(r) PROVE EffectInv'
  BY <1>3, <1>9, <1>19
<1>20. ASSUME NEW r \in Request, Step(r) PROVE EffectInv'
  <2>1. CASE Acquire(r) \/ PassOver(r) \/ StepOver(r) \/ Finalize(r)
    BY <1>9, <2>1
  <2>2. CASE RecordBlocked(r) \/ AbandonBeforeDispatch(r)
    BY <1>4, <2>2
  <2>3. CASE RefusedAtGate(r) \/ Answer(r)
    BY <1>13, <2>3
  <2>4. CASE Unwind(r) \/ Leave(r)
    BY <1>14, <2>4
  <2>5. CASE WriteAhead(r)
    BY <1>3, <2>5
  <2>6. QED
    BY <1>1, <1>2, <1>5, <1>6, <1>7, <1>10, <1>11, <1>12, <1>19, <1>20,
       <2>1, <2>2, <2>3, <2>4, <2>5 DEF Step
<1>21. QED
  BY <1>8, <1>14, <1>15, <1>16, <1>17, <1>18, <1>20 DEF Next, Network

LEMMA InitEffect == Init => EffectInv
BY PlanOrder DEF Init, EffectInv, Accounted, Effect, Knows, NoRow, Done

(* While nobody else edits the account, and as far as the transport's "not  *)
(* applied" is right, both invariants of the account hold together.         *)
LEMMA Effects ==
    HonestTransport /\ MaxEdits = 0 => (Spec => []EffectInv)
<1> SUFFICES ASSUME HonestTransport, MaxEdits = 0 PROVE Spec => []EffectInv
  OBVIOUS
<1>1. TypeInv /\ PlaceInv /\ WireInv /\ [Next]_vars => WireInv'
  BY Wiring
<1>2. TypeInv /\ PlaceInv /\ WireInv /\ EffectInv /\ [Next]_vars => EffectInv'
  BY Effecting
<1>3. QED
  BY <1>1, <1>2, Invariants, InitWired, InitEffect, PTL DEF Spec

(* However calls crash, lose their lease, are told nothing, and are resumed *)
(* by others, no operation takes effect twice: whoever dispatches it again  *)
(* has read that it did not take effect, with nothing of it on the wire.    *)
THEOREM EffectsAreSingle ==
    HonestTransport /\ MaxEdits = 0 => (Spec => []AtMostOneEffect)
<1>1. EffectInv => AtMostOneEffect
  BY DEF EffectInv, Accounted, Effect, AtMostOneEffect
<1>2. QED
  BY <1>1, Effects, PTL

(* A row that says "failed" is right that nothing was applied, and one that *)
(* says "succeeded" or "skipped" is right that the target is as desired.    *)
THEOREM OutcomesTrue ==
    HonestTransport /\ MaxEdits = 0 => (Spec => []OutcomesAreTrue)
<1>1. EffectInv => OutcomesAreTrue
  BY DEF EffectInv, Accounted, Effect, OutcomesAreTrue
<1>2. QED
  BY <1>1, Effects, PTL

----------------------------------------------------------------------------
(* The fresh look.  Phase one has looked at every row before its position,  *)
(* and once it is over no row still waits: from then on the rows change     *)
(* only under the call's own hand.                                          *)
PhaseTwo == {"executing", "blocking", "pacing", "decided", "gated", "sent",
             "recording"}

Looked(r) ==
    /\ pc[r] \in {"idle", "acquired", "ended", "crashed"} => pos[r] = 1
    /\ holder = r /\ pc[r] \in {"reconciling", "observed"} =>
           \A i \in 1..N : i < pos[r] => ~OwesALook(r, Order[i])
    /\ holder = r /\ pc[r] \in PhaseTwo => \A o \in Op : ~OwesALook(r, o)

LookInv == \A r \in Request : Looked(r)

HeldInv == \A r \in Request : Held(r)

(* Nobody writes rows but the call that holds the lease, so a step of r     *)
(* leaves what the others have looked at as it was.                         *)
LEMMA KeepsLook ==
    ASSUME LookInv, NEW r \in Request, None \notin Request,
           holder' \in {holder, None, r}, holder = r \/ UNCHANGED row,
           \A q \in Request \ {r} :
               pc'[q] = pc[q] /\ pos'[q] = pos[q] /\ fresh'[q] = fresh[q],
           Looked(r)'
    PROVE  LookInv'
<1>1. ASSUME NEW q \in Request, q # r PROVE Looked(q)'
  <2>1. Looked(q) /\ pc'[q] = pc[q] /\ pos'[q] = pos[q] /\ fresh'[q] = fresh[q]
    BY <1>1 DEF LookInv
  <2>2. holder' = q => holder = q /\ UNCHANGED row
    BY <1>1
  <2>3. holder' = q => \A o \in Op : OwesALook(q, o)' => OwesALook(q, o)
    BY <2>1, <2>2 DEF OwesALook
  <2>4. \A i \in 1..N : Order[i] \in Op
    BY PlanOrder
  <2>5. QED
    BY <2>1, <2>2, <2>3, <2>4 DEF Looked
<1>2. QED
  BY <1>1 DEF LookInv

(* What a call writes itself it owes no look.                               *)
LEMMA OwnWrite ==
    ASSUME TypeInv, NEW r \in Request, InRange(r), NEW x, Write(r, x)
    PROVE  /\ \A o \in Op : OwesALook(r, o)' => OwesALook(r, o)
           /\ \A o \in Op : o = Current(r) => ~OwesALook(r, o)'
           /\ \A q \in Request \ {r} : fresh'[q] = fresh[q]
<1>1. PICK c \in Op : c = Current(r)
  BY CurrentRow
<1>2. /\ row'[c] = x /\ \A o \in Op \ {c} : row'[o] = row[o]
      /\ fresh'[r] = fresh[r] \cup {c}
      /\ \A q \in Request \ {r} : fresh'[q] = fresh[q]
  BY <1>1 DEF Write, TypeInv, TypeOK
<1>3. \A o \in Op : OwesALook(r, o)' => OwesALook(r, o)
  BY <1>2 DEF OwesALook
<1>4. c \in fresh'[r]
  BY <1>2
<1>5. QED
  BY <1>1, <1>2, <1>3, <1>4 DEF OwesALook

(* A step of phase two that writes its own row, if any, and goes on in it   *)
(* or leaves it.                                                            *)
LEMMA LooksOn ==
    ASSUME TypeInv, LookInv, NEW r \in Request, holder = r, holder' = r,
           pc[r] \in PhaseTwo, pc'[r] \in PhaseTwo \cup {"closing"},
           \A q \in Request \ {r} : pc'[q] = pc[q] /\ pos'[q] = pos[q],
           \/ UNCHANGED <<row, fresh>>
           \/ InRange(r) /\ \E x : Write(r, x)
    PROVE  LookInv'
<1>1. /\ \A o \in Op : OwesALook(r, o)' => OwesALook(r, o)
      /\ \A q \in Request \ {r} : fresh'[q] = fresh[q]
  <2>1. CASE UNCHANGED <<row, fresh>>
    BY <2>1 DEF OwesALook
  <2>2. CASE InRange(r) /\ \E x : Write(r, x)
    BY <2>2, OwnWrite
  <2>3. QED
    BY <2>1, <2>2
<1>2. \A o \in Op : ~OwesALook(r, o)
  BY DEF LookInv, Looked
<1>3. Looked(r)'
  BY <1>1, <1>2 DEF Looked, PhaseTwo
<1>4. QED
  BY <1>1, <1>3, KeepsLook, PlanOrder

(* A call that has not noticed a loss of its lease holds it.                *)
LEMMA Holding == TypeInv /\ HeldInv /\ [Next]_vars => HeldInv'
<1> SUFFICES ASSUME TypeInv, HeldInv, [Next]_vars PROVE HeldInv'
  OBVIOUS
<1>0. /\ pc \in [Request -> PC] /\ None \notin Request
      /\ signal \in [Request -> {"none", "abort", "lost"}]
      /\ \A r \in Request : Held(r)
  BY PlanOrder DEF TypeInv, TypeOK, HeldInv
<1> USE DEF Held, Lost, HeldInv, Active, durable, remote, local, Goto, Fire
<1>1. ASSUME NEW r \in Request, Acquire(r) \/ Leave(r) \/ CallAgain(r)
      PROVE  HeldInv'
  BY <1>0, <1>1 DEF Acquire, Leave, CallAgain, Forget
<1>2. ASSUME NEW r \in Request, Disturb(r) \/ Unwind(r) PROVE HeldInv'
  BY <1>0, <1>2 DEF Disturb, Abort, LoseLease, StorageFails, Crash, Forget, Unwind
<1>3. ASSUME NEW r \in Request, UNCHANGED <<holder, signal>>,
             \A q \in Request \ {r} : pc'[q] = pc[q], pc[r] \in Active
      PROVE  HeldInv'
  <2>1. ASSUME NEW q \in Request PROVE Held(q)'
    <3>1. CASE q = r
      BY <1>0, <1>3, <3>1
    <3>2. CASE q # r
      BY <1>0, <1>3, <3>2
    <3>3. QED
      BY <3>1, <3>2
  <2>2. QED
    BY <2>1
<1>4. ASSUME NEW r \in Request,
             \/ Claim(r) \/ PassOver(r) \/ Observe(r) \/ Reconcile(r)
             \/ StepOver(r) \/ WriteAhead(r) \/ RecordBlocked(r) \/ Retry(r)
             \/ Prepare(r) \/ AbandonBeforeDispatch(r)
      PROVE  HeldInv'
  <2>1. /\ UNCHANGED <<holder, signal>> /\ pc[r] \in Active
        /\ \A q \in Request \ {r} : pc'[q] = pc[q]
    BY <1>0, <1>4
       DEF Claim, SetPlan, PassOver, Observe, Reconcile, StepOver, WriteAhead,
           RecordBlocked, Retry, Prepare, AbandonBeforeDispatch, NextOrStop
  <2>2. QED
    BY <1>3, <2>1
<1>5. ASSUME NEW r \in Request,
             \/ Decline(r) \/ Start(r) \/ Send(r) \/ RefusedAtGate(r)
             \/ Answer(r) \/ Record(r) \/ Finalize(r)
      PROVE  HeldInv'
  <2>1. UNCHANGED <<holder, signal>> /\ pc[r] \in Active
    BY <1>5 DEF Decline, Start, Send, RefusedAtGate, Answer, Record, Finalize
  <2>2. \A q \in Request \ {r} : pc'[q] = pc[q]
    BY <1>0, <1>5
       DEF Decline, Start, Send, RefusedAtGate, Answer, Record, Finalize, NextOrStop
  <2>3. QED
    BY <1>3, <2>1, <2>2
<1>6. CASE LeaseExpires
  BY <1>0, <1>6 DEF LeaseExpires
<1>7. CASE RecoverAtStartup \/ PlanExpires \/ Network \/ (\E o \in Op : Edit(o))
           \/ UNCHANGED vars
  <2>1. UNCHANGED <<holder, signal, pc>>
    BY <1>7 DEF RecoverAtStartup, PlanExpires, Network, Land, Drop, Edit, vars
  <2>2. QED
    BY <1>0, <2>1
<1>8. QED
  BY <1>1, <1>2, <1>4, <1>5, <1>6, <1>7 DEF Next, Step

LEMMA Looking ==
    TypeInv /\ PlaceInv /\ HeldInv /\ AttemptInv /\ LookInv /\ [Next]_vars => LookInv'
<1> SUFFICES ASSUME TypeInv, PlaceInv, HeldInv, AttemptInv, LookInv, [Next]_vars
             PROVE  LookInv'
  OBVIOUS
<1>0. /\ pc \in [Request -> PC] /\ pos \in [Request -> 1..N + 1]
      /\ fresh \in [Request -> SUBSET Op] /\ N \in Nat
      /\ row \in [Op -> RowType] /\ None \notin Request
      /\ \A r \in Request : Placed(r) /\ Looked(r) /\ Held(r)
      /\ \A r \in Request : pc[r] \in AtRow => InRange(r)
      /\ \A i \in 1..N : Order[i] \in Op
      /\ \A o \in Op : \E i \in 1..N : Order[i] = o
  BY PlanOrder, ApplyAssumption DEF TypeInv, TypeOK, PlaceInv, LookInv, HeldInv
<1> USE DEF Placed, Working, AtRow, durable, remote, local, Goto, Advance, Note, Fire,
            CanWrite
<1>1. ASSUME NEW r \in Request, Claim(r) PROVE LookInv'
  <2>1. /\ holder = r /\ UNCHANGED <<holder, pos, fresh>> /\ pos[r] = 1
        /\ pc'[r] \in {"leaving", "reconciling"}
        /\ \A q \in Request \ {r} : pc'[q] = pc[q]
    BY <1>0, <1>1 DEF Claim, SetPlan, Looked
  <2>2. Looked(r)'
    BY <2>1 DEF Looked, PhaseTwo
  <2>3. QED
    BY <1>0, <2>1, <2>2, KeepsLook
<1>2. ASSUME NEW r \in Request, PassOver(r) PROVE LookInv'
  <2>1. /\ pc[r] = "reconciling" /\ UNCHANGED <<holder, row, fresh>>
        /\ \A q \in Request \ {r} : pc'[q] = pc[q] /\ pos'[q] = pos[q]
    BY <1>0, <1>2 DEF PassOver
  <2>2. \A o \in Op : OwesALook(r, o)' => OwesALook(r, o)
    BY <2>1 DEF OwesALook
  <2>3. CASE InRange(r)
    <3>1. /\ pc'[r] = "reconciling" /\ pos'[r] = pos[r] + 1 /\ pos[r] \in 1..N
          /\ ~Reconcilable(row[Order[pos[r]]])
      BY <1>0, <1>2, <2>3 DEF PassOver, InRange, Current
    <3>2. ~OwesALook(r, Order[pos[r]])
      BY <1>0, <3>1 DEF Reconcilable, OwesALook
    <3>3. holder = r => \A i \in 1..N : i < pos'[r] => ~OwesALook(r, Order[i])
      BY <1>0, <2>1, <3>1, <3>2 DEF Looked
    <3>4. Looked(r)'
      BY <1>0, <2>1, <2>2, <3>1, <3>3 DEF Looked, PhaseTwo
    <3>5. QED
      BY <1>0, <2>1, <3>4, KeepsLook
  <2>4. CASE ~InRange(r)
    <3>1. pc'[r] = "executing" /\ \A i \in 1..N : i < pos[r]
      BY <1>0, <1>2, <2>4 DEF PassOver, InRange
    <3>2. holder = r => \A o \in Op : ~OwesALook(r, o)
      BY <1>0, <2>1, <3>1 DEF Looked
    <3>3. Looked(r)'
      BY <2>1, <2>2, <3>1, <3>2 DEF Looked
    <3>4. QED
      BY <1>0, <2>1, <3>3, KeepsLook
  <2>5. QED
    BY <2>3, <2>4
<1>3. ASSUME NEW r \in Request, Observe(r) PROVE LookInv'
  <2>1. /\ holder = r /\ UNCHANGED <<holder, row, pos, fresh>>
        /\ pc[r] = "reconciling" /\ pc'[r] \in {"observed", "closing"}
        /\ \A q \in Request \ {r} : pc'[q] = pc[q]
    BY <1>0, <1>3 DEF Observe
  <2>2. Looked(r)'
    BY <1>0, <2>1 DEF Looked, PhaseTwo, OwesALook
  <2>3. QED
    BY <1>0, <2>1, <2>2, KeepsLook
<1>4. ASSUME NEW r \in Request, Reconcile(r) PROVE LookInv'
  <2>1. /\ holder = r /\ UNCHANGED holder /\ pc[r] = "observed" /\ InRange(r)
        /\ \A q \in Request \ {r} : pc'[q] = pc[q] /\ pos'[q] = pos[q]
    BY <1>0, <1>4 DEF Reconcile
  <2>2. CASE UNCHANGED fresh /\ pc'[r] = "closing"
    <3>1. Looked(r)'
      BY <2>2 DEF Looked, PhaseTwo
    <3>2. QED
      BY <1>0, <2>1, <2>2, <3>1, KeepsLook
  <2>3. CASE /\ \E x : Write(r, x)
             /\ pc'[r] = "reconciling" /\ pos'[r] = pos[r] + 1
    <3>1. /\ \A o \in Op : OwesALook(r, o)' => OwesALook(r, o)
          /\ \A o \in Op : o = Current(r) => ~OwesALook(r, o)'
          /\ \A q \in Request \ {r} : fresh'[q] = fresh[q]
      BY <2>1, <2>3, OwnWrite
    <3>2. \A i \in 1..N : i = pos[r] => ~OwesALook(r, Order[i])'
      BY <1>0, <3>1 DEF Current, OwesALook
    <3>3. \A i \in 1..N : i < pos'[r] => ~OwesALook(r, Order[i])'
      <4>1. SUFFICES ASSUME NEW i \in 1..N, i < pos'[r]
                     PROVE  ~OwesALook(r, Order[i])'
        OBVIOUS
      <4>2. i < pos[r] => ~OwesALook(r, Order[i])
        BY <1>0, <2>1 DEF Looked
      <4>3. i = pos[r] \/ i < pos[r]
        BY <1>0, <2>3, <4>1
      <4>4. Order[i] \in Op
        BY <1>0
      <4>5. QED
        BY <3>1, <3>2, <4>2, <4>3, <4>4 DEF OwesALook
    <3>4. Looked(r)'
      BY <2>3, <3>3 DEF Looked, PhaseTwo
    <3>5. QED
      BY <1>0, <2>1, <3>1, <3>4, KeepsLook
  <2>4. QED
    BY <1>0, <1>4, <2>2, <2>3 DEF Reconcile
<1>5. ASSUME NEW r \in Request, StepOver(r) PROVE LookInv'
  <2>1. /\ pc[r] = "executing" /\ UNCHANGED <<holder, row, fresh>>
        /\ pc'[r] \in {"executing", "closing"}
        /\ \A q \in Request \ {r} : pc'[q] = pc[q] /\ pos'[q] = pos[q]
    BY <1>0, <1>5 DEF StepOver, NextOrStop
  <2>2. Looked(r)'
    BY <1>0, <2>1 DEF Looked, PhaseTwo, OwesALook
  <2>3. QED
    BY <1>0, <2>1, <2>2, KeepsLook
<1>6. ASSUME NEW r \in Request,
             WriteAhead(r) \/ RecordBlocked(r) \/ Retry(r) \/ Decline(r)
      PROVE  LookInv'
  <2>1. /\ holder = r /\ holder' = r /\ pc[r] \in PhaseTwo /\ InRange(r)
        /\ UNCHANGED <<row, fresh>> \/ \E x : Write(r, x)
    BY <1>0, <1>6 DEF WriteAhead, RecordBlocked, Retry, Decline, PhaseTwo
  <2>2. /\ pc'[r] \in PhaseTwo \cup {"closing"}
        /\ \A q \in Request \ {r} : pc'[q] = pc[q] /\ pos'[q] = pos[q]
    BY <1>0, <1>6, ZenonT(60) DEF WriteAhead, RecordBlocked, Retry, Decline, PhaseTwo, NextOrStop
  <2>3. QED
    BY <2>1, <2>2, LooksOn
<1>7. ASSUME NEW r \in Request,
             AbandonBeforeDispatch(r) \/ Start(r) \/ Record(r)
      PROVE  LookInv'
  <2>1. /\ holder = r /\ holder' = r /\ pc[r] \in PhaseTwo /\ InRange(r)
        /\ \E x : Write(r, x)
    BY <1>0, <1>7 DEF AbandonBeforeDispatch, Start, Record, PhaseTwo
  <2>2. /\ pc'[r] \in PhaseTwo \cup {"closing"}
        /\ \A q \in Request \ {r} : pc'[q] = pc[q] /\ pos'[q] = pos[q]
    BY <1>0, <1>7 DEF AbandonBeforeDispatch, Start, Record, PhaseTwo, NextOrStop
  <2>3. QED
    BY <2>1, <2>2, LooksOn
<1>8. ASSUME NEW r \in Request,
             Prepare(r) \/ Send(r) \/ RefusedAtGate(r) \/ Answer(r)
      PROVE  LookInv'
  <2>1. /\ UNCHANGED <<holder, row, fresh, pos>> /\ pc[r] \in PhaseTwo
        /\ pc'[r] \in PhaseTwo
        /\ \A q \in Request \ {r} : pc'[q] = pc[q]
    BY <1>0, <1>8 DEF Prepare, Send, RefusedAtGate, Answer, PhaseTwo
  <2>2. Looked(r)'
    BY <1>0, <2>1 DEF Looked, PhaseTwo, OwesALook
  <2>3. QED
    BY <1>0, <2>1, <2>2, KeepsLook
<1>9. ASSUME NEW r \in Request,
             Acquire(r) \/ Finalize(r) \/ Unwind(r) \/ Leave(r) \/ CallAgain(r)
      PROVE  LookInv'
  <2>1. /\ UNCHANGED row /\ holder' \in {holder, None, r}
        /\ pc'[r] \in {"acquired", "ended", "leaving", "idle"}
        /\ pc'[r] # "leaving" => pos'[r] = 1
        /\ \A q \in Request \ {r} :
               pc'[q] = pc[q] /\ pos'[q] = pos[q] /\ fresh'[q] = fresh[q]
    BY <1>0, <1>9 DEF Acquire, Finalize, SetPlan, Unwind, Leave, Forget, CallAgain, Looked
  <2>2. Looked(r)'
    BY <2>1 DEF Looked, PhaseTwo
  <2>3. QED
    BY <1>0, <2>1, <2>2, KeepsLook
<1>10. ASSUME NEW r \in Request, Disturb(r) PROVE LookInv'
  <2>1. /\ UNCHANGED <<row, holder>>
        /\ \/ UNCHANGED <<pc, pos, fresh>>
           \/ pc'[r] \in {"leaving", "closing"}
           \/ pc'[r] = "crashed" /\ pos'[r] = 1
        /\ \A q \in Request \ {r} :
               pc'[q] = pc[q] /\ pos'[q] = pos[q] /\ fresh'[q] = fresh[q]
    BY <1>0, <1>10 DEF Disturb, Abort, LoseLease, StorageFails, Crash, Forget
  <2>2. Looked(r)'
    BY <1>0, <2>1 DEF Looked, PhaseTwo, OwesALook
  <2>3. QED
    BY <1>0, <2>1, <2>2, KeepsLook
<1>11. CASE RecoverAtStartup
  <2>1. /\ run.state = "running" /\ holder # run.owner
        /\ UNCHANGED <<holder, pc, pos, fresh>>
    BY <1>11 DEF RecoverAtStartup
  <2>2. \A r \in Request : holder = r => pc[r] \notin Working
    BY <1>0, <2>1
  <2>3. \A r \in Request : Looked(r)'
    BY <1>0, <2>1, <2>2 DEF Looked, PhaseTwo
  <2>4. QED
    BY <2>3 DEF LookInv
<1>12. CASE LeaseExpires \/ PlanExpires \/ Network \/ (\E o \in Op : Edit(o))
            \/ UNCHANGED vars
  <2>1. UNCHANGED <<row, pc, pos, fresh>> /\ holder' \in {holder, None}
    BY <1>12 DEF LeaseExpires, PlanExpires, Network, Land, Drop, Edit, vars
  <2>2. \A r \in Request : Looked(r)'
    BY <1>0, <2>1 DEF Looked, OwesALook
  <2>3. QED
    BY <2>2 DEF LookInv
<1>13. QED
  BY <1>1, <1>2, <1>3, <1>4, <1>5, <1>6, <1>7, <1>8, <1>9, <1>10, <1>11,
     <1>12 DEF Next, Step

LEMMA InitLooked == Init => LookInv /\ HeldInv
BY PlanOrder DEF Init, LookInv, Looked, PhaseTwo, HeldInv, Held, Active

(* Which steps hand a mutation to the network, and which queue a row.       *)
LEMMA OnlyDispatches ==
    ASSUME TypeInv, [Next]_vars, NEW r \in Request
    PROVE  /\ pc[r] = "gated" /\ pc'[r] = "sent" => Send(r)
           /\ pc[r] = "executing" /\ pc'[r] = "pacing" => holder = r /\ InRange(r)
<1>0. pc \in [Request -> PC]
  BY DEF TypeInv, TypeOK
<1> USE DEF durable, remote, local, Goto, CanWrite
<1>1. ASSUME NEW q \in Request,
             \/ Acquire(q) \/ Claim(q) \/ PassOver(q) \/ Observe(q) \/ Reconcile(q)
             \/ StepOver(q) \/ WriteAhead(q) \/ RecordBlocked(q) \/ Retry(q)
             \/ Prepare(q) \/ AbandonBeforeDispatch(q) \/ Start(q)
      PROVE  /\ ~(pc[r] = "gated" /\ pc'[r] = "sent")
             /\ pc[r] = "executing" /\ pc'[r] = "pacing" => holder = r /\ InRange(r)
  BY <1>0, <1>1
     DEF Acquire, Claim, SetPlan, PassOver, Observe, Reconcile, StepOver,
         WriteAhead, RecordBlocked, Retry, Prepare, AbandonBeforeDispatch, Start,
         NextOrStop
<1>2. ASSUME NEW q \in Request,
             \/ Decline(q) \/ Send(q) \/ RefusedAtGate(q) \/ Answer(q)
             \/ Record(q) \/ Finalize(q) \/ Unwind(q) \/ Leave(q)
             \/ Disturb(q) \/ CallAgain(q)
      PROVE  /\ pc[r] = "gated" /\ pc'[r] = "sent" => q = r /\ Send(q)
             /\ ~(pc[r] = "executing" /\ pc'[r] = "pacing")
  <2>1. CASE Decline(q) \/ Record(q) \/ Disturb(q)
    BY <1>0, <2>1
       DEF Decline, Record, NextOrStop, Disturb, Abort, LoseLease, StorageFails, Crash
  <2>2. CASE ~(Decline(q) \/ Record(q) \/ Disturb(q))
    BY <1>0, <1>2, <2>2
       DEF Send, RefusedAtGate, Answer, Finalize, Unwind, Leave, CallAgain
  <2>3. QED
    BY <2>1, <2>2
<1>3. CASE LeaseExpires \/ RecoverAtStartup \/ PlanExpires \/ Network
           \/ (\E o \in Op : Edit(o)) \/ UNCHANGED vars
  <2>1. UNCHANGED pc
    BY <1>3 DEF LeaseExpires, RecoverAtStartup, PlanExpires, Network, Land, Drop,
                Edit, vars
  <2>2. QED
    BY <2>1
<1>4. QED
  BY <1>1, <1>2, <1>3 DEF Next, Step

(* No mutation leaves, and no row is queued again, while a row that was     *)
(* dispatched by an earlier call still waits for its fresh look.            *)
THEOREM DispatchesAreInformed == Spec => NoBlindDispatch
<1>1. TypeInv /\ HeldInv /\ LookInv /\ [Next]_vars =>
          \A r \in Request :
              /\ pc[r] = "gated" /\ pc'[r] = "sent" => \A o \in Op : ~OwesALook(r, o)
              /\ pc[r] = "executing" /\ pc'[r] = "pacing" => ~OwesALook(r, Current(r))
  <2> SUFFICES ASSUME TypeInv, HeldInv, LookInv, [Next]_vars, NEW r \in Request
               PROVE  /\ pc[r] = "gated" /\ pc'[r] = "sent" =>
                             \A o \in Op : ~OwesALook(r, o)
                      /\ pc[r] = "executing" /\ pc'[r] = "pacing" =>
                             ~OwesALook(r, Current(r))
    OBVIOUS
  <2>1. Looked(r) /\ Held(r)
    BY DEF LookInv, HeldInv
  <2>2. pc[r] = "gated" /\ pc'[r] = "sent" => holder = r
    BY <2>1, OnlyDispatches DEF Send, Held, Lost, Active
  <2>3. pc[r] = "executing" /\ pc'[r] = "pacing" => holder = r /\ InRange(r)
    BY OnlyDispatches
  <2>4. QED
    BY <2>1, <2>2, <2>3, CurrentRow DEF Looked, PhaseTwo
<1>2. QED
  BY <1>1, Invariants, InitAttempts, Attempting, InitLooked, Holding, Looking, PTL
     DEF Spec, NoBlindDispatch
=============================================================================
