---------------------------- MODULE StoreProofs -----------------------------
(***************************************************************************)
(* Theorems about Store, for any number of processes, transactions and      *)
(* writes, any versions of the program, and whatever a callback does: a     *)
(* transaction leaves all its writes or none, the schema goes from one      *)
(* version to a later one, and all processes sign with one key.             *)
(*                                                                          *)
(* Everything rests on who holds the writer's lock: a process that is       *)
(* migrating or in a transaction, and nobody else (LockInv).  So the file   *)
(* does not change under its holder, and what the holder would commit is    *)
(* the file and its own writes (TxInv, SchemaInv).  Then two tables of the  *)
(* file: the rows of a run and their guards (RunRecords), and the lease.    *)
(***************************************************************************)
EXTENDS Store, RunRecords, Lease, WellFoundedInduction, TLAPS

Stage == Opening \cup {"new", "ready", "closed", "dead"}
Outcome == {"none", "open", "returned", "threw", "died"}
Entry == [by : Process \cup {None}, outcome : Outcome, made : Nat,
          reentered : BOOLEAN]

\* The types of what a step reads and writes.
Typed ==
    /\ ledger \in Seq(Migration)
    /\ secret \in Nat
    /\ keys \in Nat
    /\ lock \in Process \cup {None}
    /\ binary \in [Process -> Binaries]
    /\ lifecycle \in [Process -> Stage]
    /\ key \in [Process -> Nat]
    /\ active \in [Process -> BOOLEAN]
    /\ poisoned \in [Process -> BOOLEAN]
    /\ DOMAIN work = Process
    /\ \A p \in Process : /\ DOMAIN work[p] = {"data", "ledger"}
                          /\ work[p].ledger \in Seq(Migration)
    /\ token \in [Tx -> BOOLEAN]
    /\ log \in [Tx -> Entry]

\* The lock is held by who migrates or is in a transaction.
LockInv ==
    \A p \in Process :
        /\ lock = p <=> active[p] \/ lifecycle[p] = "migrating"
        /\ active[p] => lifecycle[p] = "ready"

IsOpen(t) == log[t].outcome = "open"
Wrote(t) == {<<t, n>> : n \in 1..log[t].made}
Left(t) == {w \in data : w[1] = t}

\* What is true of a transaction at any time.
SoundTx(t) ==
    /\ log[t].by = None <=> log[t].outcome = "none"
    /\ log[t].outcome = "none" => log[t].made = 0 /\ ~log[t].reentered
    /\ token[t] => IsOpen(t)
    /\ Left(t) = IF log[t].outcome = "returned" THEN Wrote(t) ELSE {}
    /\ log[t].outcome = "returned" => ~log[t].reentered

\* What is true of it while it is open.
RunningTx(t) ==
    /\ active[log[t].by]
    /\ log[t].reentered => poisoned[log[t].by]
    /\ work[log[t].by].data = data \cup Wrote(t)

TxInv ==
    /\ \A t \in Tx : SoundTx(t) /\ (IsOpen(t) => RunningTx(t))
    /\ \A p \in Process : active[p] => \E t \in Tx : IsOpen(t) /\ log[t].by = p
    /\ \A t, u \in Tx : IsOpen(t) /\ IsOpen(u) => t = u

\* What a process that migrates would commit.
SchemaInv ==
    \A p \in Process : lifecycle[p] = "migrating" => IsPrefix(ledger, work[p].ledger)

\* A codec signs with the key of the file, which is chosen once.
KeyInv ==
    \A p \in Process : lifecycle[p] = "ready" => key[p] = secret /\ secret # 0

StoreInv == Typed /\ LockInv /\ TxInv /\ SchemaInv /\ KeyInv

-----------------------------------------------------------------------------
(* Prefixes                                                                 *)

LEMMA PrefixByItems ==
    ASSUME NEW S, NEW s \in Seq(S), NEW t \in Seq(S)
    PROVE  IsPrefix(s, t) <=> /\ Len(s) <= Len(t)
                              /\ \A i \in 1..Len(s) : s[i] = t[i]
BY DEF IsPrefix

(* What is longer by one item has the same prefixes.                        *)
LEMMA PrefixOfAppend ==
    ASSUME NEW S, NEW s \in Seq(S), NEW t \in Seq(S), NEW x \in S, IsPrefix(s, t)
    PROVE  IsPrefix(s, Append(t, x))
<1>1. Append(t, x) \in Seq(S) /\ Len(Append(t, x)) = Len(t) + 1
  OBVIOUS
<1>2. \A i \in 1..Len(t) : Append(t, x)[i] = t[i]
  OBVIOUS
<1>3. Len(s) <= Len(t) /\ \A i \in 1..Len(s) : s[i] = t[i]
  BY PrefixByItems
<1>4. \A i \in 1..Len(s) : s[i] = Append(t, x)[i]
  BY <1>2, <1>3
<1>5. Len(s) <= Len(Append(t, x))
  BY <1>1, <1>3
<1>6. QED
  BY <1>1, <1>4, <1>5, PrefixByItems

(* A strict prefix is shorter.                                              *)
LEMMA StrictIsShorter ==
    ASSUME NEW S, NEW s \in Seq(S), NEW t \in Seq(S), IsStrictPrefix(s, t)
    PROVE  Len(s) < Len(t)
<1>1. IsPrefix(s, t) /\ s # t
  BY DEF IsStrictPrefix
<1>2. SUFFICES ASSUME Len(s) = Len(t) PROVE FALSE
  BY <1>1 DEF IsPrefix
<1>3. \A i \in 1..Len(s) : s[i] = t[i]
  BY <1>1, PrefixByItems
<1>4. QED
  BY <1>1, <1>2, <1>3

-----------------------------------------------------------------------------
(* Types and the lock                                                       *)

(* The transaction a process is in is the one Current finds.                *)
LEMMA CurrentIsOpen ==
    ASSUME TxInv, NEW p \in Process, active[p]
    PROVE  Current(p) \in Tx /\ IsOpen(Current(p)) /\ log[Current(p)].by = p
<1>1. \E t \in Tx : log[t].by = p /\ log[t].outcome = "open"
  BY DEF TxInv, IsOpen
<1>2. QED
  BY <1>1 DEF Current, IsOpen

(* While one has not begun there is a first that has not.                   *)
LEMMA UnusedExists ==
    ASSUME Unused # {}
    PROVE  (CHOOSE t \in Unused : \A u \in Unused : t <= u) \in Unused
<1>1. Unused \subseteq Nat /\ Unused # {}
  BY StoreAssumption DEF Unused, Tx
<1>2. \E t \in Unused : \A u \in Unused : t <= u
  <2> DEFINE Less == {ss \in Nat \X Nat : ss[1] < ss[2]}
  <2>1. IsWellFoundedOn(Less, Nat)
    BY NatLessThanWellFounded DEF OpToRel
  <2>2. \E t \in Unused : \A u \in Unused : <<u, t>> \notin Less
    <3> HIDE DEF Less
    <3>1. QED
      BY <1>1, <2>1, WFMin
  <2>3. \A t, u \in Nat : <<u, t>> \notin Less => t <= u
    <3>1. \A t, u \in Nat : u < t => <<u, t>> \in Less
      OBVIOUS
    <3>2. QED
      BY <3>1
  <2>4. QED
    BY <1>1, <2>2, <2>3
<1>3. QED
  BY <1>2

(* An item a migrating process has still to add is a migration.             *)
LEMMA NextMigration ==
    ASSUME Typed, NEW p \in Process, IsStrictPrefix(work[p].ledger, binary[p])
    PROVE  /\ work[p].ledger \in Seq(Migration)
           /\ binary[p][Len(work[p].ledger) + 1] \in Migration
<1>1. work[p].ledger \in Seq(Migration) /\ binary[p] \in Seq(Migration)
  BY StoreAssumption DEF Typed
<1>2. Len(work[p].ledger) < Len(binary[p])
  BY <1>1, StrictIsShorter
<1>3. QED
  BY <1>1, <1>2

\* What a write to one entry of the log leaves.
LogsOnly(t) ==
    /\ log'[t] \in Entry
    /\ log' = [log EXCEPT ![t] = log'[t]]

(* The writes of the four fields.                                           *)
LEMMA LogWrites ==
    ASSUME Typed, NEW t \in Tx, NEW p \in Process, NEW o \in Outcome, NEW n \in Nat,
           \/ log' = [log EXCEPT ![t].by = p, ![t].outcome = "open"]
           \/ log' = [log EXCEPT ![t].made = n]
           \/ log' = [log EXCEPT ![t].reentered = TRUE]
           \/ log' = [log EXCEPT ![t].outcome = o]
    PROVE  LogsOnly(t) /\ log' \in [Tx -> Entry]
<1>1. log[t] \in Entry /\ log \in [Tx -> Entry]
  BY DEF Typed
<1>2. CASE log' = [log EXCEPT ![t].by = p, ![t].outcome = "open"]
  BY <1>1, <1>2 DEF Entry, Outcome, LogsOnly
<1>3. CASE log' = [log EXCEPT ![t].made = n]
  BY <1>1, <1>3 DEF Entry, LogsOnly
<1>4. CASE log' = [log EXCEPT ![t].reentered = TRUE]
  BY <1>1, <1>4 DEF Entry, LogsOnly
<1>5. CASE log' = [log EXCEPT ![t].outcome = o]
  BY <1>1, <1>5 DEF Entry, LogsOnly
<1>6. QED
  BY <1>2, <1>3, <1>4, <1>5

LEMMA Typing ==
    ASSUME Typed, TxInv, Next
    PROVE  Typed'
<1> PICK p \in Process :
        \/ Open(p) \/ BeginMigrations(p) \/ Upgrade(p) \/ CommitMigrations(p)
        \/ SelectKey(p) \/ MigrateFails(p)
        \/ Begin(p) \/ \E t \in Tx : CallFacade(p, t)
        \/ Reenter(p) \/ SaveDiscoveredCandidate(p) \/ Return(p) \/ Throw(p)
        \/ Close(p) \/ Die(p) \/ Restart(p)
  BY DEF Next
<1> USE DEF Typed, Stage, Opening
<1>1. CASE Open(p)
  BY <1>1 DEF Open
<1>2. CASE BeginMigrations(p)
  BY <1>2 DEF BeginMigrations, BeginImmediate
<1>3. CASE Upgrade(p)
  <2>1. /\ work'[p].ledger = Append(work[p].ledger, binary[p][Len(work[p].ledger) + 1])
        /\ DOMAIN work'[p] = DOMAIN work[p] /\ DOMAIN work' = DOMAIN work
        /\ \A q \in Process \ {p} : work'[q] = work[q]
    BY <1>3 DEF Upgrade
  <2>2. work'[p].ledger \in Seq(Migration)
    <3> HIDE DEF Typed
    <3>1. /\ work[p].ledger \in Seq(Migration)
          /\ binary[p][Len(work[p].ledger) + 1] \in Migration
      BY <1>3, NextMigration DEF Upgrade
    <3>2. QED
      BY <2>1, <3>1
  <2>3. QED
    BY <1>3, <2>1, <2>2 DEF Upgrade
<1>4. CASE CommitMigrations(p)
  BY <1>4 DEF CommitMigrations
<1>5. CASE SelectKey(p)
  BY <1>5 DEF SelectKey, Selected
<1>6. CASE MigrateFails(p)
  BY <1>6 DEF MigrateFails
<1>7. CASE Begin(p)
  <2>1. PICK t \in Tx : /\ log' = [log EXCEPT ![t].by = p, ![t].outcome = "open"]
                       /\ token' = [token EXCEPT ![t] = TRUE]
    BY <1>7, UnusedExists DEF Begin, Unused
  <2>2. log' \in [Tx -> Entry]
    BY <2>1, LogWrites DEF Outcome
  <2>3. token' \in [Tx -> BOOLEAN]
    BY <2>1
  <2>4. /\ UNCHANGED <<ledger, secret, keys, binary, lifecycle, key>>
        /\ lock' = p /\ work' = [work EXCEPT ![p].data = data]
        /\ active' = [active EXCEPT ![p] = TRUE]
        /\ poisoned' = [poisoned EXCEPT ![p] = FALSE]
    BY <1>7 DEF Begin, BeginImmediate, file
  <2>5. /\ DOMAIN work' = Process
        /\ \A q \in Process : DOMAIN work'[q] = DOMAIN work[q]
                              /\ work'[q].ledger = work[q].ledger
    BY <2>4
  <2>6. QED
    BY <2>2, <2>3, <2>4, <2>5
<1>8. ASSUME NEW t \in Tx, CallFacade(p, t) PROVE Typed'
  <2>1. log' \in [Tx -> Entry]
    <3>1. log' = log \/ log' = [log EXCEPT ![t].made = log[t].made + 1]
      BY <1>8 DEF CallFacade
    <3>2. log[t].made + 1 \in Nat
      BY DEF Entry
    <3> HIDE DEF Typed
    <3>3. CASE log' = log
      BY <3>3 DEF Typed
    <3>4. CASE log' = [log EXCEPT ![t].made = log[t].made + 1]
      BY <3>2, <3>4, LogWrites DEF Outcome
    <3>5. QED
      BY <3>1, <3>3, <3>4
  <2>2. /\ DOMAIN work' = Process
        /\ \A q \in Process : /\ DOMAIN work'[q] = DOMAIN work[q]
                              /\ work'[q].ledger = work[q].ledger
    <3>1. \/ work' = work
          \/ work' = [work EXCEPT ![p].data = @ \cup {<<t, log[t].made + 1>>}]
      BY <1>8 DEF CallFacade
    <3>2. CASE work' = [work EXCEPT ![p].data = @ \cup {<<t, log[t].made + 1>>}]
      BY <3>2
    <3>3. QED
      BY <3>1, <3>2
  <2>3. QED
    BY <1>8, <2>1, <2>2 DEF CallFacade
<1>9. CASE Reenter(p)
  <2>1. PICK t \in Tx : log' = [log EXCEPT ![t].reentered = TRUE]
    BY <1>9, CurrentIsOpen DEF Reenter
  <2>2. log' \in [Tx -> Entry]
    <3> HIDE DEF Typed
    <3>1. QED
      BY <2>1, LogWrites DEF Outcome
  <2>3. QED
    BY <1>9, <2>2 DEF Reenter, file
<1>10. CASE SaveDiscoveredCandidate(p)
  <2>1. PICK t \in Tx : log' = [log EXCEPT ![t].made = log[t].made + 1]
    BY <1>10, CurrentIsOpen DEF SaveDiscoveredCandidate
  <2>2. log[t].made + 1 \in Nat
    BY DEF Entry
  <2>3. log' \in [Tx -> Entry]
    <3> HIDE DEF Typed
    <3>1. QED
      BY <2>1, <2>2, LogWrites DEF Outcome
  <2>4. /\ DOMAIN work' = Process
        /\ \A q \in Process : /\ DOMAIN work'[q] = DOMAIN work[q]
                              /\ work'[q].ledger = work[q].ledger
    BY <1>10 DEF SaveDiscoveredCandidate
  <2>5. QED
    BY <1>10, <2>3, <2>4 DEF SaveDiscoveredCandidate, file
<1>11. ASSUME NEW o \in {"returned", "threw"}, active[p], End(p, o) PROVE Typed'
  <2>1. PICK t \in Tx : /\ log' = [log EXCEPT ![t].outcome = o]
                       /\ token' = [token EXCEPT ![t] = FALSE]
    BY <1>11, CurrentIsOpen DEF End, Revoked
  <2>2. log' \in [Tx -> Entry]
    BY <2>1, LogWrites DEF Outcome
  <2>3. QED
    BY <1>11, <2>1, <2>2 DEF End
<1>12. CASE Return(p) \/ Throw(p)
  BY <1>11, <1>12 DEF Return, Throw
<1>13. CASE Close(p)
  BY <1>13 DEF Close, file
<1>14. CASE Die(p)
  <2>1. log' \in [Tx -> Entry]
    <3>1. \A t \in Tx : [log[t] EXCEPT !.outcome = "died"] \in Entry
      <4> TAKE t \in Tx
      <4>1. log[t] \in Entry
        OBVIOUS
      <4>2. QED
        BY <4>1 DEF Entry, Outcome
    <3>2. QED
      BY <1>14, <3>1 DEF Die
  <2>2. QED
    BY <1>14, <2>1 DEF Die, file
<1>15. CASE Restart(p)
  BY <1>15 DEF Restart, file
<1>16. QED
  BY <1>1, <1>2, <1>3, <1>4, <1>5, <1>6, <1>7, <1>8, <1>9, <1>10, <1>12,
     <1>13, <1>14, <1>15

(* Who takes the lock found it free, and who leaves what it was taken for   *)
(* gives it up.                                                             *)
LEMMA Locking ==
    ASSUME Typed, LockInv, Next
    PROVE  LockInv'
<1> PICK p \in Process :
        \/ Open(p) \/ BeginMigrations(p) \/ Upgrade(p) \/ CommitMigrations(p)
        \/ SelectKey(p) \/ MigrateFails(p)
        \/ Begin(p) \/ \E t \in Tx : CallFacade(p, t)
        \/ Reenter(p) \/ SaveDiscoveredCandidate(p) \/ Return(p) \/ Throw(p)
        \/ Close(p) \/ Die(p) \/ Restart(p)
  BY DEF Next
<1> USE StoreAssumption DEF Typed, LockInv
<1>1. CASE Open(p)
  BY <1>1 DEF Open
<1>2. CASE BeginMigrations(p)
  BY <1>2 DEF BeginMigrations, BeginImmediate
<1>3. CASE Upgrade(p)
  BY <1>3 DEF Upgrade
<1>4. CASE CommitMigrations(p)
  BY <1>4 DEF CommitMigrations
<1>5. CASE SelectKey(p)
  BY <1>5 DEF SelectKey
<1>6. CASE MigrateFails(p)
  BY <1>6 DEF MigrateFails, Opening
<1>7. CASE Begin(p)
  BY <1>7 DEF Begin, BeginImmediate
<1>8. ASSUME NEW t \in Tx, CallFacade(p, t) PROVE LockInv'
  BY <1>8 DEF CallFacade
<1>9. CASE Reenter(p) \/ SaveDiscoveredCandidate(p)
  BY <1>9 DEF Reenter, SaveDiscoveredCandidate
<1>10. CASE Return(p) \/ Throw(p)
  <2>1. /\ active[p] /\ lock' = None /\ lifecycle' = lifecycle
        /\ active' = [active EXCEPT ![p] = FALSE]
    BY <1>10 DEF Return, Throw, End
  <2>2. QED
    BY <2>1
<1>11. CASE Close(p)
  BY <1>11 DEF Close
<1>12. CASE Die(p)
  BY <1>12 DEF Die
<1>13. CASE Restart(p)
  BY <1>13 DEF Restart
<1>14. QED
  BY <1>1, <1>2, <1>3, <1>4, <1>5, <1>6, <1>7, <1>8, <1>9, <1>10, <1>11, <1>12,
     <1>13

-----------------------------------------------------------------------------
(* The key and the schema                                                   *)

(* The key is chosen when there is none, and then nobody is ready.          *)
LEMMA Keying ==
    ASSUME Typed, KeyInv, Next
    PROVE  KeyInv'
<1> PICK p \in Process :
        \/ Open(p) \/ BeginMigrations(p) \/ Upgrade(p) \/ CommitMigrations(p)
        \/ SelectKey(p) \/ MigrateFails(p)
        \/ Begin(p) \/ \E t \in Tx : CallFacade(p, t)
        \/ Reenter(p) \/ SaveDiscoveredCandidate(p) \/ Return(p) \/ Throw(p)
        \/ Close(p) \/ Die(p) \/ Restart(p)
  BY DEF Next
<1> USE DEF Typed, KeyInv
<1>1. CASE Open(p) \/ BeginMigrations(p) \/ Upgrade(p) \/ CommitMigrations(p)
  BY <1>1 DEF Open, BeginMigrations, Upgrade, CommitMigrations
<1>2. CASE SelectKey(p)
  <2>1. secret' = (IF secret = 0 THEN keys + 1 ELSE secret) /\ secret' # 0
    BY <1>2 DEF SelectKey, Selected
  <2>2. key' = [key EXCEPT ![p] = secret'] /\ lifecycle' = [lifecycle EXCEPT ![p] = "ready"]
    BY <1>2 DEF SelectKey
  <2>3. QED
    BY <2>1, <2>2
<1>3. CASE MigrateFails(p)
  BY <1>3 DEF MigrateFails
<1>4. CASE Begin(p) \/ (\E t \in Tx : CallFacade(p, t)) \/ Reenter(p) \/ SaveDiscoveredCandidate(p)
  BY <1>4 DEF Begin, CallFacade, Reenter, SaveDiscoveredCandidate, file
<1>5. CASE Return(p) \/ Throw(p)
  BY <1>5 DEF Return, Throw, End
<1>6. CASE Close(p) \/ Die(p) \/ Restart(p)
  BY <1>6 DEF Close, Die, Restart, file
<1>7. QED
  BY <1>1, <1>2, <1>3, <1>4, <1>5, <1>6

(* The ledger does not change under a process that migrates, which only     *)
(* adds to what it read.                                                    *)
LEMMA Migrating ==
    ASSUME Typed, LockInv, SchemaInv, Next
    PROVE  SchemaInv'
<1> PICK p \in Process :
        \/ Open(p) \/ BeginMigrations(p) \/ Upgrade(p) \/ CommitMigrations(p)
        \/ SelectKey(p) \/ MigrateFails(p)
        \/ Begin(p) \/ \E t \in Tx : CallFacade(p, t)
        \/ Reenter(p) \/ SaveDiscoveredCandidate(p) \/ Return(p) \/ Throw(p)
        \/ Close(p) \/ Die(p) \/ Restart(p)
  BY DEF Next
<1> USE DEF SchemaInv
<1>1. CASE Open(p) \/ SelectKey(p) \/ MigrateFails(p)
  BY <1>1 DEF Typed, Open, SelectKey, MigrateFails
<1>2. CASE BeginMigrations(p)
  <2>1. ledger' = ledger /\ work'[p].ledger = ledger
    BY <1>2 DEF BeginMigrations, Typed
  <2>2. \A q \in Process \ {p} : lifecycle'[q] = lifecycle[q] /\ work'[q] = work[q]
    BY <1>2 DEF BeginMigrations, Typed
  <2>3. IsPrefix(ledger, ledger)
    BY PrefixByItems DEF Typed
  <2>4. QED
    BY <2>1, <2>2, <2>3
<1>3. CASE Upgrade(p)
  <2>1. work'[p].ledger = Append(work[p].ledger, binary[p][Len(work[p].ledger) + 1])
    BY <1>3 DEF Upgrade, Typed
  <2>2. IsPrefix(ledger, work'[p].ledger)
    <3>1. IsPrefix(ledger, work[p].ledger) /\ ledger \in Seq(Migration)
      BY <1>3 DEF Upgrade, Typed
    <3>2. /\ work[p].ledger \in Seq(Migration)
          /\ binary[p][Len(work[p].ledger) + 1] \in Migration
      <4> HIDE DEF SchemaInv
      <4>1. QED
        BY <1>3, NextMigration DEF Upgrade
    <3>3. QED
      BY <2>1, <3>1, <3>2, PrefixOfAppend
  <2>3. \A q \in Process \ {p} : work'[q] = work[q]
    BY <1>3 DEF Upgrade, Typed
  <2>4. QED
    BY <1>3, <2>2, <2>3 DEF Upgrade
<1>4. CASE CommitMigrations(p)
  <2>1. \A q \in Process : lifecycle'[q] # "migrating"
    BY <1>4 DEF CommitMigrations, LockInv, Typed
  <2>2. QED
    BY <2>1
<1>5. ASSUME UNCHANGED <<ledger, lifecycle>>,
             \A q \in Process : work'[q].ledger = work[q].ledger
      PROVE  SchemaInv'
  BY <1>5
<1>6. CASE Begin(p) \/ (\E t \in Tx : CallFacade(p, t)) \/ Reenter(p) \/ SaveDiscoveredCandidate(p)
  <2>1. CASE Begin(p) \/ Reenter(p) \/ SaveDiscoveredCandidate(p)
    BY <1>5, <2>1 DEF Typed, Begin, Reenter, SaveDiscoveredCandidate, file
  <2>2. ASSUME NEW t \in Tx, CallFacade(p, t) PROVE SchemaInv'
    <3>1. \/ work' = work
          \/ work' = [work EXCEPT ![p].data = @ \cup {<<t, log[t].made + 1>>}]
      BY <2>2 DEF CallFacade
    <3>2. \A q \in Process : work'[q].ledger = work[q].ledger
      <4>1. CASE work' = [work EXCEPT ![p].data = @ \cup {<<t, log[t].made + 1>>}]
        BY <4>1 DEF Typed
      <4>2. QED
        BY <3>1, <4>1
    <3>3. QED
      BY <1>5, <2>2, <3>2 DEF CallFacade
  <2>3. QED
    BY <1>6, <2>1, <2>2
<1>7. CASE Return(p) \/ Throw(p)
  BY <1>5, <1>7 DEF Return, Throw, End
<1>8. CASE Close(p) \/ Die(p) \/ Restart(p)
  BY <1>8 DEF Typed, Close, Die, Restart, file
<1>9. QED
  BY <1>1, <1>2, <1>3, <1>4, <1>6, <1>7, <1>8

-----------------------------------------------------------------------------
(* Transactions                                                             *)

(* Only the holder of the lock has an open transaction, and only one.       *)
LEMMA OpenHolds ==
    ASSUME Typed, LockInv, TxInv, NEW t \in Tx, IsOpen(t)
    PROVE  /\ log[t].by \in Process
           /\ active[log[t].by]
           /\ lock = log[t].by
<1>1. SoundTx(t) /\ RunningTx(t) /\ log[t] \in Entry
  BY DEF TxInv, Typed
<1>2. log[t].by \in Process
  BY <1>1 DEF SoundTx, IsOpen, Entry
<1>3. QED
  BY <1>1, <1>2 DEF RunningTx, LockInv

(* A transaction whose entry and writes a step leaves alone stays sound.    *)
LEMMA StaysSound ==
    ASSUME NEW t \in Tx, SoundTx(t), log'[t] = log[t], token'[t] => token[t],
           Left(t)' = Left(t)
    PROVE  SoundTx(t)'
BY DEF SoundTx, Wrote, IsOpen

(* A step that touches no transaction.                                      *)
LEMMA NoTransaction ==
    ASSUME Typed, LockInv, TxInv, UNCHANGED <<data, log>>,
           \A t \in Tx : token'[t] => token[t],
           \A p \in Process : active'[p] = active[p],
           \A p \in Process : active[p] => /\ poisoned'[p] = poisoned[p]
                                          /\ work'[p].data = work[p].data
    PROVE  TxInv'
<1>1. ASSUME NEW t \in Tx PROVE SoundTx(t)'
  BY <1>1, StaysSound DEF TxInv, Left
<1>2. ASSUME NEW t \in Tx, IsOpen(t)' PROVE RunningTx(t)'
  <2>1. IsOpen(t) /\ log'[t] = log[t]
    BY <1>2 DEF IsOpen
  <2>2. RunningTx(t) /\ log[t].by \in Process
    BY <2>1, OpenHolds DEF TxInv
  <2>3. QED
    BY <2>1, <2>2 DEF RunningTx, Wrote
<1>3. QED
  BY <1>1, <1>2 DEF TxInv, IsOpen

(* A step inside the open transaction.                                      *)
LEMMA InsideTransaction ==
    ASSUME Typed, LockInv, TxInv, NEW t \in Tx, IsOpen(t), LogsOnly(t),
           log'[t].by = log[t].by, log'[t].outcome = "open",
           UNCHANGED <<data, token, active>>,
           RunningTx(t)'
    PROVE  TxInv'
<1>1. ASSUME NEW u \in Tx, u # t PROVE log'[u] = log[u] /\ ~IsOpen(u)
  BY <1>1 DEF LogsOnly, TxInv, Typed
<1>2. SoundTx(t)'
  <2>1. SoundTx(t) /\ log[t].by # None
    BY DEF SoundTx, TxInv, IsOpen
  <2>2. Left(t)' = {}
    BY <2>1 DEF SoundTx, Left, IsOpen
  <2>3. QED
    BY <2>1, <2>2 DEF SoundTx, IsOpen
<1>3. ASSUME NEW u \in Tx, u # t PROVE SoundTx(u)'
  BY <1>1, <1>3, StaysSound DEF Left, TxInv
<1>4. \A u \in Tx : IsOpen(u)' <=> u = t
  BY <1>1 DEF IsOpen
<1>5. \A p \in Process : active[p] => p = log[t].by
  BY OpenHolds DEF LockInv
<1>6. QED
  BY <1>2, <1>3, <1>4, <1>5 DEF TxInv

(* The end of the open transaction, with its writes or without them.        *)
LEMMA EndOfTransaction ==
    ASSUME Typed, LockInv, TxInv, NEW t \in Tx, IsOpen(t), LogsOnly(t),
           log'[t].by = log[t].by, log'[t].made = log[t].made,
           log'[t].reentered = log[t].reentered,
           log'[t].outcome \in {"returned", "threw", "died"},
           log'[t].outcome = "returned" =>
               data' = data \cup Wrote(t) /\ ~log[t].reentered,
           log'[t].outcome # "returned" => data' = data,
           ~token'[t], \A u \in Tx : token'[u] => token[u],
           active' = [active EXCEPT ![log[t].by] = FALSE]
    PROVE  TxInv'
<1>1. ASSUME NEW u \in Tx, u # t
      PROVE  log'[u] = log[u] /\ ~IsOpen(u) /\ Left(u)' = Left(u)
  <2>1. log'[u] = log[u] /\ ~IsOpen(u)
    BY <1>1 DEF LogsOnly, TxInv, Typed
  <2>2. data' = data \/ data' = data \cup Wrote(t)
    OBVIOUS
  <2>3. \A w \in Wrote(t) : w[1] = t
    BY DEF Wrote
  <2>4. QED
    BY <1>1, <2>1, <2>2, <2>3 DEF Left
<1>2. SoundTx(t)'
  <2>1. SoundTx(t) /\ Left(t) = {} /\ log[t].by # None
    BY DEF TxInv, SoundTx, IsOpen
  <2>2. Wrote(t)' = Wrote(t)
    BY DEF Wrote
  <2>3. \A w \in Wrote(t) : w[1] = t
    BY DEF Wrote
  <2>4. Left(t)' = IF log'[t].outcome = "returned" THEN Wrote(t) ELSE {}
    BY <2>1, <2>3 DEF Left
  <2>5. QED
    BY <2>1, <2>2, <2>4 DEF SoundTx, IsOpen
<1>3. ASSUME NEW u \in Tx, u # t PROVE SoundTx(u)'
  BY <1>1, <1>3, StaysSound DEF TxInv
<1>4. \A u \in Tx : ~IsOpen(u)'
  BY <1>1 DEF IsOpen
<1>5. \A p \in Process : ~active'[p]
  BY OpenHolds DEF LockInv, Typed
<1>6. QED
  BY <1>2, <1>3, <1>4, <1>5 DEF TxInv

-----------------------------------------------------------------------------
(* A write of the open transaction goes to what it would leave.             *)
LEMMA OneMoreWrite ==
    ASSUME Typed, LockInv, TxInv, NEW t \in Tx, IsOpen(t), NEW p \in Process, log[t].by = p,
           log' = [log EXCEPT ![t].made = log[t].made + 1],
           work' = [work EXCEPT ![p].data = @ \cup {<<t, log[t].made + 1>>}],
           UNCHANGED <<data, token, active, poisoned>>
    PROVE  TxInv'
<1>1. log[t] \in Entry /\ log[t].made \in Nat /\ log[t].made + 1 \in Nat
  BY DEF Typed, Entry
<1>2. /\ LogsOnly(t) /\ log'[t].by = p /\ log'[t].outcome = "open"
      /\ log'[t].made = log[t].made + 1
      /\ log'[t].reentered = log[t].reentered
  <2>1. LogsOnly(t)
    BY <1>1, LogWrites DEF Outcome
  <2>2. QED
    BY <1>1, <2>1 DEF IsOpen, Typed, Entry
<1>3. Wrote(t)' = Wrote(t) \cup {<<t, log[t].made + 1>>}
  <2>1. 1..(log[t].made + 1) = 1..log[t].made \cup {log[t].made + 1}
    BY <1>1
  <2>2. QED
    BY <1>2, <2>1 DEF Wrote
<1>4. work'[p].data = work[p].data \cup {<<t, log[t].made + 1>>}
  BY DEF Typed
<1>5. RunningTx(t)'
  <2>1. RunningTx(t)
    BY DEF TxInv
  <2>2. QED
    BY <1>2, <1>3, <1>4, <2>1 DEF RunningTx
<1>6. QED
  BY <1>2, <1>5, InsideTransaction

(* A transaction begins where none is open, with the file and no write.     *)
LEMMA Beginning ==
    ASSUME Typed, LockInv, TxInv, NEW p \in Process, Begin(p)
    PROVE  TxInv'
<1>1. PICK t \in Unused : /\ log' = [log EXCEPT ![t].by = p, ![t].outcome = "open"]
                         /\ token' = [token EXCEPT ![t] = TRUE]
  BY UnusedExists DEF Begin
<1>2. /\ t \in Tx /\ SoundTx(t) /\ log[t].outcome = "none" /\ log[t].made = 0
      /\ ~log[t].reentered /\ log[t] \in Entry
  BY DEF Unused, TxInv, SoundTx, Typed
<1>3. \A u \in Tx : ~IsOpen(u)
  BY OpenHolds, StoreAssumption DEF Begin, BeginImmediate
<1>4. /\ log'[t].by = p /\ log'[t].outcome = "open" /\ log'[t].made = 0
      /\ ~log'[t].reentered /\ \A u \in Tx \ {t} : log'[u] = log[u] /\ token'[u] = token[u]
  BY <1>1, <1>2 DEF Typed, Entry
<1>5. data' = data /\ active' = [active EXCEPT ![p] = TRUE] /\ work'[p].data = data
  BY DEF Begin, file, Typed
<1>6. SoundTx(t)'
  BY <1>2, <1>4, <1>5, StoreAssumption DEF SoundTx, Left, IsOpen
<1>7. RunningTx(t)'
  BY <1>4, <1>5 DEF RunningTx, Wrote, Typed
<1>8. ASSUME NEW u \in Tx, u # t PROVE SoundTx(u)' /\ ~IsOpen(u)'
  <2>1. ~IsOpen(u) /\ SoundTx(u) /\ log'[u] = log[u] /\ token'[u] = token[u]
    BY <1>3, <1>4, <1>8 DEF TxInv
  <2>2. SoundTx(u)'
    BY <1>5, <2>1, StaysSound DEF Left
  <2>3. QED
    BY <2>1, <2>2 DEF IsOpen
<1>9. \A q \in Process : active'[q] => q = p
  <2>1. \A q \in Process : ~active[q]
    BY <1>3 DEF TxInv
  <2>2. QED
    BY <1>5, <2>1 DEF Typed
<1>10. QED
  BY <1>2, <1>4, <1>6, <1>7, <1>8, <1>9 DEF TxInv, IsOpen

(* A death ends the open transaction of the process, if it has one.         *)
LEMMA Dying ==
    ASSUME Typed, LockInv, TxInv, NEW p \in Process, Die(p)
    PROVE  TxInv'
<1>1. /\ data' = data /\ work' = work
      /\ active' = [active EXCEPT ![p] = FALSE]
      /\ poisoned' = [poisoned EXCEPT ![p] = FALSE]
      /\ \A u \in Tx : token'[u] => token[u] /\ log[u].by # p
      /\ \A u \in Tx : ~(log[u].by = p /\ IsOpen(u)) => log'[u] = log[u]
      /\ log' = [u \in Tx |-> log'[u]]
  BY DEF Die, file, IsOpen
<1>2. CASE ~active[p]
  <2>1. \A u \in Tx : log[u].by = p => ~IsOpen(u)
    BY <1>2, OpenHolds
  <2>2. log' = log
    <3>1. \A u \in Tx : log'[u] = log[u]
      BY <1>1, <2>1
    <3>2. QED
      BY <1>1, <3>1 DEF Typed
  <2>3. active' = active
    BY <1>1, <1>2 DEF Typed
  <2>4. \A q \in Process : active[q] => poisoned'[q] = poisoned[q]
    BY <1>1, <1>2 DEF Typed
  <2>5. QED
    BY <1>1, <2>2, <2>3, <2>4, NoTransaction
<1>3. CASE active[p]
  <2>1. PICK t \in Tx : IsOpen(t) /\ log[t].by = p
    BY <1>3 DEF TxInv
  <2>2. \A u \in Tx \ {t} : log'[u] = log[u]
    BY <1>1, <2>1 DEF TxInv
  <2>3. log[t] \in Entry /\ log'[t] = [log[t] EXCEPT !.outcome = "died"]
    BY <2>1 DEF Die, IsOpen, Typed
  <2>4. /\ log'[t] \in Entry /\ log'[t].outcome = "died" /\ log'[t].by = log[t].by
        /\ log'[t].made = log[t].made /\ log'[t].reentered = log[t].reentered
    BY <2>3 DEF Entry, Outcome
  <2>5. LogsOnly(t)
    <3>1. [log EXCEPT ![t] = log'[t]] = [u \in Tx |-> IF u = t THEN log'[t] ELSE log[u]]
      BY DEF Typed
    <3>2. log' = [u \in Tx |-> IF u = t THEN log'[t] ELSE log[u]]
      BY <1>1, <2>2
    <3>3. QED
      BY <2>4, <3>1, <3>2 DEF LogsOnly
  <2>6. QED
    BY <1>1, <2>1, <2>4, <2>5, EndOfTransaction
<1>4. QED
  BY <1>2, <1>3

(* The end that the code gives to a transaction.                            *)
LEMMA Ending ==
    ASSUME Typed, LockInv, TxInv, NEW p \in Process, Return(p) \/ Throw(p)
    PROVE  TxInv'
<1>1. PICK t \in Tx : t = Current(p) /\ IsOpen(t) /\ log[t].by = p
  BY CurrentIsOpen DEF Return, Throw
<1>2. PICK o \in {"returned", "threw"} : End(p, o) /\ (o = "returned" => ~poisoned[p])
  BY DEF Return, Throw
<1>3. log[t] \in Entry /\ log' = [log EXCEPT ![t].outcome = o]
  BY <1>1, <1>2 DEF End, Typed
<1>4. /\ LogsOnly(t) /\ log'[t].outcome = o /\ log'[t].by = log[t].by
      /\ log'[t].made = log[t].made /\ log'[t].reentered = log[t].reentered
  <2>1. LogsOnly(t)
    BY <1>3, LogWrites DEF Outcome
  <2>2. QED
    BY <1>3, <2>1 DEF Typed, Entry
<1>5. work[p].data = data \cup Wrote(t) /\ (log[t].reentered => poisoned[p])
  BY <1>1 DEF TxInv, RunningTx
<1>6. data' = IF o = "returned" THEN data \cup Wrote(t) ELSE data
  BY <1>2, <1>5 DEF End
<1>7. token' = [token EXCEPT ![t] = FALSE] /\ active' = [active EXCEPT ![p] = FALSE]
  BY <1>1, <1>2 DEF End, Revoked
<1>8. ~token'[t] /\ \A u \in Tx : token'[u] => token[u]
  BY <1>7 DEF Typed
<1>9. o = "returned" => ~log[t].reentered
  BY <1>2, <1>5
<1>10. QED
  BY <1>1, <1>2, <1>4, <1>6, <1>7, <1>8, <1>9, EndOfTransaction

LEMMA Transacting ==
    ASSUME Typed, LockInv, TxInv, Next
    PROVE  TxInv'
<1> PICK p \in Process :
        \/ Open(p) \/ BeginMigrations(p) \/ Upgrade(p) \/ CommitMigrations(p)
        \/ SelectKey(p) \/ MigrateFails(p)
        \/ Begin(p) \/ \E t \in Tx : CallFacade(p, t)
        \/ Reenter(p) \/ SaveDiscoveredCandidate(p) \/ Return(p) \/ Throw(p)
        \/ Close(p) \/ Die(p) \/ Restart(p)
  BY DEF Next
<1>1. CASE BeginMigrations(p) \/ Upgrade(p)
  <2>1. /\ UNCHANGED <<data, log, token, active, poisoned>>
        /\ \E l : work' = [work EXCEPT ![p].ledger = l]
    BY <1>1 DEF BeginMigrations, Upgrade
  <2>2. \A q \in Process : work'[q].data = work[q].data
    BY <2>1 DEF Typed
  <2>3. QED
    BY <2>1, <2>2, NoTransaction
<1>2. CASE Open(p) \/ CommitMigrations(p) \/ SelectKey(p) \/ MigrateFails(p) \/ Close(p)
  <2>1. UNCHANGED <<data, log, token, active, poisoned, work>>
    BY <1>2 DEF Open, CommitMigrations, SelectKey, MigrateFails, Close, file
  <2>2. QED
    BY <2>1, NoTransaction
<1>3. ASSUME NEW t \in Tx, CallFacade(p, t) PROVE TxInv'
  <2>1. CASE token[t]
    <3>1. IsOpen(t) /\ log[t].by = p /\ active[p]
      BY <1>3, <2>1, OpenHolds DEF CallFacade, TxInv, SoundTx
    <3>2. /\ log' = [log EXCEPT ![t].made = log[t].made + 1]
          /\ work' = [work EXCEPT ![p].data = @ \cup {<<t, log[t].made + 1>>}]
          /\ UNCHANGED <<data, token, active, poisoned>>
      BY <1>3, <2>1, <3>1 DEF CallFacade
    <3>3. QED
      BY <3>1, <3>2, OneMoreWrite
  <2>2. CASE ~token[t]
    <3>1. UNCHANGED <<data, work, log, token, active, poisoned>>
      BY <1>3, <2>2 DEF CallFacade
    <3>2. QED
      BY <3>1, NoTransaction
  <2>3. QED
    BY <2>1, <2>2
<1>4. CASE Reenter(p)
  <2>1. PICK t \in Tx : t = Current(p) /\ IsOpen(t) /\ log[t].by = p
    BY <1>4, CurrentIsOpen DEF Reenter
  <2>2. log[t] \in Entry /\ log' = [log EXCEPT ![t].reentered = TRUE]
    BY <1>4, <2>1 DEF Reenter, Typed
  <2>3. /\ LogsOnly(t) /\ log'[t].outcome = "open" /\ log'[t].by = log[t].by
        /\ log'[t].made = log[t].made
    <3>1. LogsOnly(t)
      BY <2>2, LogWrites DEF Outcome
    <3>2. QED
      BY <2>1, <2>2, <3>1 DEF Typed, Entry, IsOpen
  <2>4. UNCHANGED <<data, token, active, work>> /\ poisoned'[p] = TRUE
    BY <1>4 DEF Reenter, file, Typed
  <2>5. RunningTx(t)'
    BY <2>1, <2>3, <2>4 DEF TxInv, RunningTx, Wrote
  <2>6. QED
    BY <2>1, <2>3, <2>4, <2>5, InsideTransaction
<1>5. CASE SaveDiscoveredCandidate(p)
  <2>1. PICK t \in Tx : t = Current(p) /\ IsOpen(t) /\ log[t].by = p
    BY <1>5, CurrentIsOpen DEF SaveDiscoveredCandidate
  <2>2. /\ log' = [log EXCEPT ![t].made = log[t].made + 1]
        /\ UNCHANGED <<data, token, active, poisoned>>
        /\ work' = [work EXCEPT ![p].data = @ \cup {<<t, log'[t].made>>}]
    BY <1>5, <2>1 DEF SaveDiscoveredCandidate, file
  <2>3. log'[t].made = log[t].made + 1
    BY <2>2 DEF Typed, Entry
  <2>4. QED
    BY <2>1, <2>2, <2>3, OneMoreWrite
<1>6. CASE Restart(p)
  <2>1. /\ UNCHANGED <<data, log, active, poisoned, work>>
        /\ \A t \in Tx : token'[t] => token[t]
    BY <1>6 DEF Restart, file
  <2>2. QED
    BY <2>1, NoTransaction
<1>7. CASE Begin(p) \/ Return(p) \/ Throw(p) \/ Die(p)
  BY <1>7, Beginning, Ending, Dying
<1>8. QED
  BY <1>1, <1>2, <1>3, <1>4, <1>5, <1>6, <1>7

-----------------------------------------------------------------------------
LEMMA InitStore == Init => StoreInv
<1> SUFFICES ASSUME Init PROVE StoreInv
  OBVIOUS
<1> USE DEF Init
<1>1. Typed
  <2>1. log \in [Tx -> Entry]
    BY DEF Entry, Outcome
  <2>2. \A p \in Process : DOMAIN work[p] = {"data", "ledger"} /\ work[p].ledger = << >>
    OBVIOUS
  <2>3. << >> \in Seq(Migration)
    OBVIOUS
  <2>4. QED
    BY <2>1, <2>2, <2>3 DEF Typed, Stage
<1>2. LockInv
  BY StoreAssumption DEF LockInv
<1>3. TxInv
  BY DEF TxInv, SoundTx, IsOpen, Left
<1>4. SchemaInv /\ KeyInv
  BY DEF SchemaInv, KeyInv
<1>5. QED
  BY <1>1, <1>2, <1>3, <1>4 DEF StoreInv

LEMMA Storing == StoreInv /\ [Next]_vars => StoreInv'
<1>1. CASE Next
  BY <1>1, Typing, Locking, Transacting, Migrating, Keying DEF StoreInv
<1>2. CASE UNCHANGED vars
  <2> USE <1>2 DEF vars
  <2>1. Typed' = Typed /\ LockInv' = LockInv
    BY DEF Typed, LockInv
  <2>2. SchemaInv' = SchemaInv /\ KeyInv' = KeyInv
    BY DEF SchemaInv, KeyInv
  <2>3. TxInv' = TxInv
    BY DEF TxInv, SoundTx, RunningTx, IsOpen, Left, Wrote
  <2>4. QED
    BY <2>1, <2>2, <2>3 DEF StoreInv
<1>3. QED
  BY <1>1, <1>2

LEMMA StoreKept == Spec => []StoreInv
BY InitStore, Storing, PTL DEF Spec

(* A transaction that returned has left all its writes in the file, any     *)
(* other one none, and one that called the store did not return: whatever   *)
(* callbacks do and whenever processes die (withTransaction).               *)
THEOREM WholeOrNothing == Spec => []AllOrNothing
<1>1. StoreInv => AllOrNothing
  BY DEF StoreInv, TxInv, SoundTx, Left, Wrote, AllOrNothing
<1>2. QED
  BY <1>1, StoreKept, PTL

(* However many processes start and die at once, all sign with the key of   *)
(* the file (getOrCreateCursorSigningKey).                                  *)
THEOREM KeyIsOne == Spec => []OneKey
<1>1. StoreInv => OneKey
  BY DEF StoreInv, KeyInv, OneKey
<1>2. QED
  BY <1>1, StoreKept, PTL

(* The schema only goes from one version to a later one of the same line,   *)
(* of which it is the beginning (migrateSqliteDatabase).                    *)
THEOREM SchemaIsWhole == Spec => SchemaGrowsWhole
<1> DEFINE A == ledger' # ledger => IsPrefix(ledger, ledger') /\ ledger' \in Binaries
<1>1. ASSUME StoreInv, Next, ledger' # ledger PROVE A
  <2>1. PICK p \in Process : CommitMigrations(p)
    BY <1>1 DEF Next, Open, BeginMigrations, Upgrade, SelectKey, MigrateFails,
       Begin, CallFacade, Reenter, SaveDiscoveredCandidate, Return, Throw, End,
       Close, Die, Restart, file
  <2>2. ledger' = work[p].ledger /\ work[p].ledger = binary[p] /\ binary[p] \in Binaries
    BY <1>1, <2>1 DEF CommitMigrations, Fits, IsStrictPrefix, StoreInv, Typed
  <2>3. IsPrefix(ledger, work[p].ledger)
    BY <1>1, <2>1 DEF CommitMigrations, StoreInv, SchemaInv
  <2>4. QED
    BY <2>2, <2>3
<1>2. StoreInv /\ [Next]_vars => [A]_vars
  BY <1>1 DEF vars
<1>3. QED
  BY <1>2, StoreKept, PTL DEF Spec, SchemaGrowsWhole

-----------------------------------------------------------------------------
(***************************************************************************)
(* The rows of the file that tell of a run.  Their three guards agree: the  *)
(* parsers and the tables accept the same entries, and whatever the         *)
(* conditions of the repository's methods let through, the tables and their *)
(* triggers accept, whatever sequence of calls, crashes and recoveries came *)
(* before.                                                                  *)
(***************************************************************************)

VARIABLE rec

RowSpec == rec = Created /\ [][Write(rec, rec')]_rec

\* Whatever row the parser of domain/run.ts takes, the CHECKs of the table take,
\* and conversely: no row can be written that cannot be read back.
THEOREM ParserAndTableAgree ==
    /\ \A x \in Entries(Nat, Nat, Nat) : ParsedRow(x) <=> TableRow(x)
    /\ \A x \in Entries(Nat, Nat, Nat) : ParsedAttempt(x) <=> TableAttempt(x)
    /\ \A x \in Events(Nat, Nat, Nat) : ParsedEvent(x) <=> TableEvent(x)
    /\ \A x \in Runs(Nat) : ParsedRun(x) <=> TableRun(x)
<1>1. ASSUME NEW x \in Entries(Nat, Nat, Nat)
      PROVE  ParsedRow(x) <=> TableRow(x)
  BY <1>1 DEF Entries, Error, ParsedRow, TableRow, OptionalErrorJson, ErrorIs, InOrder
<1>2. ASSUME NEW x \in Entries(Nat, Nat, Nat)
      PROVE  ParsedAttempt(x) <=> TableAttempt(x)
  BY <1>2 DEF Entries, Error, ParsedAttempt, TableAttempt, OptionalErrorJson,
              ErrorIs, InOrder
<1>3. ASSUME NEW x \in Events(Nat, Nat, Nat)
      PROVE  ParsedEvent(x) <=> TableEvent(x)
  BY <1>3 DEF Events, Error, ParsedEvent, TableEvent, OptionalErrorJson, ErrorIs
<1>4. ASSUME NEW x \in Runs(Nat)
      PROVE  ParsedRun(x) <=> TableRun(x)
  BY <1>4 DEF Runs, RunState, Closed, ParsedRun, TableRun, InOrder
<1>. QED  BY <1>1, <1>2, <1>3, <1>4

\* The second migration only widens what may be reconciled: an event that the
\* first version's trigger lets in, the second's lets in.
THEOREM MigrationKeepsEvents ==
    ASSUME NEW row, NEW attempt, NEW event, EventOfUnresolved(row, attempt, event)
    PROVE  EventOfReconcilable(row, attempt, event)
BY DEF EventOfUnresolved, EventOfReconcilable

----------------------------------------------------------------------------
(* The methods, one lemma each.                                             *)

IRec == rec \in Records /\ Sound(rec)

RowSafe(old, new) ==
    new \in Records /\ Sound(new) /\ Accepted(old, new) /\ KeepsHistory(old, new)

\* The CHECKs of the tables need no look of their own at a sound record.
LEMMA SoundFitsTheTables ==
    ASSUME NEW r \in Records, Sound(r)
    PROVE  /\ TableRow(r.row)
           /\ r.attempt.attempt >= 1 => TableAttempt(r.attempt)
           /\ r.event.number >= 1 => TableEvent(r.event)
<1>1. r.row \in Entries(Nat, Nat, Nat) /\ r.attempt \in Entries(Nat, Nat, Nat)
      /\ r.event \in Events(Nat, Nat, Nat)
  BY DEF Records
<1>. QED  BY <1>1, ParserAndTableAgree DEF Sound, Readable

\* startRunOperation appends a running attempt to a pending row.
LEMMA StartIsSafe ==
    ASSUME NEW r \in Records, Sound(r), NEW now \in Nat \ {Null}, CanStart(r)
    PROVE  RowSafe(r, Start(r, now))
<1>. DEFINE new == Start(r, now)
<1>1. new \in Records
  BY DEF Records, Entries, Start, Running, Status, Reconciliation, Error, Null
<1>2. Sound(new)
  BY DEF Records, Entries, Events, Sound, Readable, Start, Running, ParsedRow,
         ParsedAttempt, InOrder, Null
<1>3. Accepted(r, new)
  <2>1. new.attempt.attempt = r.attempt.attempt + 1 /\ new.event = r.event
    BY DEF Records, Entries, Start, Running, Sound
  <2>2. AttemptOfItsRow(new.row, new.attempt)
    BY DEF AttemptOfItsRow, Start, Running
  <2>3. FollowsTheEvent(r.row, new.row, new.event)
    BY DEF FollowsTheEvent, Unresolved, NotApplied, CanStart
  <2>4. r.attempt.attempt \in Nat
    BY DEF Records, Entries
  <2>. QED  BY <1>1, <1>2, <2>1, <2>2, <2>3, <2>4, SoundFitsTheTables DEF Accepted
<1>4. KeepsHistory(r, new)
  BY DEF KeepsHistory, Sound, Records, Entries, Start, Running
<1>. QED  BY <1>1, <1>2, <1>3, <1>4 DEF RowSafe

\* retryRunOperation puts a refused row back and touches neither log.
LEMMA RetryIsSafe ==
    ASSUME NEW r \in Records, Sound(r), NEW max \in Nat, CanRetry(r, max)
    PROVE  RowSafe(r, Retry(r))
<1>. DEFINE new == Retry(r)
<1>1. new \in Records
  BY DEF Records, Entries, Retry, PendingRow, Status, Reconciliation, Error, Null
<1>2. Sound(new)
  BY DEF Records, Entries, Events, Sound, Readable, Retry, PendingRow, ParsedRow,
         ParsedAttempt, InOrder, Null, CanRetry, NotApplied
<1>3. new.attempt = r.attempt /\ new.event = r.event
  BY DEF Retry
<1>4. FollowsTheEvent(r.row, new.row, new.event)
  BY DEF FollowsTheEvent, Unresolved, CanRetry, NotApplied, Retry, PendingRow
<1>5. Accepted(r, new)
  BY <1>1, <1>2, <1>3, <1>4, SoundFitsTheTables DEF Accepted
<1>. QED  BY <1>1, <1>2, <1>3, <1>5 DEF RowSafe, KeepsHistory

\* finishRunOperation before the dispatch: the row ends, no attempt is touched.
LEMMA FinishUnsentIsSafe ==
    ASSUME NEW r \in Records, Sound(r), NEW o \in Outcomes(Nat, Nat),
           CanFinishUnsent(r, o)
    PROVE  RowSafe(r, FinishedUnsent(r, o))
<1>. DEFINE new == FinishedUnsent(r, o)
<1>1. new \in Records
  BY DEF Records, Entries, Outcomes, FinishedUnsent, Ended, Null
<1>2. Sound(new)
  BY DEF Records, Entries, Events, Sound, Readable, FinishedUnsent, Ended,
         Null, CanFinishUnsent, BeforeDispatch, NotApplied
<1>3. new.attempt = r.attempt /\ new.event = r.event
  BY DEF FinishedUnsent
<1>4. FollowsTheEvent(r.row, new.row, new.event)
  BY DEF FollowsTheEvent, Unresolved, NotApplied, CanFinishUnsent
<1>5. Accepted(r, new)
  BY <1>1, <1>2, <1>3, <1>4, SoundFitsTheTables DEF Accepted
<1>. QED  BY <1>1, <1>2, <1>3, <1>5 DEF RowSafe, KeepsHistory

\* finishRunOperation after the dispatch: the attempt ends with the row, as a
\* CHECK of its own table admits it although only the row is parsed first.
LEMMA FinishSentIsSafe ==
    ASSUME NEW r \in Records, Sound(r), NEW o \in Outcomes(Nat, Nat),
           CanFinishSent(r, o)
    PROVE  RowSafe(r, FinishedSent(r, o))
<1>. DEFINE new == FinishedSent(r, o)
<1>1. new \in Records
  BY DEF Records, Entries, Outcomes, FinishedSent, Ended
<1>2. r.row.attempt >= 1 /\ r.attempt.started = r.row.started /\ r.row.started # Null
  BY DEF CanFinishSent, Sound, Readable, ParsedRow, Records, Entries
<1>3. ParsedAttempt(new.attempt)
  BY <1>2 DEF Records, Entries, Outcomes, FinishedSent, Ended, CanFinishSent,
     AfterDispatch, NotApplied, Unresolved, ParsedAttempt, InOrder, Null, Sound
<1>4. Sound(new)
  BY <1>2, <1>3 DEF Records, Entries, Events, Sound, Readable, FinishedSent, Ended,
     CanFinishSent, AfterDispatch, NotApplied, Unresolved
<1>5. new.attempt.attempt = r.attempt.attempt /\ new.event = r.event
  BY DEF FinishedSent, Ended
<1>6. FollowsTheEvent(r.row, new.row, new.event)
  BY DEF FollowsTheEvent, Unresolved, NotApplied, CanFinishSent
<1>7. new.attempt.attempt >= 1
  BY <1>5 DEF CanFinishSent
<1>8. Accepted(r, new)
  BY <1>1, <1>4, <1>5, <1>6, <1>7, SoundFitsTheTables DEF Accepted
<1>9. KeepsHistory(r, new)
  BY DEF KeepsHistory, CanFinishSent
<1>. QED  BY <1>1, <1>4, <1>8, <1>9 DEF RowSafe

\* reconcileRunOperation: the event is one the trigger takes, the row follows it
\* and stays in step with an attempt that ended earlier.
LEMMA ReconcileIsSafe ==
    ASSUME NEW r \in Records, Sound(r), NEW o \in Outcomes(Nat, Nat),
           CanReconcile(r, o)
    PROVE  RowSafe(r, Reconciled(r, o))
<1>. DEFINE new == Reconciled(r, o)
<1>1. new \in Records
  BY DEF Records, Entries, Events, Outcomes, Reconciled, EventOf
<1>2. /\ new.attempt = r.attempt /\ new.event = EventOf(r, o)
      /\ new.event.number = r.event.number + 1
      /\ new.event.attempt = r.row.attempt /\ r.attempt.attempt = r.row.attempt
      /\ r.attempt.attempt >= 1 /\ r.event.number \in Nat
  BY DEF Reconciled, EventOf, CanReconcile, Sound, Records, Entries, Events
<1>3. Sound(new)
  <2>1. Readable(new)
    BY <1>2 DEF Readable, CanReconcile, Sound
  <2>2. new.row.attempt = r.row.attempt /\ new.row.status # "running"
    BY DEF Reconciled, CanReconcile, ParsedEvent, EventOf
  <2>3. r.attempt.status \in {"failed", "unresolved"}
    BY DEF CanReconcile, Unresolved, NotApplied
  <2>4. r.row.attempt \in Nat
    BY DEF Records, Entries
  <2>. QED  BY <1>2, <2>1, <2>2, <2>3, <2>4 DEF Sound
<1>4. EventOfReconcilable(r.row, r.attempt, new.event)
  <2>1. r.attempt.finished # Null
    BY <1>2 DEF Sound, Readable, ParsedAttempt, CanReconcile, Unresolved, NotApplied
  <2>2. new.event.observed = o.finished
    BY DEF Reconciled, EventOf
  <2>. QED  BY <1>2, <2>1, <2>2 DEF CanReconcile, EventOfReconcilable, OfItsAttempt
<1>5. FollowsTheEvent(r.row, new.row, new.event)
  BY <1>2 DEF FollowsTheEvent, Reconciled, EventOf
<1>6. Accepted(r, new)
  BY <1>1, <1>2, <1>3, <1>4, <1>5, SoundFitsTheTables DEF Accepted
<1>. QED  BY <1>1, <1>2, <1>3, <1>6 DEF RowSafe, KeepsHistory

\* Recovery: a pending row ends unsent, a running one with its attempt.
LEMMA RecoveryIsSafe ==
    ASSUME NEW r \in Records, Sound(r), NEW now \in Nat \ {Null}, CanRecover(r, now)
    PROVE  RowSafe(r, Recovered(r, now))
<1>1. CASE r.row.status = "pending"
  <2>1. NeverSent(now) \in Outcomes(Nat, Nat)
    BY DEF NeverSent, Outcomes, Status, Reconciliation, Error, Null
  <2>2. CanFinishUnsent(r, NeverSent(now))
    BY <1>1 DEF CanFinishUnsent, BeforeDispatch, NeverSent, NotApplied,
       FinishedUnsent, Ended, ParsedRow, InOrder, Null
  <2>. QED  BY <1>1, <2>1, <2>2, FinishUnsentIsSafe DEF Recovered
<1>2. CASE r.row.status = "running"
  <2>1. Interrupted(now) \in Outcomes(Nat, Nat)
    BY DEF Interrupted, Outcomes, Status, Reconciliation, Error, Null
  <2>2. r.row.attempt >= 1 /\ r.row.started \in Nat
    BY <1>2, SMTT(30) DEF Sound, Readable, ParsedRow, Records, Entries
  <2>3. CanFinishSent(r, Interrupted(now))
    BY <1>2, <2>2 DEF CanFinishSent, CanRecover, AfterDispatch, Interrupted, Unresolved,
       NotApplied, FinishedSent, Ended, ParsedRow, InOrder, Null
  <2>. QED  BY <1>2, <2>1, <2>3, FinishSentIsSafe DEF Recovered
<1>3. CASE r.row.status \notin {"pending", "running"}
  <2>1. Recovered(r, now) = r
    BY <1>3 DEF Recovered
  <2>. QED  BY <2>1, SoundFitsTheTables DEF RowSafe, Accepted, KeepsHistory
<1>. QED  BY <1>1, <1>2, <1>3

LEMMA WriteIsSafe ==
    ASSUME NEW r \in Records, Sound(r), NEW new, Write(r, new)
    PROVE  RowSafe(r, new)
BY StartIsSafe, RetryIsSafe, FinishUnsentIsSafe, FinishSentIsSafe, ReconcileIsSafe,
   RecoveryIsSafe DEF Write, WriteIn

----------------------------------------------------------------------------
(* The record of an operation over its life.                                *)

LEMMA RecordStaysSound == RowSpec => []IRec
<1>1. rec = Created => IRec
  BY DEF IRec, Created, PendingRow, NoAttempt, NoEvent, Records, Entries, Events,
     Status, Reconciliation, Error, Sound, Readable, ParsedRow, InOrder, Null
<1>2. IRec /\ [Write(rec, rec')]_rec => IRec'
  BY WriteIsSafe DEF IRec, RowSafe
<1>. QED  BY <1>1, <1>2, PTL DEF RowSpec

\* Whatever the repository has written can be read back: no row, attempt or
\* event on record fails the parser, which would fail every later apply,
\* recovery and inspection of the run.
THEOREM RecordIsReadable == RowSpec => []Readable(rec)
<1>1. IRec => Readable(rec)
  BY DEF IRec, Sound
<1>. QED  BY <1>1, RecordStaysSound, PTL

\* No write that the conditions of the repository's methods let through is
\* refused by a CHECK, a trigger or the key of a log.
THEOREM WritesAreAccepted ==
    RowSpec => InsertedPending(rec.row) /\ [][Accepted(rec, rec')]_rec
<1>0. rec = Created => InsertedPending(rec.row)
  BY DEF Created, PendingRow, InsertedPending
<1>1. IRec /\ [Write(rec, rec')]_rec => [Accepted(rec, rec')]_rec
  BY WriteIsSafe DEF IRec, RowSafe
<1>. QED  BY <1>0, <1>1, RecordStaysSound, PTL DEF RowSpec

\* The log of dispatches is only appended to once an attempt has ended: no later
\* call, recovery or observation rewrites what an attempt was seen to do.
THEOREM HistoryIsKept == RowSpec => [][KeepsHistory(rec, rec')]_rec
<1>1. IRec /\ [Write(rec, rec')]_rec => [KeepsHistory(rec, rec')]_rec
  BY WriteIsSafe DEF IRec, RowSafe
<1>. QED  BY <1>1, RecordStaysSound, PTL DEF RowSpec

\* A run that moves along the table of transitions, or is recovered from pending
\* or running, is a row that can be read back.
THEOREM MovedRunIsReadable ==
    ASSUME NEW x \in Runs(Nat), ParsedRun(x), NEW next \in RunState,
           NEW finished \in Nat,
           \/ CanMoveRun(x, next, finished)
           \/ CanRecoverRun(x, finished) /\ next = "partial"
    PROVE  ParsedRun(MovedRun(x, next, finished)) /\ TableRun(MovedRun(x, next, finished))
<1>1. MovedRun(x, next, finished) \in Runs(Nat)
  BY DEF MovedRun, Runs
<1>2. ParsedRun(MovedRun(x, next, finished))
  BY DEF MovedRun, ParsedRun, InOrder, CanMoveRun, CanRecoverRun, Transitions, Closed,
         Runs, RunState, Null
<1>. QED  BY <1>1, <1>2, ParserAndTableAgree

----------------------------------------------------------------------------
(* Which decisions can be recorded.                                         *)

\* The rows that phase one of a resumed apply wants a decision for.
Wanted(x) ==
    \/ x.status = "unresolved"
    \/ NotApplied(x) /\ x.error = "retryable" /\ x.attempt >= 1

\* The error that goes with a decision: whether the operation may be tried again.
DecisionError(status) == CASE status = "succeeded" -> "none"
                           [] status = "failed" -> "retryable"
                           [] OTHER -> "final"

\* A decision with a state, no earlier than what it decides about.
Decision(r, o) ==
    /\ <<o.status, o.reconciliation>> \in
          {<<"succeeded", "confirmed_applied">>,
           <<"failed", "confirmed_not_applied">>, <<"unresolved", "unknown">>}
    /\ o.error = DecisionError(o.status)
    /\ o.after # Null
    /\ o.finished >= r.row.finished /\ o.finished >= r.attempt.finished

\* reconcileRunOperation takes the decision about a row that reconcileForResume
\* picked in all cases but two: the row was queued again and failed before its
\* next dispatch, or an observation left a row unresolved whose attempt had been
\* refused.  In those it throws, at every resume.
THEOREM DecisionIsTakenUnless ==
    ASSUME NEW r \in Records, Sound(r), Wanted(r.row),
           NEW o \in Outcomes(Nat, Nat), Decision(r, o)
    PROVE  CanReconcile(r, o) <=>
              /\ r.row.started # Null
              /\ r.row.status = "unresolved" => r.attempt.status = "unresolved"
<1>1. r.row.attempt >= 1 /\ r.attempt.attempt = r.row.attempt
  BY DEF Wanted, Sound, Readable, ParsedRow, Records, Entries
<1>2. ParsedRow(r.row) /\ ParsedAttempt(r.attempt)
  BY <1>1 DEF Sound, Readable
<1>3. r.row.finished # Null
  BY <1>2 DEF Wanted, NotApplied, ParsedRow
<1>4. r.attempt.status \in {"failed", "unresolved"}
  BY <1>1 DEF Sound, Wanted, NotApplied
<1>7. ParsedEvent(EventOf(r, o))
  BY <1>1, <1>3 DEF Decision, DecisionError, ParsedEvent, EventOf, Records, Events,
     Entries, Outcomes, Null
<1>5. CASE r.row.started = Null
  <2>1. ~ParsedRow(Reconciled(r, o).row)
    BY <1>5 DEF Reconciled, ParsedRow, Decision
  <2>. QED  BY <1>5, <2>1 DEF CanReconcile
<1>6. CASE r.row.started # Null
  <2>1. ParsedRow(Reconciled(r, o).row)
    BY <1>1, <1>2, <1>3, <1>6 DEF Reconciled, ParsedRow, InOrder, Decision,
       DecisionError, Records, Entries, Outcomes, Null
  <2>2. Unresolved(r.attempt) <=> r.attempt.status = "unresolved"
    BY <1>2 DEF ParsedAttempt, Unresolved
  <2>3. NotApplied(r.attempt) <=> r.attempt.status = "failed"
    BY <1>2 DEF ParsedAttempt, NotApplied
  <2>4. Unresolved(r.row) <=> r.row.status = "unresolved"
    BY <1>2 DEF ParsedRow, Unresolved
  <2>. QED  BY <1>1, <1>4, <1>6, <1>7, <2>1, <2>2, <2>3, <2>4
            DEF CanReconcile, Decision, Wanted, NotApplied
<1>. QED  BY <1>5, <1>6

-----------------------------------------------------------------------------
(***************************************************************************)
(* The lease row of the file, for any set of operations, any Ttl and any    *)
(* bounds: who was followed as its owner does nothing under it again, and   *)
(* until the clock is set back who trusts it owns it.                       *)
(***************************************************************************)

(* Every variable keeps its type: times are natural numbers, a guard is a   *)
(* time or NoGuard, and the row is owned by a scope or absent.              *)
THEOREM TypeCorrect == LeaseSpec => []TypeOK
<1> USE LeaseAssumption DEF TypeOK, Row, Phase, Health, NoGuard
<1>1. LeaseInit => TypeOK
  BY DEF LeaseInit, Absent
<1>2. TypeOK /\ [LeaseNext]_leaseVars => TypeOK'
  <2> SUFFICES ASSUME TypeOK, [LeaseNext]_leaseVars PROVE TypeOK'
    OBVIOUS
  <2>1. CASE Tick
    BY <2>1 DEF Tick, scopeVars, history
  <2>2. CASE StepBack
    BY <2>2 DEF StepBack, scopeVars, history
  <2>3. ASSUME NEW s \in Scope, Acquire(s) PROVE TypeOK'
    BY <2>3 DEF Acquire, Granted, history
  <2>4. ASSUME NEW s \in Scope, NoticeExpiry(s) PROVE TypeOK'
    BY <2>4 DEF NoticeExpiry, Lose, history
  <2>5. ASSUME NEW s \in Scope, FreshGuard(s) PROVE TypeOK'
    BY <2>5 DEF FreshGuard, Lose, history
  <2>6. ASSUME NEW s \in Scope, GuardedWrite(s) PROVE TypeOK'
    BY <2>6 DEF GuardedWrite, Act, history
  <2>7. ASSUME NEW s \in Scope, Renew(s) PROVE TypeOK'
    BY <2>7 DEF Renew, Lose, Granted, history
  <2>8. ASSUME NEW s \in Scope, Dispatch(s) PROVE TypeOK'
    BY <2>8 DEF Dispatch, Act, Granted
  <2>9. ASSUME NEW s \in Scope, HeartbeatFails(s) PROVE TypeOK'
    BY <2>9 DEF HeartbeatFails, history
  <2>10. ASSUME NEW s \in Scope, Cancel(s) PROVE TypeOK'
    BY <2>10 DEF Cancel, history
  <2>11. ASSUME NEW s \in Scope, Finish(s) PROVE TypeOK'
    BY <2>11 DEF Finish, Lose, history
  <2>12. ASSUME NEW s \in Scope, Release(s) PROVE TypeOK'
    BY <2>12 DEF Release, Absent, history
  <2>13. ASSUME NEW s \in Scope, Crash(s) PROVE TypeOK'
    BY <2>13 DEF Crash, history
  <2>14. CASE UNCHANGED leaseVars
    BY <2>14 DEF leaseVars
  <2>15. QED
    BY <2>1, <2>2, <2>3, <2>4, <2>5, <2>6, <2>7, <2>8, <2>9, <2>10, <2>11,
       <2>12, <2>13, <2>14 DEF LeaseNext, ScopeStep
<1>3. QED
  BY <1>1, <1>2, PTL DEF LeaseSpec

----------------------------------------------------------------------------
(* Fencing.  NoInterleavedWork is not inductive: it needs that a scope that *)
(* was followed can never own the row again, hence that whoever owned or    *)
(* acted once has left "idle", the only phase that acquires.                *)
FencingInv ==
    /\ NoInterleavedWork
    /\ lease.owner \notin retired
    /\ retired \subseteq Scope
    /\ \A s \in retired : phase[s] # "idle"
    /\ actor # Nobody => phase[actor] # "idle"
    /\ lease.owner # Nobody => phase[lease.owner] # "idle"

(* Once another operation's work was accepted, no earlier owner's write or  *)
(* dispatch is accepted again: assertLease and renewLease check the owner.  *)
THEOREM Fencing == LeaseSpec => []NoInterleavedWork
<1> USE LeaseAssumption DEF FencingInv, NoInterleavedWork
<1>1. LeaseInit => FencingInv
  BY DEF LeaseInit, Absent
<1>2. TypeOK /\ FencingInv /\ [LeaseNext]_leaseVars => FencingInv'
  <2> SUFFICES ASSUME TypeOK, FencingInv, [LeaseNext]_leaseVars PROVE FencingInv'
    OBVIOUS
  <2> USE DEF TypeOK, Row, Phase
  <2>1. CASE Tick
    BY <2>1 DEF Tick, scopeVars, history
  <2>2. CASE StepBack
    BY <2>2 DEF StepBack, scopeVars, history
  <2>3. ASSUME NEW s \in Scope, Acquire(s) PROVE FencingInv'
    <3>1. s \notin retired
      BY <2>3 DEF Acquire
    <3>2. QED
      BY <2>3, <3>1 DEF Acquire, Granted, history
  <2>4. ASSUME NEW s \in Scope, NoticeExpiry(s) PROVE FencingInv'
    BY <2>4 DEF NoticeExpiry, history
  <2>5. ASSUME NEW s \in Scope, FreshGuard(s) PROVE FencingInv'
    BY <2>5 DEF FreshGuard, history
  <2>6. ASSUME NEW s \in Scope, GuardedWrite(s) PROVE FencingInv'
    <3>1. CASE UNCHANGED history
      BY <2>6, <3>1 DEF GuardedWrite, history
    <3>2. CASE Asserted(s, guard[s]) /\ Act(s)
      <4>1. lease.owner = s /\ s \notin retired /\ s # Nobody
        BY <3>2 DEF Asserted
      <4>2. QED
        BY <2>6, <3>2, <4>1 DEF GuardedWrite, Act
    <3>3. QED
      BY <2>6, <3>1, <3>2 DEF GuardedWrite
  <2>7. ASSUME NEW s \in Scope, Renew(s) PROVE FencingInv'
    BY <2>7 DEF Renew, Renewable, Asserted, Granted, history
  <2>8. ASSUME NEW s \in Scope, Dispatch(s) PROVE FencingInv'
    <3>1. lease.owner = s /\ s \notin retired /\ s # Nobody
      BY <2>8 DEF Dispatch, Renewable, Asserted
    <3>2. QED
      BY <2>8, <3>1 DEF Dispatch, Act, Granted
  <2>9. ASSUME NEW s \in Scope, HeartbeatFails(s) PROVE FencingInv'
    BY <2>9 DEF HeartbeatFails, history
  <2>10. ASSUME NEW s \in Scope, Cancel(s) PROVE FencingInv'
    BY <2>10 DEF Cancel, history
  <2>11. ASSUME NEW s \in Scope, Finish(s) PROVE FencingInv'
    BY <2>11 DEF Finish, history
  <2>12. ASSUME NEW s \in Scope, Release(s) PROVE FencingInv'
    BY <2>12 DEF Release, Absent, history
  <2>13. ASSUME NEW s \in Scope, Crash(s) PROVE FencingInv'
    BY <2>13 DEF Crash, history
  <2>14. CASE UNCHANGED leaseVars
    BY <2>14 DEF leaseVars
  <2>15. QED
    BY <2>1, <2>2, <2>3, <2>4, <2>5, <2>6, <2>7, <2>8, <2>9, <2>10, <2>11,
       <2>12, <2>13, <2>14 DEF LeaseNext, ScopeStep
<1>3. QED
  BY <1>1, <1>2, TypeCorrect, PTL DEF LeaseSpec

----------------------------------------------------------------------------
(* The local check.  It is the row's expiry that a sound scope has copied:  *)
(* nobody else can have replaced the row while that copy has not passed.    *)
LocalCopyInv ==
    back = 0 =>
      \A s \in Scope :
        phase[s] = "running" /\ health[s] # "lost" /\ clock < expires[s]
            => lease.owner = s /\ lease.expiresAt = expires[s]

(* Until the clock is set back, an operation that passes assertActive owns  *)
(* the row: two operations never both go on.                                *)
THEOREM TrustedOwner == LeaseSpec => []TrustImpliesOwner
<1> USE LeaseAssumption
<1>1. LeaseInit => LocalCopyInv
  BY DEF LeaseInit, LocalCopyInv
<1>2. TypeOK /\ LocalCopyInv /\ [LeaseNext]_leaseVars => LocalCopyInv'
  <2> SUFFICES ASSUME TypeOK, LocalCopyInv, [LeaseNext]_leaseVars PROVE LocalCopyInv'
    OBVIOUS
  <2> USE DEF TypeOK, Row, Phase, Health, LocalCopyInv
  <2>1. CASE Tick
    BY <2>1 DEF Tick, scopeVars, history
  <2>2. CASE StepBack
    BY <2>2 DEF StepBack
  <2>3. ASSUME NEW s \in Scope, Acquire(s) PROVE LocalCopyInv'
    BY <2>3 DEF Acquire, Acquirable, Granted
  <2>4. ASSUME NEW s \in Scope, NoticeExpiry(s) PROVE LocalCopyInv'
    BY <2>4 DEF NoticeExpiry, Lose
  <2>5. ASSUME NEW s \in Scope, FreshGuard(s) PROVE LocalCopyInv'
    BY <2>5 DEF FreshGuard, Lose, Asserted
  <2>6. ASSUME NEW s \in Scope, GuardedWrite(s) PROVE LocalCopyInv'
    BY <2>6 DEF GuardedWrite
  <2>7. ASSUME NEW s \in Scope, Renew(s) PROVE LocalCopyInv'
    BY <2>7 DEF Renew, Lose, Renewable, Asserted, Granted
  <2>8. ASSUME NEW s \in Scope, Dispatch(s) PROVE LocalCopyInv'
    BY <2>8 DEF Dispatch, Renewable, Asserted, Granted
  <2>9. ASSUME NEW s \in Scope, HeartbeatFails(s) PROVE LocalCopyInv'
    BY <2>9 DEF HeartbeatFails
  <2>10. ASSUME NEW s \in Scope, Cancel(s) PROVE LocalCopyInv'
    BY <2>10 DEF Cancel
  <2>11. ASSUME NEW s \in Scope, Finish(s) PROVE LocalCopyInv'
    BY <2>11 DEF Finish, Lose
  <2>12. ASSUME NEW s \in Scope, Release(s) PROVE LocalCopyInv'
    BY <2>12 DEF Release, Releasable, Absent
  <2>13. ASSUME NEW s \in Scope, Crash(s) PROVE LocalCopyInv'
    BY <2>13 DEF Crash
  <2>14. CASE UNCHANGED leaseVars
    BY <2>14 DEF leaseVars
  <2>15. QED
    BY <2>1, <2>2, <2>3, <2>4, <2>5, <2>6, <2>7, <2>8, <2>9, <2>10, <2>11,
       <2>12, <2>13, <2>14 DEF LeaseNext, ScopeStep
<1>3. LocalCopyInv => TrustImpliesOwner
  BY DEF LocalCopyInv, TrustImpliesOwner, Trusts
<1>4. QED
  BY <1>1, <1>2, <1>3, TypeCorrect, PTL DEF LeaseSpec

----------------------------------------------------------------------------
(* A step takes an active row from its owner only in that owner's release:  *)
(* acquireLease replaces expired rows, releaseLease deletes one's own.      *)
THEOREM GrantsLast == LeaseSpec => GrantIsNotCutShort
<1> USE LeaseAssumption
<1>1. ASSUME TypeOK, LeaseNext, NEW s \in Scope, lease.owner = s, lease'.owner # s
      PROVE  lease.expiresAt <= clock \/ phase[s] = "releasing"
  <2> USE <1>1 DEF TypeOK, Row
  <2>1. CASE Tick \/ StepBack
    BY <2>1 DEF Tick, StepBack
  <2>2. PICK t \in Scope : ScopeStep(t)
    BY <1>1, <2>1 DEF LeaseNext, Tick, StepBack
  <2>3. CASE Acquire(t)
    BY <2>3 DEF Acquire, Acquirable
  <2>4. CASE Renew(t) \/ Dispatch(t)
    BY <2>4 DEF Renew, Dispatch, Renewable, Asserted, Granted
  <2>5. CASE Release(t)
    BY <2>5 DEF Release, Releasable
  <2>6. CASE \/ NoticeExpiry(t) \/ FreshGuard(t) \/ GuardedWrite(t)
             \/ HeartbeatFails(t) \/ Cancel(t) \/ Finish(t) \/ Crash(t)
    BY <2>6 DEF NoticeExpiry, FreshGuard, GuardedWrite, HeartbeatFails,
                Cancel, Finish, Crash
  <2>7. QED
    BY <2>2, <2>3, <2>4, <2>5, <2>6 DEF ScopeStep
<1>2. TypeOK /\ [LeaseNext]_leaseVars
        => [\A s \in Scope : lease.owner = s /\ lease'.owner # s
              => lease.expiresAt <= clock \/ phase[s] = "releasing"]_leaseVars
  BY <1>1 DEF leaseVars
<1>3. QED
  BY <1>2, TypeCorrect, PTL DEF LeaseSpec, GrantIsNotCutShort

=============================================================================
