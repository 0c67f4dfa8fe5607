------------------------------- MODULE Store --------------------------------
(***************************************************************************)
(* The store of a server process (storage/sqlite-store.ts) over a database  *)
(* file that several processes share: opening it, migrating its schema      *)
(* (migrations.ts), choosing the key that signs cursors                     *)
(* (runtime-secret-repository.ts), and transactions whose callback is given *)
(* a facade and may do anything with it or with the store.                  *)
(*                                                                          *)
(* Inside a process everything is synchronous; processes interleave and die *)
(* between any two steps.  SQLite itself (a writer's lock, commit, rollback *)
(* of a dead process's transaction) is external.  The other modules take a  *)
(* transaction of the store for one step: here is why they may.             *)
(***************************************************************************)
EXTENDS Integers, SequencesExt

CONSTANTS
    Process,
    None,       \* no process
    Binaries,   \* the lists of migrations, by checksum, of the versions in use
    MaxTx,      \* bound: transactions
    MaxWrites,  \* bound: writes of one transaction
    MaxStarts   \* bound: processes started again after a death or an end

\* The migrations of all versions.
Migration == UNION {{b[i] : i \in DOMAIN b} : b \in Binaries}

ASSUME StoreAssumption ==
    /\ None \notin Process
    /\ {MaxTx, MaxWrites, MaxStarts} \subseteq Nat
    /\ Binaries \subseteq Seq(Migration) \ {<< >>}

Tx == 1..MaxTx

VARIABLES
    \* the file
    data,       \* committed writes: <<transaction, number>>
    ledger,     \* schema_migrations
    secret,     \* the cursor key, 0 before there is one
    lock,       \* the process in an immediate transaction
    \* a process
    binary,     \* its list of migrations
    lifecycle,  \* #lifecycle and, while migrating, how far it is
    key,        \* the key of its codec
    active,     \* #transactionActive
    poisoned,   \* #transactionPoisoned
    work,       \* what its open transaction would leave: data or ledger
    \* a transaction
    token,      \* its facade's token
    log,        \* history: whose it is, how it ended, how much it wrote
    \* history
    starts, keys

file == <<data, ledger, secret>>
vars == <<data, ledger, secret, lock, binary, lifecycle, key, active, poisoned,
          work, token, log, starts, keys>>

Opening == {"opened", "migrating", "migrated"}

\* A transaction that has not begun, and p's open one.
Unused == {t \in Tx : log[t].by = None}
Current(p) == CHOOSE t \in Tx : log[t].by = p /\ log[t].outcome = "open"

Init ==
    /\ data = {}
    /\ ledger = << >>
    /\ secret = 0
    /\ lock = None
    /\ binary \in [Process -> Binaries]
    /\ lifecycle = [p \in Process |-> "new"]
    /\ key = [p \in Process |-> 0]
    /\ active = [p \in Process |-> FALSE]
    /\ poisoned = [p \in Process |-> FALSE]
    /\ work = [p \in Process |-> [data |-> {}, ledger |-> << >>]]
    /\ token = [t \in Tx |-> FALSE]
    /\ log = [t \in Tx |-> [by |-> None, outcome |-> "none", made |-> 0,
                            reentered |-> FALSE]]
    /\ starts = 0
    /\ keys = 0

----------------------------------------------------------------------------
(* Mutated conditions: each is a plausible bug that some run rejects.       *)

RevokedIfReturned(p, outcome) ==
    token' = [token EXCEPT ![Current(p)] = outcome # "returned"]
OwnKey(mine) == mine
OneByOne(p) ==
    /\ lifecycle[p] = "migrating"
    /\ IsStrictPrefix(work[p].ledger, binary[p])
    /\ LET next == Append(work[p].ledger, binary[p][Len(work[p].ledger) + 1])
       IN  work' = [work EXCEPT ![p].ledger = next] /\ ledger' = next
    /\ UNCHANGED <<data, secret, lock, binary, lifecycle, key, active, poisoned,
                   token, log, starts, keys>>

----------------------------------------------------------------------------
(* migrate                                                                  *)

\* BEGIN IMMEDIATE: the write lock is taken before anything is read.
BeginImmediate(p) == lock = None /\ lock' = p

\* The directory and the file are there and the connection is set up.
Open(p) ==
    /\ lifecycle[p] = "new"
    /\ lifecycle' = [lifecycle EXCEPT ![p] = "opened"]
    /\ UNCHANGED <<data, ledger, secret, lock, binary, key, active, poisoned,
                   work, token, log, starts, keys>>

\* Every migration of the database must be the binary's own, in its place.
Fits(p) == IsPrefix(work[p].ledger, binary[p])

BeginMigrations(p) ==
    /\ lifecycle[p] = "opened"
    /\ BeginImmediate(p)
    /\ lifecycle' = [lifecycle EXCEPT ![p] = "migrating"]
    /\ work' = [work EXCEPT ![p].ledger = ledger]
    /\ UNCHANGED <<data, ledger, secret, binary, key, active, poisoned, token,
                   log, starts, keys>>

Upgrade(p) ==
    /\ lifecycle[p] = "migrating"
    /\ IsStrictPrefix(work[p].ledger, binary[p])
    /\ work' = [work EXCEPT ![p].ledger =
                  Append(@, binary[p][Len(@) + 1])]
    /\ UNCHANGED <<data, ledger, secret, lock, binary, lifecycle, key, active,
                   poisoned, token, log, starts, keys>>

CommitMigrations(p) ==
    /\ lifecycle[p] = "migrating"
    /\ Fits(p)
    /\ ~IsStrictPrefix(work[p].ledger, binary[p])
    /\ ledger' = work[p].ledger
    /\ lock' = None
    /\ lifecycle' = [lifecycle EXCEPT ![p] = "migrated"]
    /\ UNCHANGED <<data, secret, binary, key, active, poisoned, work, token,
                   log, starts, keys>>

\* INSERT ... ON CONFLICT DO NOTHING, and what is there then.
Selected(generated) == IF secret = 0 THEN generated ELSE secret

SelectKey(p) ==
    /\ lifecycle[p] = "migrated"
    /\ lock = None
    /\ keys' = keys + 1
    /\ secret' = Selected(keys')
    /\ key' = [key EXCEPT ![p] = Selected(keys')]
    /\ lifecycle' = [lifecycle EXCEPT ![p] = "ready"]
    /\ UNCHANGED <<data, ledger, lock, binary, active, poisoned, work, token,
                   log, starts>>

\* A step of migrate throws: drift, a newer database, the lock's timeout, the
\* state files, the disk.  The connection is closed; migrate may be called again.
MigrateFails(p) ==
    /\ lifecycle[p] \in Opening
    /\ lifecycle' = [lifecycle EXCEPT ![p] = "new"]
    /\ lock' = IF lock = p THEN None ELSE lock
    /\ UNCHANGED <<data, ledger, secret, binary, key, active, poisoned, work,
                   token, log, starts, keys>>

----------------------------------------------------------------------------
(* withTransaction                                                          *)

\* A busy lock only makes the call fail.
Begin(p) ==
    /\ lifecycle[p] = "ready"
    /\ ~active[p]
    /\ Unused # {}
    /\ LET t == CHOOSE t \in Unused : \A u \in Unused : t <= u
       IN  /\ log' = [log EXCEPT ![t].by = p, ![t].outcome = "open"]
           /\ token' = [token EXCEPT ![t] = TRUE]
    /\ BeginImmediate(p)
    /\ active' = [active EXCEPT ![p] = TRUE]
    /\ poisoned' = [poisoned EXCEPT ![p] = FALSE]
    /\ work' = [work EXCEPT ![p].data = data]
    /\ UNCHANGED <<file, binary, lifecycle, key, starts, keys>>

\* A method of the facade of t, the open transaction's or one that was kept:
\* it acts in the open transaction if there is one and by itself if not.
CallFacade(p, t) ==
    /\ log[t].by = p
    /\ log[t].made < MaxWrites
    /\ IF token[t]
       THEN LET write == {<<t, log[t].made + 1>>}
            IN  /\ log' = [log EXCEPT ![t].made = @ + 1]
                /\ IF active[p]
                   THEN work' = [work EXCEPT ![p].data = @ \cup write] /\ UNCHANGED data
                   ELSE /\ lock = None
                        /\ data' = data \cup write
                        /\ UNCHANGED work
       ELSE UNCHANGED <<data, work, log>>
    /\ UNCHANGED <<ledger, secret, lock, binary, lifecycle, key, active,
                   poisoned, token, starts, keys>>

\* The callback calls the store itself: any method but two.
Reenter(p) ==
    /\ active[p]
    /\ poisoned' = [poisoned EXCEPT ![p] = TRUE]
    /\ log' = [log EXCEPT ![Current(p)].reentered = TRUE]
    /\ UNCHANGED <<file, lock, binary, lifecycle, key, active, work, token,
                   starts, keys>>

\* saveDiscoveredCandidate does not look whether a transaction is active: it
\* writes into it.
SaveDiscoveredCandidate(p) ==
    /\ active[p]
    /\ log[Current(p)].made < MaxWrites
    /\ log' = [log EXCEPT ![Current(p)].made = @ + 1]
    /\ work' = [work EXCEPT ![p].data = @ \cup {<<Current(p), log'[Current(p)].made>>}]
    /\ UNCHANGED <<file, lock, binary, lifecycle, key, active, poisoned, token,
                   starts, keys>>

\* finally
Revoked(p, outcome) == token' = [token EXCEPT ![Current(p)] = FALSE]

End(p, outcome) ==
    /\ data' = IF outcome = "returned" THEN work[p].data ELSE data
    /\ log' = [log EXCEPT ![Current(p)].outcome = outcome]
    /\ Revoked(p, outcome)
    /\ lock' = None
    /\ active' = [active EXCEPT ![p] = FALSE]
    /\ poisoned' = [poisoned EXCEPT ![p] = FALSE]
    /\ UNCHANGED <<ledger, secret, binary, lifecycle, key, work, starts, keys>>

Return(p) ==
    /\ active[p]
    /\ ~poisoned[p]
    /\ End(p, "returned")

\* The callback throws, a poisoned one returns, the result is not canonical
\* data, or the commit fails.
Throw(p) ==
    /\ active[p]
    /\ End(p, "threw")

----------------------------------------------------------------------------
Close(p) ==
    /\ lifecycle[p] \in {"new", "ready"}
    /\ ~active[p]
    /\ lifecycle' = [lifecycle EXCEPT ![p] = "closed"]
    /\ key' = [key EXCEPT ![p] = 0]
    /\ UNCHANGED <<file, lock, binary, active, poisoned, work, token, log,
                   starts, keys>>

\* A process dies at any moment: SQLite rolls its transaction back, and its
\* facades die with it.
Die(p) ==
    /\ lifecycle[p] \notin {"dead", "closed"}
    /\ lifecycle' = [lifecycle EXCEPT ![p] = "dead"]
    /\ lock' = IF lock = p THEN None ELSE lock
    /\ key' = [key EXCEPT ![p] = 0]
    /\ active' = [active EXCEPT ![p] = FALSE]
    /\ poisoned' = [poisoned EXCEPT ![p] = FALSE]
    /\ log' = [t \in Tx |-> IF log[t].by = p /\ log[t].outcome = "open"
                            THEN [log[t] EXCEPT !.outcome = "died"] ELSE log[t]]
    /\ token' = [t \in Tx |-> token[t] /\ log[t].by # p]
    /\ UNCHANGED <<file, binary, work, starts, keys>>

\* A new process, of any version, opens the same file.
Restart(p) ==
    /\ lifecycle[p] \in {"dead", "closed"}
    /\ starts < MaxStarts
    /\ starts' = starts + 1
    /\ token' = [t \in Tx |-> token[t] /\ log[t].by # p]
    /\ lifecycle' = [lifecycle EXCEPT ![p] = "new"]
    /\ \E b \in Binaries : binary' = [binary EXCEPT ![p] = b]
    /\ UNCHANGED <<file, lock, key, active, poisoned, work, log, keys>>

Next ==
    \E p \in Process :
        \/ Open(p) \/ BeginMigrations(p) \/ Upgrade(p) \/ CommitMigrations(p)
        \/ SelectKey(p) \/ MigrateFails(p)
        \/ Begin(p) \/ \E t \in Tx : CallFacade(p, t)
        \/ Reenter(p) \/ SaveDiscoveredCandidate(p) \/ Return(p) \/ Throw(p)
        \/ Close(p) \/ Die(p) \/ Restart(p)

Spec == Init /\ [][Next]_vars

----------------------------------------------------------------------------
(***************************************************************************)
(* Whatever a callback does with its facade, the store or an old facade,    *)
(* and whenever processes die: a transaction that returned to its caller    *)
(* has left all its writes in the file, any other one none, now and later,  *)
(* and one that called the store did not return.  (withTransaction, the     *)
(* facade's token and #guardRootCall.)                                      *)
(***************************************************************************)
AllOrNothing ==
    \A t \in Tx :
        /\ {w \in data : w[1] = t} =
              IF log[t].outcome = "returned" THEN {<<t, n>> : n \in 1..log[t].made}
              ELSE {}
        /\ log[t].outcome = "returned" => ~log[t].reentered

(***************************************************************************)
(* However many processes of whatever versions start at once, and die while *)
(* they do, all of them sign cursors with the key in the file: a cursor of  *)
(* one is good in every other, and after a restart.                         *)
(* (getOrCreateCursorSigningKey.)                                           *)
(***************************************************************************)
OneKey == \A p \in Process : lifecycle[p] = "ready" => key[p] = secret /\ secret # 0

(***************************************************************************)
(* The schema goes from one version to a later one of the same line and is  *)
(* never left in between, neither by a death nor by two processes at once;  *)
(* no binary touches a schema that is newer than it or of another line.     *)
(* (migrateSqliteDatabase.)                                                 *)
(***************************************************************************)
SchemaGrowsWhole ==
    [][ledger' # ledger => IsPrefix(ledger, ledger') /\ ledger' \in Binaries]_vars
=============================================================================
