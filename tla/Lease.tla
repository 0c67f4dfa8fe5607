------------------------------- MODULE Lease -------------------------------
(***************************************************************************)
(* The account lease: one row of the SQLite table "leases"                  *)
(* (storage/lease-repository.ts) and the LeaseScope objects of concurrent   *)
(* operations, in one or several server processes, that contend for it      *)
(* (app/services/lease-scope.ts).  Every operation has an owner id of its   *)
(* own, so a scope is one attempt and is never reused.                      *)
(*                                                                          *)
(* The wall clock is shared by the processes of the host; it may be stepped *)
(* back MaxBack times.  A scope that has taken a guard holds the JavaScript *)
(* thread until the storage call that uses it returns: other processes run  *)
(* in between (BEGIN IMMEDIATE waits for the write lock), the scope does    *)
(* not.                                                                     *)
(***************************************************************************)
EXTENDS Integers

CONSTANTS
    Scope,      \* the operations that contend for the lease, one owner id each
    Ttl,        \* how long a grant or a renewal lasts, in clock steps
    MaxClock,   \* bound: the clock stops here
    MaxBack,    \* bound: how many times the clock is stepped back
    Nobody        \* no owner, no actor

ASSUME LeaseAssumption ==
    /\ Ttl \in Nat \ {0}
    /\ MaxClock \in Nat
    /\ MaxBack \in Nat
    /\ Nobody \notin Scope

VARIABLES
    clock,      \* the wall clock of the host
    back,       \* how often it was stepped back
    lease,      \* the row: owner Nobody when the row is absent
    phase,      \* where LeaseScope.run is
    health,     \* #lost, #heartbeatFailure, #callerCancelled; the first wins
    expires,    \* #expiresAt, the scope's own copy
    guard,      \* the time of a guard taken and not used yet, or NoGuard
    actor,      \* history: the scope whose work was accepted last
    retired     \* history: the scopes that some other scope has followed

leaseVars == <<clock, back, lease, phase, health, expires, guard, actor, retired>>
scopeVars == <<phase, health, expires, guard>>
history == <<actor, retired>>

NoGuard == -1
Phase == {"idle", "running", "releasing", "closed", "crashed"}
Health == {"sound", "cancelled", "failed", "lost"}
Row == [owner: Scope \cup {Nobody}, heartbeatAt: Nat, expiresAt: Nat]
Absent == [owner |-> Nobody, heartbeatAt |-> 0, expiresAt |-> 0]

TypeOK ==
    /\ clock \in Nat
    /\ back \in Nat
    /\ lease \in Row
    /\ phase \in [Scope -> Phase]
    /\ health \in [Scope -> Health]
    /\ expires \in [Scope -> Nat]
    /\ guard \in [Scope -> Nat \cup {NoGuard}]
    /\ actor \in Scope \cup {Nobody}
    /\ retired \in SUBSET Scope

LeaseInit ==
    /\ clock = 0
    /\ back = 0
    /\ lease = Absent
    /\ phase = [s \in Scope |-> "idle"]
    /\ health = [s \in Scope |-> "sound"]
    /\ expires = [s \in Scope |-> 0]
    /\ guard = [s \in Scope |-> NoGuard]
    /\ actor = Nobody
    /\ retired = {}

----------------------------------------------------------------------------
(* Mutated conditions: each is a plausible bug that some run rejects.       *)

AcquirableOneEarly(now) == lease.owner = Nobody \/ lease.expiresAt <= now + 1
AssertedForAnyOwner(s, now) == now >= lease.heartbeatAt /\ lease.expiresAt > now
ReleasableByAnyone(s) == lease.owner # Nobody

----------------------------------------------------------------------------
(* The repository's conditions, over the stored row.                        *)

\* acquireLease: the upsert replaces an absent or an expired row only.
Acquirable(now) == lease.owner = Nobody \/ lease.expiresAt <= now

\* assertLease: the guard's owner, not before the heartbeat, not expired.
Asserted(s, now) ==
    /\ lease.owner = s
    /\ now >= lease.heartbeatAt
    /\ lease.expiresAt > now

\* renewLease: an assertion, and an expiry that moves strictly forward.
Renewable(s, now) == Asserted(s, now) /\ now + Ttl > lease.expiresAt

\* releaseLease: the row is deleted for its owner only.
Releasable(s) == lease.owner = s

\* Write the row for s as of now: an acquisition or a renewal.
Granted(s, now) == [owner |-> s, heartbeatAt |-> now, expiresAt |-> now + Ttl]

----------------------------------------------------------------------------
(* The scope.                                                               *)

\* A scope's own thread is free: it runs and no storage call is under way.
Free(s) == phase[s] = "running" /\ guard[s] = NoGuard

\* assertActive: what the scope believes without asking the database.
Trusts(s) ==
    /\ phase[s] = "running"
    /\ health[s] = "sound"
    /\ clock < expires[s]

\* The work of s (a guarded write, a dispatch) takes effect.
Act(s) ==
    /\ actor' = s
    /\ retired' = IF actor \in {s, Nobody} THEN retired ELSE retired \cup {actor}

Lose(s) == health' = [health EXCEPT ![s] = "lost"]

\* LeaseScope.acquire: take the row, or fail with "lease_held".
Acquire(s) ==
    /\ phase[s] = "idle"
    /\ \/ /\ Acquirable(clock)
          /\ lease' = Granted(s, clock)
          /\ expires' = [expires EXCEPT ![s] = clock + Ttl]
          /\ phase' = [phase EXCEPT ![s] = "running"]
       \/ /\ ~Acquirable(clock)
          /\ phase' = [phase EXCEPT ![s] = "closed"]
          /\ UNCHANGED <<lease, expires>>
    /\ UNCHANGED <<clock, back, health, guard, history>>

\* assertActive on an expired local copy marks the scope lost.
NoticeExpiry(s) ==
    /\ Free(s)
    /\ health[s] \notin {"lost", "failed"}
    /\ clock >= expires[s]
    /\ Lose(s)
    /\ UNCHANGED <<clock, back, lease, phase, expires, guard, history>>

\* freshGuard: assert the row now, refresh the local copy and keep the guard
\* for the storage call; a refusal marks the scope lost.
FreshGuard(s) ==
    /\ Free(s)
    /\ health[s] # "lost"
    /\ \/ /\ Asserted(s, clock)
          /\ guard' = [guard EXCEPT ![s] = clock]
          /\ expires' = [expires EXCEPT ![s] = lease.expiresAt]
          /\ UNCHANGED health
       \/ /\ ~Asserted(s, clock)
          /\ Lose(s)
          /\ UNCHANGED <<guard, expires>>
    /\ UNCHANGED <<clock, back, lease, phase, history>>

\* A storage transaction that carries the guard asserts it again, as of the
\* time the guard was taken; a refusal throws and changes nothing.
GuardedWrite(s) ==
    /\ phase[s] = "running"
    /\ guard[s] # NoGuard
    /\ guard' = [guard EXCEPT ![s] = NoGuard]
    /\ \/ Asserted(s, guard[s]) /\ Act(s)
       \/ ~Asserted(s, guard[s]) /\ UNCHANGED history
    /\ UNCHANGED <<clock, back, lease, phase, health, expires>>

\* renew, called by the heartbeat or by the operation.
Renew(s) ==
    /\ Free(s)
    /\ health[s] \notin {"lost", "failed"}
    /\ \/ /\ Renewable(s, clock)
          /\ lease' = Granted(s, clock)
          /\ expires' = [expires EXCEPT ![s] = clock + Ttl]
          /\ UNCHANGED health
       \/ /\ ~Renewable(s, clock)
          /\ Lose(s)
          /\ UNCHANGED <<lease, expires>>
    /\ UNCHANGED <<clock, back, phase, guard, history>>

\* The dispatch callback of apply: assertActive, renew, the guarded start of
\* the operation, assertActive and the request, in one synchronous block.
Dispatch(s) ==
    /\ Free(s)
    /\ Trusts(s)
    /\ Renewable(s, clock)
    /\ lease' = Granted(s, clock)
    /\ expires' = [expires EXCEPT ![s] = clock + Ttl]
    /\ Act(s)
    /\ UNCHANGED <<clock, back, phase, health, guard>>

\* A heartbeat whose storage call fails for another reason than ownership.
HeartbeatFails(s) ==
    /\ Free(s)
    /\ health[s] \in {"sound", "cancelled"}
    /\ health' = [health EXCEPT ![s] = "failed"]
    /\ UNCHANGED <<clock, back, lease, phase, expires, guard, history>>

\* The caller's abort signal.
Cancel(s) ==
    /\ Free(s)
    /\ health[s] = "sound"
    /\ health' = [health EXCEPT ![s] = "cancelled"]
    /\ UNCHANGED <<clock, back, lease, phase, expires, guard, history>>

\* run returns or throws and #cleanup starts: a lost scope and one told to
\* retain the lease end here; otherwise tryFreshGuard decides.
Finish(s) ==
    /\ Free(s)
    /\ \E retain \in BOOLEAN :
         \/ /\ health[s] = "lost" \/ retain
            /\ phase' = [phase EXCEPT ![s] = "closed"]
            /\ UNCHANGED <<health, expires>>
         \/ /\ health[s] # "lost" /\ ~retain /\ Asserted(s, clock)
            /\ phase' = [phase EXCEPT ![s] = "releasing"]
            /\ expires' = [expires EXCEPT ![s] = lease.expiresAt]
            /\ UNCHANGED health
         \/ /\ health[s] # "lost" /\ ~retain /\ ~Asserted(s, clock)
            /\ phase' = [phase EXCEPT ![s] = "closed"]
            /\ Lose(s)
            /\ UNCHANGED expires
    /\ UNCHANGED <<clock, back, lease, guard, history>>

\* #cleanup calls releaseLease; a refusal is reported, nothing is deleted.
Release(s) ==
    /\ phase[s] = "releasing"
    /\ phase' = [phase EXCEPT ![s] = "closed"]
    /\ lease' = IF Releasable(s) THEN Absent ELSE lease
    /\ UNCHANGED <<clock, back, health, expires, guard, history>>

\* The process dies: the row stays until it expires.
Crash(s) ==
    /\ phase[s] \in {"running", "releasing"}
    /\ phase' = [phase EXCEPT ![s] = "crashed"]
    /\ guard' = [guard EXCEPT ![s] = NoGuard]
    /\ UNCHANGED <<clock, back, lease, health, expires, history>>

Tick ==
    /\ clock < MaxClock
    /\ clock' = clock + 1
    /\ UNCHANGED <<back, lease, scopeVars, history>>

StepBack ==
    /\ back < MaxBack
    /\ clock > 0
    /\ clock' = clock - 1
    /\ back' = back + 1
    /\ UNCHANGED <<lease, scopeVars, history>>

ScopeStep(s) ==
    \/ Acquire(s) \/ NoticeExpiry(s) \/ FreshGuard(s) \/ GuardedWrite(s)
    \/ Renew(s) \/ Dispatch(s) \/ HeartbeatFails(s) \/ Cancel(s)
    \/ Finish(s) \/ Release(s) \/ Crash(s)

LeaseNext == Tick \/ StepBack \/ \E s \in Scope : ScopeStep(s)

LeaseSpec == LeaseInit /\ [][LeaseNext]_leaseVars

----------------------------------------------------------------------------
(* Properties.                                                              *)

\* Fencing: once the work of another operation was accepted, no write and no
\* dispatch of an earlier owner is ever accepted again, whatever the clock
\* does and however stale the guard is (assertLease re-checks the owner).
NoInterleavedWork == actor \notin retired

\* A scope that passes assertActive still owns the row, as long as the clock
\* was not stepped back: the local check alone excludes a second operation.
TrustImpliesOwner ==
    back = 0 => \A s \in Scope : Trusts(s) => lease.owner = s

\* An active row passes to another operation only by its owner's release: a
\* grant is never cut short.
GrantIsNotCutShort ==
    [][\A s \in Scope : lease.owner = s /\ lease'.owner # s
         => lease.expiresAt <= clock \/ phase[s] = "releasing"]_leaseVars

\* "The account lease is no longer owned by this operation"
\* (lease-scope.ts:48): an operation that is told so does not own the lease.
\* No run checks this, and it does not hold: a renewal in the millisecond of the
\* grant changes no row and is taken for a loss.
LostMeansNotOwned ==
    \A s \in Scope :
        health[s] = "lost" => ~(lease.owner = s /\ lease.expiresAt > clock)
============================================================================
