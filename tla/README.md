# A TLA+ model of github-stars-mcp

github-stars-mcp is an MCP server that manages the stars and the star lists of
one GitHub account: it copies them into immutable local snapshots, plans
changes against a snapshot, applies a plan to the account, and rolls a run
back. It talks to GitHub over REST and GraphQL and keeps its state in one SQLite
database that several server processes may share. Everything hard about it
follows from two facts: **GitHub has no transactions**, and **a process may stop
between any two awaits**. The modules here model the parts of the program that
deal with them.

Contents: [the system](#the-system) · [modules](#modules-and-how-they-follow-the-code) ·
[runs](#runs) · [bounds](#bounds) · [fairness](#fairness) · [proofs](#proofs) ·
[findings](#findings) · [not modelled](#what-is-not-modelled) · [plan](#plan)

Paths below are relative to `src/src/` unless they start with `src/`.

## The system

| Component | State it keeps | Operations | What makes it correct |
|---|---|---|---|
| Account lease (`storage/lease-repository.ts`, `app/services/lease-scope.ts`) | one row per account: owner, heartbeat, expiry; in a scope: its own copy of the expiry, whether it is lost, failed or cancelled | acquire, renew, guard, release, the scope's local timers | two operations never alternate in work the database accepts; a grant lasts; a scope that trusts its copy owns the row |
| Apply (`app/services/apply-service.ts`) | the position in the plan, the last answer | claim a run, execute each operation in order, retry, reconcile, close the run, recover | no effect twice, verdicts that are true and stay, dependencies first, every run closed |
| Plans and runs (`storage/plan-run-repository.ts`, `domain/run.ts`) | plan state, run state, operation rows, attempts | start an attempt, finish it, skip, mark unresolved, recover, finish the run | rows, run and plan tell one story after every transaction |
| Executor, reconciliation (`app/services/mutation-executor.ts`, `reconciliation.ts`) | — | read the precondition, dispatch, verify, reconcile | what is recorded is what happened |
| Pacer, rate gate (`app/services/mutation-pacer.ts`, `github/rate-gate.ts`) | a promise chain, the last start, the pause until the latest reset | pace, wait in slices with heartbeats, observe a limit | mutations one at a time, an interval apart in all processes, none before a reset |
| Transport (`github/octokit-client.ts`, `octokit-github-adapter.ts`) | — | retry reads, send a mutation once, classify what came back | an ambiguous error is never reported as a refusal |
| Sync, snapshots (`app/services/sync-service.ts`, `storage/snapshot-repository.ts`) | drafts and complete snapshots, staged pages | collect twice, compare, publish; discard; recover | what is published is what the account held; unchanged accounts do get published |
| Coordinator, server (`app/services/operation-coordinator.ts`, `server.ts`) | active operations, shutdown promise | admit, abort, drain, close | the store is closed over nobody's work, and shutdown ends |
| Store (`storage/sqlite-store.ts`, `sqlite-database.ts`, `sqlite-transaction.ts`) | one connection, a lifecycle, one transaction flag | withTransaction over a revocable facade | a callback that goes around its facade commits nothing |
| Migrations (`storage/migrations.ts`), cursor key (`storage/runtime-secret-repository.ts`) | a ledger of versions and checksums; one secret | migrate; get or create the key | all or nothing, in order, never by an older binary; one key for all processes |
| Planning (`app/services/plan-service.ts`, `operation-resolver.ts`, `domain/plan.ts`) | — | resolve actions to operations with dependencies | the order respects the dependencies; no operation without an effect |
| Rollback (`app/services/rollback-service.ts`) | — | invert a run into a new plan | what is undone was done, and nothing that changed since |
| Queries (`app/services/query-service.ts`, `lists-query-service.ts`, `candidate-query-service.ts`, `inspect-service.ts`, `domain/cursor.ts`, `filter.ts`, `storage/filter-sql.ts`) | signed cursors | pages of a snapshot, plan or run | paging shows every row once |
| Discovery, evidence (`app/services/discovery-service.ts`, `evidence-service.ts`) | candidates | search, read READMEs with a pool of workers | results in the input's order, first failure wins |
| Status, MCP layer, redaction, configuration, credentials, CLI | — | parse, map, print | — |

**How they interact.** A tool call enters through the MCP layer and runs under the
coordinator, which hands it an abort signal. Sync and apply take the account
lease through a `LeaseScope`; every write they make passes the lease's guard into
a SQLite transaction that checks it again. Apply sends mutations through the
pacer, whose job renews the lease, opens the attempt and calls the adapter, and
the transport holds the request at the rate gate. The scope's heartbeat, the
caller and the shutdown all end in the same abort signal. What is left behind by a
process that dies is repaired by the next one, at startup or by the next call
that takes the lease.

**What is hard.** The lease may be lost between a guard and its use, or while a
request waits at the rate gate; a mutation may land after its attempt failed, or
never; a run may be resumed by a second call while an answer to the first is
still on the way; the account changes while it is read page by page; a cursor
is continued after the data moved on; a rollback undoes a run whose effects
somebody has changed since; processes of two versions open one file; the
shutdown may come while a mutation is on the wire. `PROJECT.json` lists these
under `hazards`, each at the line where it bites, with the properties that
cover it.

## Modules and how they follow the code

| Module | Models | Composition |
|---|---|---|
| `Lease` | the lease row and the scopes that contend for it | stands alone; the others use its holder |
| `ChangeLedger` | what a change run promises (abstract) | implemented by `ApplyRun` |
| `ApplyRun` | apply calls, durable rows, the account and the network | `INSTANCE ChangeLedger` with a refinement mapping |
| `RunRecords` | the record of one operation, as parser, table and repository each see it | the rows of `ApplyRun`, field by field |
| `Replies` | what the transport makes of one answer | used by `Dispatch` and `Reads` |
| `Attempt` | what one dispatch promises (abstract) | implemented by `Dispatch` |
| `Dispatch` | one dispatch through executor, adapter and transport | `INSTANCE Attempt`; what `ApplyRun` takes for four steps |
| `Pacing` | pacers, rate gates, heartbeats and the lease in several processes | stands alone |
| `Sync` | the sync calls, the snapshot rows and a changing account | uses the lease's holder |
| `Metadata` | repository versions and their reuse | operators, evaluated beside `Sync` |
| `Planning` | a request and an account to an ordered plan | operators |
| `Rollback` | an audited run to the plan that undoes it | extends `Planning` |
| `Changes` | plan, apply, roll back, with an owner who edits | extends `Rollback` |
| `Selection` | filter, order and page of a snapshot, in the domain and in SQL | operators |
| `Queries` | a client that reads in pages while the data changes | extends `Selection` |
| `Store` | processes that open, migrate and use one file | the reason the others take a transaction for one step |
| `Reads` | a discovery call and its pool of workers | extends `Replies` |
| `Lifecycle` | runServer, performShutdown and the coordinator | stands alone |
| `Serving` | a server one of whose calls is at a dispatch | extends `Lifecycle`, `INSTANCE Dispatch` with the call's signal |
| `MC*` | the sets and functions the configurations use | extend the module they check; `MCStore` extends `Store` and `Lease` |
| `*Proofs` | inductive invariants and theorems | extend the module they are about |

Each module has its mutated conditions before the definitions they vary: small,
plausible bugs (a guard dropped, a boundary moved, an order swapped). They take
no part in the specification; for every property checked there is one that makes
TLC find the property violated, so no property holds for want of anything to
go wrong. `PROJECT.json` (`mutants`, `map`) pairs them, and names the source
lines of every definition.

### Lease

`lease` is the row, `expires` the scope's own `#expiresAt`, `health` the first of
`#lost`, `#heartbeatFailure` and `#callerCancelled`. `guard` is the time that
`assertActive` or `currentLeaseGuard` read and that the storage call uses later:
other processes run in between, but not the scope itself, because JavaScript
keeps the thread. `Begin`, `Renew`, `Release` and `Work` are the operations,
`Tick` and `StepBack` the host's clock. The identity of a work item is not
modelled; `actor` and `retired` remember who worked and who was followed by
another, which is all that fencing is about.

A renewal in the millisecond of the grant changes no row
(`storage/lease-repository.ts:169`) and the scope takes that for a loss
(`app/services/lease-scope.ts`): `LostMeansNotOwned` says otherwise and is kept
as a definition that no run checks. The call ends in an error; nothing is worked on
twice.

### ChangeLedger, ApplyRun and RunRecords

`ChangeLedger` has one status per operation (`open`, `tried`, `done`, `refused`…), the
set of operations on the wire, and the state of the run. It says: what is on the
wire is in doubt, a verdict is final, a run is complete when its plan is whole.

`ApplyRun` has the three tables (`plan`, `run`, `row`), the lease's holder, the
account (`live`: how the target compares with the operation's before and after),
the network (`inflight`, with `Land`, `Drop` and the answers) and the calls. `pc`
follows the awaits of `#applyOwned` and `executePendingOperation`: between two awaits
is one action, and every transaction is one. `Claim` is `createRun` and its
resumption, `OpenAttempt` the row that is written before a dispatch, `Record` what
is written after, `Reconciled` what the uncertain path writes, `Recovered` startup
recovery. The operations of a plan are abstracted to their dependencies and to
whether they are a `list_create`, whose retry rules differ because a created list
has no identity before the answer. The request's hash, binding and expiry checks are
one guard (`outdated`). The rows a request keeps in memory equal the table while
it holds the lease, and every use of them is guarded by the lease; so they are
read from the table. A request that has ended stands for a later call when nothing of
it is left (`CallAgain`, `Repeats = TRUE`), so two requests are any number of calls of
which two are under way at a time.

Two assumptions carry the account's side. `HonestTransport = TRUE` (an error that says
"not applied" is right) is what `Dispatch` justifies but for one case, the finding `dispatch_hidden`. `Quiet` (when a lease ends, none of
its call's mutations is still on the wire) is the pacer's safety window and the
lease's duration; a request delayed for longer than both would land under another
call's lease, which nothing in the code can exclude
(`app/services/mutation-pacer.ts:174`, a hazard without a property). The lease and the
precondition are checked before the wait at the rate gate, and afterwards the code
looks at the abort signal only (`github/octokit-client.ts:1775`): a process suspended
there for longer than its lease would send after somebody else took over. An
abort at that gate comes after the attempt was opened, so an attempt may be on
record that never left.

`RunRecords` takes one row with all its columns. The same record is guarded by the
parser (`domain/run.ts`), by the tables' CHECKs and triggers
(`storage/migrations`) and by the conditions of the repository's methods; the
methods are relations between two records, and the theorems say that the three
guards agree. Texts are numbers, so the lengths and blanks that only one of the
guards looks at (SQL's `trim` knows spaces only) are left out.

### Replies, Attempt, Dispatch and Serving

`Replies` is the transport's classification: an answer is how it ended, its status,
its rate headers and what its body says, and `Classified` is the error the code
throws for it, with whether and when a read is sent again.

`Attempt` has an effect (`none`, `open`, `landed`, `lost`) and a verdict. A verdict
"failed" promises that the mutation is not and will not be applied,
"succeeded" that it is, and "unresolved" promises nothing. `Dispatch` follows one
operation of any of the six kinds from the precondition read to the record:
`live` is the target, `created` what is known of a created list, and each stage
is one await. Its assumptions about GitHub: a 4xx other than 408 means the mutation was
not carried out; a GraphQL answer with status 200 and an error that is neither transient
nor a limit means nothing was done; transient and limit errors leave it open.

The promise has one exception. A failing answer with a reset that has passed, or lies
further ahead than `MaxObservationDelay` (a day, `github/rate-gate.ts:191`), makes the
gate throw while it is told (`github/octokit-client.ts:1787`); the ambiguous error is
replaced by a plain one, and a mutation that may have landed is recorded as failed.
`KeepsThePromise` is therefore violated (`dispatch_hidden`), and
`PromiseButForTheGate` says that every step but such an answer (`Hidden`; the history
variable `hidden` tells it from other answers with the same outcome) is one of the promise.

`Serving` puts a dispatch under the process that runs it: the signal of the dispatch
is `Apply \in told`, the call leaves the coordinator when its dispatch has ended.
One applying call is one dispatch here; sequences of them are `ApplyRun`'s.

### Pacing

Every deadline of the code is kept as the time left until it, so time is
unbounded while the states are few. `home` is the process a call runs in, `tail` and
`behind` are the promise chain, `rest` the spacing, `pause` the gate; `limit` and
`startGap` are history. A heartbeat may come late and a process may die at any moment. A
wall-clock reset is a delay; the rejection of a past or far one is in `Replies`.

What is spaced are the *starts* of mutations. A start is noted before the request waits at
the rate gate, so two requests held there may leave closer to each other, and a
precondition read before that wait may be old when the request leaves.

### Sync and Metadata

A sync call first probes what the token may read (`Probes`), which decides the
coverage of its snapshot. A collection reads stars by page *number*, so a star added
or removed shifts the pages; `RefusePage` is a page the adapter cannot use, whose call
fails. Lists and the items of a list are read by cursor and fit one page. A cursor that was
named before gives the draft up (`CursorRepeats`). The second collection
reads in the other order and must agree with the first. `past` holds every state of the
account, `since` the state in which a draft began.

A snapshot is real (`WasSo`) if its stars are those of one moment of the collection and
its lists, with their items, those of one moment after it, at which all these stars were
still there; a repository it lacks that was a star by then is gone when it is published.
It need not be the account of *one* moment: a repository that is starred after the first
look at the stars and unstarred before the second is in neither, and a list changed in
that time is in both looks at the lists. The design says more
(`docs/superpowers/specs/2026-07-16-github-stars-mcp-design.md:151`, SYNC-04: the second
enumeration "proves that the Star set and, when collected, every normalized List metadata
field and membership did not change during collection"). `PublishedIsOneMoment` is that
sentence; no run checks it. It came to light in the proof of `PublishedIsReal`, which had
said the same; with one star, one empty list and four changes (star another repository,
file it, undo both) TLC finds the snapshot that was the account at no moment, with three
changes there is none.

The assumptions about GitHub: a cursor repeats only in a collection that changed
(otherwise the code gives up a draft of an account at rest, against `NoFalseAlarm`),
stars carry their time, only starred repositories are
items (an unstarred one leaves its lists), a change of a list's items moves its
`lastAddedAt`, and (`Returns = FALSE`) an item that left its list does not return during
a collection: items carry no version, so two equal collections would not notice it
(`storage/snapshot-repository.ts:930`). That a repository's node or database identity
changed under a draft is a precondition failure of its own and is left out.

`Metadata` has the versions of a repository by content and the current one. Syncs and
discoveries write observations in any order; three statements about it
(`CurrentIsLatest`, `OrderIsIrrelevant`, `ReuseDoesNotAge`) are evaluated over all short
sequences of observations in `MCSync`'s assumption.

### Planning, Rollback and Changes

`Planning` is the way from a request to a plan as operators: the structural rules of
`domain/plan.ts`, selectors by id and by filter over the snapshot's starred
repositories, the drafts of each action, merging and deduplication, conflicts,
protections, dependencies and the topological order. Repositories, lists and client
references are numbers, so the order of their ids is `<`. Hashes, text limits and a
plan's time to live are left out; a filter that mentions lists needs complete coverage,
which is `Selection`'s.

`Rollback` inverts a run from its audit and the snapshot of its plan, without reading
the account. `Changes` runs the whole story: `snapshot`, the plan, its operations one by
one in either failure mode with one refused dispatch (`MaxFaults`) and one change by the
owner anywhere (`OwnerEdits`), the rollback plan and its operations. The owner stars, files,
edits, deletes or renames; a repository that was renamed (`moved`) fails the identity check
of `repositoryIdentityMatches`, so nothing is dispatched for its star or its lists. An operation's
preparation, dispatch and verification are one step: what may happen between is
`ApplyRun`'s and `Dispatch`'s.

What the model shows beside its properties: unstarring empties a repository's memberships
and takes it out of protected lists too; a request that both unstars and files a
repository is accepted although each invalidates the other (`Torn`); an unstar replayed by
a rollback is treated as emptying memberships (`app/services/rollback-service.ts:1216`);
memberships of an unstarred repository are no precondition of the unstar; a rollback
plan may exceed `maxPlanActions`; a created list that the run has filled since is not
deleted by the rollback (`CreatedListsAreUndone`, which no run checks). The properties name these as
exemptions, each next to the code that causes it.

### Selection and Queries

`Selection` has every filter and order twice, as the domain defines it
(`matchesFilter`, `compareRepositories`) and as `storage/filter-sql.ts` compiles it,
with SQL's third truth value; and the keyset condition for the page after a row. A
page of the model is made by the second, and the properties compare it with the first.
A node of a filter knows its children (`NodeMatches`, `SqlNode`); `IsFilter` is what the
parser lets through.
`Queries` is a client with a chain of pages over snapshots, lists, memberships, plans,
runs, histories and candidates. A cursor is the record it signs; nobody forges one.
Meanwhile snapshots are published, attempts recorded and candidates refreshed. Text search, facets and aggregates are left out.

Two ways in which the code does less than a reader may hope are definitions that
no run checks: following a cursor of the "latest" snapshot is refused once a newer one was
published, and relative times or an evidence limit refuse it too
(`FollowingIsAnswered`; the plugin's skill tells clients to follow
`nextCursor`); a history read by two statements may report a storage error while another
process appends to it (`IntactIsNotAnError`). Candidates are read by offset over a live
table and then counted by a second statement (`QueryCandidates`, `CountCandidates`), so
they may repeat or skip, and `ChainsEndWithTheTotal` speaks of theirs only when no
discovery came between; "latest" is by `completed_at`, so a clock set back may pick
an older snapshot.

### Store

A process opens the file, migrates it in immediate transactions, gets or creates the key
and then runs transactions whose callback may use its facade, keep it beyond the
transaction, or call the store (`#guardRootCall` poisons the transaction). `binary` is the
list of migrations a version knows. SQLite's lock, commit and rollback are external.
Everything inside a process is synchronous; processes interleave and die between any two
steps. `saveDiscoveredCandidate` and `queryDiscoveryCandidates` do not ask
`#guardRootCall`, which is modelled as it is; a ready process may see a newer version
migrate the file under it.

### Reads

A discovery call searches, saves its candidates one by one, and collects READMEs with a
pool of workers that take indexes from one counter. `stage` follows the awaits of a
reader, `failure` is the first one, `stopped` what it sets for the others. Candidate data
are left out. Candidates are saved before their evidence is read, so a call that fails or
is aborted leaves them.

### Lifecycle

`main` is `runServer`, `shutdown` is `performShutdown`, `active` the coordinator's set of
controllers, `told` those whose signal fired. `Boot`, the creation of the
services, is an operation like a tool call. One turn of the event loop is one
action, which is why admission, abort and drain do not need locks and why a
missing turn between them matters.

## Runs

| Run | Question | Properties |
|---|---|---|
| `apply` | any number of calls, two at a time, on a plan that creates a list and assigns to it: rows, effects, verdicts, the fresh look after a crash, and the refinement of `ChangeLedger` | `RunIsConsistent`, `RowsAreLegal`, `AtMostOneEffect`, `OutcomesAreTrue`, `NoBlindDispatch`, `KeepsTheLedger` |
| `apply_live` | do calls end, are runs closed, is the lease given back? | `EveryCallEnds`, `RunsAreClosed`, `LeaseIsGivenBack` |
| `apply_stuck` | *violated*: can a run that is left partial be resumed? | `ResumeIsPossible` |
| `pacing` | two calls in one process or in two: are mutation starts spaced, one at a time in a process and none before a reset, and does an aborted call end? | `OneAtATime`, `StartsAreSpaced`, `ResetsAreRespected`, `AbortsEnd` |
| `sync` | is what is published real, with or without lists, although it was read in pages, and is an account at rest published in the first attempt? | `PublishedIsReal`, `NoFalseAlarm` |
| `sync_calls` | two calls, crashes and restarts: one draft, no overlap, and every draft published or failed in the end | `OneDraft`, `NoOverlap`, `DraftsAreClosed` |
| `changes` | do plans hold, do what was asked, spare what is protected and what the owner changed, and can every finished run be undone? | `PlanHolds`, `AsRequested`, `RollbackRestores`, `ShieldsHold`, `EditsStand`, `StarsOutlastMemberships` |
| `queries` | is a chain of pages a beginning of the domain's own selection, in its order, whatever is written between? | `ChainsAreWhole`, `ChainsEndWithTheTotal`, `PinnedIsAnswered` |
| `store` | what do callbacks that misbehave, deaths, and processes of several versions do to one file? and of its lease row: does fencing hold over late heartbeats, cancelled calls, crashes and a clock that is set back, and is a scope's own copy of the expiry right until then? | `AllOrNothing`, `OneKey`, `SchemaGrowsWhole`; `NoInterleavedWork`, `TrustImpliesOwner`, `GrantIsNotCutShort` |
| `reads` | can a worker outlive its call, and can a refusal, a limit or an abort pass for a missing README? | `NothingOutlivesTheCall`, `EvidenceIsTrue` |
| `serving` | a shutdown at any moment, also of a dispatch: told, drained, on record, closed, ended; and `Attempt` kept by every answer but the ones the gate throws at | `StoreOutlivesWork`, `EveryoneIsTold`, `OutcomeIsRecorded`, `ShutdownEnds`, `PromiseButForTheGate` |
| `dispatch_hidden` | *violated*: does a dispatch keep the promise of `Attempt` at those answers too? | `KeepsThePromise` |

Each module's `TypeOK` documents its state; those of `Lease`, `ApplyRun`, `ChangeLedger`,
`Pacing` and `Lifecycle` are proved, what the theorems need of the others is, and no run
spends time on it.

In `store` a behaviour is one of `Store` or one of `Lease` (`half`): the two share no
variable, so interleaving them would only multiply their states.

Where a configuration says `CHECK_DEADLOCK FALSE`, the system stops: its calls, chains
or processes are a finite set, each of which is used once, so all of them having ended
is the normal end. In `pacing` and in `apply` calls are reused, so deadlock is checked
there.

## Bounds

| Run | Bound | Why it is enough |
|---|---|---|
| `apply` | 2 operations, one dependent on the other, 2 requests that are reused, `MaxAttempts` 2 (3 in the code), no edit by others | a first attempt, a retry and the refusal of another; an original call, its resumption, and any number of crashes of both |
| `apply_live` | 1 operation, 2 requests once each, `MaxAttempts` 1, `MaxEdits` 1 | each way a call can end, with another one before and after |
| `apply_stuck` | 1 operation that is no create, `MaxAttempts` 3 as in the code | the shortest way there takes a retry |
| `pacing` | 2 calls, 2 processes, `Interval` 2, `Heartbeat` and `Base` 1, `MaxPause` 2 | heartbeats within an interval, a lease that ends in a wait, a reset longer than an interval |
| `sync` | 2 stars and 2 lists, pages of one star, one draft, `MaxEdits` 3 | stars cross a page boundary in both directions, both collections can be disturbed, and an edit can be undone and redone |
| `sync_calls` | 2 calls of up to 2 drafts, 1 star, no list, `MaxEdits` 1 | a draft left behind by either call, and a second attempt after a change |
| `changes` | 2 repositories, 2 lists, 2 accounts, one or two actions (also by filter, also ill-formed), `MaxOperations` 4, one edit, one fault | every pair of actions can meet on one target; a plan at and above its limit; the edit before, between and after the operations |
| `queries` | 3 rows with ties and nulls, 8 filters, pages of 1 and 2 rows, 2 snapshots, 2 attempts, 3 operations, clock 2..3 | a page that ends in a tie, at a null, at the end, and after a change |
| `store` | 2 processes, 3 versions (one is of another line), 2 transactions of up to 2 writes, 1 restart | a death between the writes, a facade of the first transaction used in the second, two starts at once |
| — its lease row | 3 scopes, `Ttl` 2, clock to 3, set back once (`MaxBack`) | an owner, its successor and a third to interleave, a takeover by release and one by expiry in one behaviour |
| `reads` | 2 workers, 3 repositories, `MaxAttempts` 3 as in the code, `MaxPause` 2 | one worker takes a second index while the other fails |
| `serving` | 2 tool calls of which one applies, every class of answer, with no reset, a past one, a near and a far one (`MaxObservationDelay` 2), `MaxEdits` 2 | one call that settles freely beside the dispatch; an edit on each side of it |

## Fairness

- The event loop goes on: `WF` of a call's next step (`Step`, `Progress`). A call
  that crashed takes none.
- The network answers or its timeout does: `WF` of `Network` (`apply_live`); the
  transport sets a timeout on every request. `serving` does without: there GitHub need
  never answer, because a call that was told gives up its request itself.
- Time passes: `WF` of `LeaseExpires`/`Expire`, `Tick` and `Beat`.
- A server is started again: `WF` of recovery at startup (`apply_live`, `sync_calls`). The
  liveness of runs and drafts is conditional on this: nobody repairs the
  rows of a process that nobody starts again.
- In `Lifecycle`, an operation *that was told* settles; one that was not told
  may go on for ever. In `Serving` the applying call is not given that: only the steps
  of a told dispatch are fair, and `ShutdownEnds` follows.
- No fairness is assumed for failures, crashes, aborts, edits, or calls made by users.

## Proofs

The theorems are checked by TLAPS for every value of the constants that satisfies
the module's named assumption. TLC checks the same properties on small instances.

| Module | Theorems | Argument |
|---|---|---|
| `ApplyRunProofs`, the rows | `TypeCorrect`, `VerdictsAreFinal`, `AttemptsBounded`, `RowsLegal`, `RunConsistent` | `TypeInv` with `PlaceInv` (which rows may exist at each `pc`), `RowLifeCycle` (status, retryability and attempt log belong together) and `AttemptInv`: an attempt is opened only below the limit, by a row that is not final |
| — the contract | `ImplementsLedger` (refinement), `AppliesInOrder` | `WireInv`: what is on the wire belongs to the holder of the lease or to nobody, and to a row that is still in doubt, and a row about to be dispatched is not on the wire; `DepsInv`: who works on a row has seen its dependencies done, and done they stay. Each action of `Next` is then one of the ledger's or a stutter |
| — the abstract specification | `WholeAtTheEnd`, `InOrder`, `NothingDecidedOnTheWire`, `Verdicts` | one invariant `LedgerSafe` of `ChangeLedger` |
| — the account | `EffectsAreSingle`, `OutcomesTrue` | `EffectInv`: how the target looks says how often the operation took effect, and what a call has observed of it is still so, since only what it sends itself can change it |
| — the fresh look | `DispatchesAreInformed` | `HeldInv` and `LookInv`: phase one has looked at every row before its position, and in phase two the rows change by the holder's hand only |
| `PacingProofs` | `TypeCorrect`, `StartsSpaced`, `ResetsRespected`, `MutationsAreSingle` | `Fenced` and `SpacingInv`: whoever holds the lease either is the caller that started last, or the interval of the last start has passed, since a lease outlives the interval of the start it was renewed at; `GateInv`: the pause of a gate is no earlier than the latest reset it was told of; `ChainInv`: the promise chain orders the calls of a process, a call runs its job when the one it waits for has settled |
| `ServingProofs` | `WorkIsDrained`, `AllAreTold`, `CleanEnd` | `Stopping`, `Drained`, `Closed` and `Starting`: from the shutdown on nothing is admitted, what is active has been told, and each stage of the shutdown implies that the one before is over |
| — the dispatch | `PromiseKeptButForTheGate`, `GateHidesTheDispatch` | `Known`: where the call is tells what can have become of the mutation |
| — both | `ServedPromiseKeptButForTheGate`, `OutcomeRecorded` | every step of the composition is one of the process or one of the dispatch, so the theorems carry over; `AtWork`: a dispatch under way belongs to an active call, and the store is closed over none |
| `SyncProofs` | `DraftIsAlone`, `NothingOverlaps` | `DraftInv`: a call that creates a draft under the lease has failed all others, and one that collects under the lease owns the only one |
| — what is published | `SnapshotsAreReal` | `AccountInv`, about the history of the account: a star is there from its time on until it is taken away for good, since the time of a list its items only go, and an item that left does not return. `CollectInv`, about a draft: the first collection met as many different stars as its full pages hold, so if all of them were still there at its last page, there were no others (`StarsInWhole`); the items of a list are those of one moment since the lists were read; what the second collection met was there after the first had ended, and its first page holds the newest star of its time. `StarsAgree` and `ListsAgree` draw the conclusion from two equal collections: they were all still there |
| — what is not refused | `AlarmsAreTrue` | `RestInv`: a draft that began in the present state of the account holds exactly the pages of it that were read, so at the end both collections are the account |
| `StoreProofs` | `WholeOrNothing`, `KeyIsOne`, `SchemaIsWhole` | `LockInv`: who migrates or is in a transaction holds the writer's lock and nobody else does; so (`TxInv`, `SchemaInv`) what the holder would commit is the file and its own writes, a migration is complete when it commits, and (`KeyInv`) a key once stored is the one everybody reads |
| — the rows of a run | `ParserAndTableAgree`, `MigrationKeepsEvents`, `MovedRunIsReadable`, `RecordIsReadable`, `WritesAreAccepted`, `HistoryIsKept`, `DecisionIsTakenUnless` | `Sound`: the row repeats its last attempt, so what a method's conditions let through, the CHECKs and triggers take, and every row can be parsed again; the last theorem names the two cases in which a decision about an unresolved row is refused |
| — the lease | `TypeCorrect`, `Fencing`, `TrustedOwner`, `GrantsLast` | `FencingInv`: a retired scope neither owns the row nor holds an active one, because an owner id is used once; `LocalCopyInv` (until the clock is set back): the scope's own expiry never exceeds the row's while the scope owns it, and an owner is replaced only after that time |
| `ReadsProofs` | `NothingIsLeft`, `EvidenceHolds` | `OwnedInv`: every index below the counter has its record, or one worker that is still asking for it, or the pool has been stopped; `RecordInv`, `FailureInv`, `EndInv`: a record is what GitHub said of its own repository, and a call has ended when every worker has |
| `QueriesProofs`, the statements | `SelectsWhatMatches`, `StatementsAgree` | `Answers`, by the least node at which the two would differ: below a `NOT` every comparison is true or false, because a column that may be null is coalesced. `TermsAgree`, `OrderedAgrees`: each term of the ORDER BY is the domain's. So `Sorted` lists the rows by their rank in a strict order (`ListingOrder`, `RestOfListing`), and the rows after a boundary are the rest of that list (`KeysetAgrees`) |
| — the chains | `PagesAreTheResult`, `PagesEndWithTheTotal`, `RepeatedIsAnswered` | `QueriesInv`: what a chain has read is a beginning of the whole, its next cursor is the position of the last row read and bound to what the chain is of (`SnapshotChain`, `InspectedChain`, `CandidateChain`); a pinned request has the same binding at any later time (`StillPinned`), so its cursor's row is found again; a history that is being read only grows (`ReadingInv`). `Follows` is kept by every page (`NotedPage`) and by everything others write (`ChainKept`) |
| `ChangesProofs`, what is protected | `ShieldsAreKept` | `ShieldInv`: a plan's operations were resolved from a request or inverted from a plan (`PlanSpares`, `UndoSpares`), the rows of a run are those of its first operations in the topological order, in which everything an operation depends on comes before it, and no List that a run has created is a protected one, because a protected one had an id when it was named. Below both: an order by keys lists every member of a finite set once (`PairsOrdered`, `ListIsSequence`), and the topological order of an executable plan is all of it (`GraphOrdered`) |
| — what finds its precondition | `PlansHold` | `Coherent`: what the resolver leaves in a plan fits the snapshot (`Fits`), and no two of its operations take away what the other expects (`Apart`); each kind of effect then leaves the precondition of every other operation (`StarLeaves`, …, `MembershipLeaves`), so in an undisturbed run (`HoldInv`) every operation without a row finds what it expects and every other one is settled |
| — what a plan does | `PlansDoWhatIsAsked` | `DoneInv`, on top of the two above: the plan is what the resolver makes of the request (`Planned`), and while nobody else has changed the account and no row has failed, the account is the snapshot changed by the operations that have a row (`AsPlanned`: `StarsSo`, `ListsSo`, `MetasSo`, `FilesSo`). Each effect moves the account as its row says (`PlannedGo`), because no two operations of a coherent plan have one target. At the end every operation has its row, and the converse of the resolver (`OperationsAreDrafted`, `Means`: every wish that is not already so has its operation, and every operation comes from a wish) turns that into what the request says, one lemma for each part of the account |

What the theorems assume, beside the named assumptions on the constants:

- `ImplementsLedger` and `AppliesInOrder` assume `HonestTransport` (an error that says
  "not applied" is right), which is what `PromiseKeptButForTheGate` proves of a dispatch, whose exception is a
  case in which the code breaks it;
  the other theorems about rows hold whatever the transport says. `EffectsAreSingle` and
  `OutcomesTrue` also assume that nobody else edits the account (`MaxEdits = 0`): after
  an edit the target no longer tells who changed it, for the code as for the model.
- The theorems about a dispatch assume `Truthful` (what GitHub answers is so), and nothing
  about its headers. `PromiseKeptButForTheGate` excepts `Hidden` by name, and
  `GateHidesTheDispatch` proves that each such answer puts "failed" on record.
- `SnapshotsAreReal` assumes `~Returns`, the fact about items above. `AlarmsAreTrue` does not;
  it rests on `CursorRepeats`, the fact about cursors above.
- The theorems about `Queries` assume `QueriesAssumption` only: a stored snapshot has a
  repository once and memberships of its own Lists (the primary and foreign keys of
  `storage/migrations/001-initial.ts`), a request is what the parsers let through (a
  filter's nodes of known fields, a limit of 1 to 100), and a null is no value
  (`SelectionAssumption`). Snapshots, requests, attempts and discoveries are any number.
- The theorems about `Changes` assume `ChangesAssumption` only: repositories are finitely
  many and numbered, an account has its Lists numbered from 1 and memberships in its own
  Lists only, and a request is a finite set of actions that the parser has let through, in
  which whoever creates a List gives it one client reference, and new values are of known
  fields. In a stored snapshot only starred repositories are members of a List: the table of
  memberships refers to that of stars (`storage/migrations/001-initial.ts:261`).

The invariants are stronger than the properties for the usual reason: what is true of the
published, recorded or closed state follows only from what is true of every call under
way. `SyncProofs` and `ApplyRunProofs` show it best. A snapshot is compared at one
moment, but that the comparison means anything depends on what each page read since
has left behind; a verdict is written by one call, but that it is right depends on no
other call having a mutation of that row on the wire.

The first of those two cases, a row without a start, is the finding below. The
second (an unresolved row whose attempt was refused) no sequence of the apply service's
calls reaches.

Checked by TLC only:

- the liveness properties (`EveryCallEnds`, `RunsAreClosed`, `LeaseIsGivenBack`,
  `AbortsEnd`, `DraftsAreClosed`, `ShutdownEnds`): fairness and ENABLED are out of the
  prover's reach;
- of `Changes`: what relates a rollback to the run before it (`RollbackRestores`,
  `EditsStand`, `StarsOutlastMemberships`), which needs the inverse of a whole run;
- what `Planning` and `Metadata` compute, which is compared with reference definitions
  over bounded inputs: statements about every plan need induction over data.

## Findings

`apply_stuck` — an operation whose attempt failed retryably is queued again, which clears its
start (`retryRunOperation`). If it then fails before its next dispatch, resuming
finds the row among those to reconcile (`app/services/apply-service.ts:1081`),
but the row reconciliation would write has no start and the run's parser rejects
it. Every resume fails in its first phase, where the design (APPLY-11) says that a
retry reconciles and goes on. `PROJECT.json` quotes the text.

`dispatch_hidden` — a 5xx or 408 to a mutation that was sent, with a rate-limit reset that
has passed or is more than a day away: the gate throws before `executeMutationOnce` asks
whether the request had been dispatched, and the operation is recorded as failed for good
where the troubleshooting guide says that the server records an ambiguous response and
reconciles with a read. The mutation may land and nobody looks.

The remarks in the sections above (a renewal within a millisecond, an
item that returns, a snapshot of two moments, a created list that was filled, cursors that cannot be followed, a
plan that has expired while partial and can never be resumed,
`app/services/apply-service.ts:478`) are differences a reader of the documents may
notice too; they have no run of their own.

## What is not modelled

Status, redaction, canonical JSON, schemas and the mapping of results, configuration,
credentials, logging and the command line read or format immutable values and
share no state. The building of search queries is formatting. The release and repository
scripts are not part of the server. The SQLite engine is taken
at its word: an immediate transaction is atomic, isolated and durable. File permissions and
ownership are the operating system's. Hashes, signatures and the lengths of texts are
abstracted as described with their modules; pages of lists and of items are one each in
`Sync`; the rollback of a rollback is left out.

## Plan

What is left, in order of what it is worth:

1. `RollbackRestores`, `EditsStand` and `StarsOutlastMemberships` of `Changes` for every
   request: that the inverse of a run is one.
2. The hazard without a property: a mutation that lands after the
   safety window needs an `ApplyRun` without `Quiet`, whose effects are then no longer
   the code's to order.
