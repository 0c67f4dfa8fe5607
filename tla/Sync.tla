--------------------------------- MODULE Sync ---------------------------------
(***************************************************************************)
(* stars_sync: a call collects the stars, the lists and the items of the    *)
(* lists page by page, collects all of it a second time in another order,   *)
(* and publishes the first collection as a snapshot if both agree           *)
(* (app/services/sync-service.ts, storage/snapshot-repository.ts).  The     *)
(* account is changed by its owner in the meantime.  A call works under a   *)
(* lease, here reduced to its holder; a lease that has ended is held by     *)
(* nobody (module Lease has the rest).                                      *)
(*                                                                          *)
(* A remote read and the append of its page are one action: the append      *)
(* follows in the same turn of the event loop, and staged rows are private  *)
(* to the draft.  The counts kept beside the rows grow with every append,   *)
(* so they are the sizes of the staged sets.                                *)
(***************************************************************************)
EXTENDS Integers, Sequences, SequencesExt

CONSTANTS
    Repo, List, Call,
    PageSize,       \* stars in one page of GET /user/starred
    MaxAttempts,    \* drafts of one call
    IncludeLists,   \* the call's input: are lists asked for?
    Probes,         \* what probes of reading stars and lists may meet
    Starred,        \* the stars at first, newest first
    Listed,         \* List -> SUBSET Repo, the items at first
    Returns,        \* may an item that left a list come back?
    MaxEdits,       \* bound: changes of the account
    None

ASSUME SyncAssumption ==
    /\ PageSize \in Nat \ {0}
    /\ MaxAttempts \in Nat \ {0}
    /\ IncludeLists \in BOOLEAN /\ Returns \in BOOLEAN
    /\ Probes \subseteq [star: STRING, list: STRING]
    /\ Starred \in Seq(Repo)
    /\ \A i, j \in DOMAIN Starred : Starred[i] = Starred[j] => i = j
    /\ Listed \in [List -> SUBSET ToSet(Starred)]
    /\ MaxEdits \in Nat
    /\ None \notin Call

VARIABLES
    stars,      \* GitHub: the stars, newest first, with their time
    lists,      \* GitHub: time of the last change of a list; 0 deleted
    items,      \* GitHub: the items of each list
    gone,       \* GitHub: the items that left their list
    snap,       \* durable: the rows of each snapshot
    holder,     \* durable: the owner of the sync lease
    pc,         \* where a call is
    coverage,   \* what its snapshot will say of the lists (finalCoverage)
    attempt,    \* which of its drafts a call is at
    second,     \* is it in its second collection?
    page,       \* the next page of stars
    seen,       \* ids met in the collection of stars (seenIds)
    todo,       \* lists whose items are still to be read
    aborted,    \* the calls whose signal fired or whose heartbeat failed
    past,       \* history: all states of the account
    since,      \* history: the state in which the draft of a call began
    overlapped  \* history: drafts during which another one was published

account == <<stars, lists, items, gone, past>>
reader == <<page, seen, todo>>
vars == <<stars, lists, items, gone, snap, holder, pc, coverage, attempt,
          second, page, seen, todo, aborted, past, since, overlapped>>

Snapshot == Call \X (1..MaxAttempts)
Star == [repo: Repo, at: Nat]
Contents == [stars: SUBSET Star, lists: SUBSET (List \X Nat),
             items: SUBSET (List \X Repo)]
Nothing == [stars |-> {}, lists |-> {}, items |-> {}]
Reading == {"stars", "lists", "items"}
Drafting == Reading \cup {"turning", "verifying", "publishing"}
ListCoverage == {"none", "collecting", "complete", "unavailable", "omitted"}
PC == Drafting \cup {"idle", "recovering", "creating", "changed", "failed",
                     "leaving", "ended", "crashed"}

TypeOK ==
    /\ stars \in Seq(Star)
    /\ lists \in [List -> Nat]
    /\ items \in [List -> SUBSET Repo]
    /\ gone \subseteq List \X Repo
    /\ snap \in [Snapshot ->
                    [status: {"none", "building", "complete", "failed"},
                     coverage: ListCoverage,
                     marker: {"none", "collecting", "verified"},
                     staged: Contents, verified: Contents]]
    /\ holder \in Call \cup {None}
    /\ pc \in [Call -> PC]
    /\ coverage \in [Call -> ListCoverage \ {"collecting"}]
    /\ attempt \in [Call -> 1..MaxAttempts]
    /\ second \in [Call -> BOOLEAN]
    /\ page \in [Call -> Nat \ {0}]
    /\ seen \in [Call -> SUBSET Repo]
    /\ todo \in [Call -> SUBSET List]
    /\ aborted \subseteq Call
    /\ past \in Seq(Contents)
    /\ since \in [Call -> Nat]
    /\ overlapped \subseteq Snapshot

\* The account as a snapshot would show it.
Account ==
    [stars |-> ToSet(stars),
     lists |-> {<<l, lists[l]>> : l \in {m \in List : lists[m] > 0}},
     items |-> {x \in List \X Repo : x[2] \in items[x[1]]}]

NoRows == [status |-> "none", coverage |-> "none", marker |-> "none",
           staged |-> Nothing, verified |-> Nothing]

Init ==
    /\ stars = [i \in DOMAIN Starred |-> [repo |-> Starred[i], at |-> 1]]
    /\ lists = [l \in List |-> 1]
    /\ items = Listed
    /\ gone = {}
    /\ snap = [s \in Snapshot |-> NoRows]
    /\ holder = None
    /\ pc = [c \in Call |-> "idle"]
    /\ coverage = [c \in Call |-> "none"]
    /\ attempt = [c \in Call |-> 1]
    /\ second = [c \in Call |-> FALSE]
    /\ page = [c \in Call |-> 1]
    /\ seen = [c \in Call |-> {}]
    /\ todo = [c \in Call |-> {}]
    /\ aborted = {}
    /\ past = <<Account>>
    /\ since = [c \in Call |-> 0]
    /\ overlapped = {}

----------------------------------------------------------------------------
(* Mutated conditions: each is a plausible bug that some run rejects.       *)

OwnsUnasked(c) == TRUE
DiffersOneWay(x) == ~(x.staged.stars \subseteq x.verified.stars
                        /\ x.staged.items \subseteq x.verified.items)
AbandonedIfVerifying(s) ==
    snap[s].marker # "none" /\ snap[s].status = "building" /\ holder # s[1]
KeptIds(c) == seen[c]

----------------------------------------------------------------------------
(* The rows.                                                                *)

Draft(c) == <<c, attempt[c]>>
Rows(c) == snap[Draft(c)]

\* #assertMutation: the draft is building and the active lease its owner's.
Owns(c) == Rows(c).status = "building" /\ holder = c

\* #recoverRows takes the drafts whose owner has no active lease.
Abandoned(s) == snap[s].status = "building" /\ holder # s[1]

\* failSnapshot and #recoverRows: the draft is failed, its verification
\* deleted.  Its staged rows stay in the tables, where nothing reads them.
FailedRows(x) == [x EXCEPT !.status = "failed", !.marker = "none",
                           !.staged = Nothing, !.verified = Nothing]

\* #hasDifference, both ways, over stars, lists and items.
Differs(x) == x.staged # x.verified

\* Staged items whose list or star was not staged.
Orphans(x) ==
    {y \in x.staged.items :
        \/ \A l \in x.staged.lists : l[1] # y[1]
        \/ \A s \in x.staged.stars : s.repo # y[2]}

Merged(old, batch) ==
    [stars |-> old.stars \cup batch.stars,
     lists |-> old.lists \cup batch.lists,
     items |-> old.items \cup batch.items]
HoldsLists(batch) == batch.lists # {} \/ batch.items # {}

\* appendSnapshotBatch: a snapshot that says nothing of the lists takes none.
AppendSnapshot(c, batch) ==
    /\ HoldsLists(batch) => Rows(c).coverage = "collecting"
    /\ snap' = [snap EXCEPT ![Draft(c)].staged = Merged(@, batch)]

\* appendSnapshotVerificationBatch
AppendVerification(c, batch) ==
    /\ Rows(c).marker = "collecting"
    /\ HoldsLists(batch) => coverage[c] = "complete"
    /\ snap' = [snap EXCEPT ![Draft(c)].verified = Merged(@, batch)]

AppendBatch(c, batch) ==
    IF second[c] THEN AppendVerification(c, batch) ELSE AppendSnapshot(c, batch)

----------------------------------------------------------------------------
(* The account.                                                             *)

Now == Len(past) + 1
Has(r) == \E i \in DOMAIN stars : stars[i].repo = r
Edited == Len(past) <= MaxEdits /\ past' = Append(past, Account')
                                /\ UNCHANGED <<snap, holder, pc, coverage,
                                               attempt, second, reader,
                                               aborted, since, overlapped>>

StarIt(r) ==
    /\ ~Has(r)
    /\ stars' = <<[repo |-> r, at |-> Now]>> \o stars
    /\ UNCHANGED <<lists, items, gone>>
    /\ Edited

\* GitHub takes a repository that is no longer starred out of its lists.
Unstar(r) ==
    /\ \E i \in DOMAIN stars :
         stars[i].repo = r /\ stars' = RemoveAt(stars, i)
    /\ items' = [l \in List |-> items[l] \ {r}]
    /\ gone' = gone \cup {<<l, r>> : l \in {m \in List : r \in items[m]}}
    /\ UNCHANGED lists
    /\ Edited

\* lastAddedAt is part of the list's metadata.
AddItem(l, r) ==
    /\ lists[l] > 0 /\ Has(r) /\ r \notin items[l]
    /\ <<l, r>> \in gone => Returns
    /\ items' = [items EXCEPT ![l] = @ \cup {r}]
    /\ lists' = [lists EXCEPT ![l] = Now]
    /\ UNCHANGED <<stars, gone>>
    /\ Edited

RemoveItem(l, r) ==
    /\ r \in items[l]
    /\ items' = [items EXCEPT ![l] = @ \ {r}]
    /\ gone' = gone \cup {<<l, r>>}
    /\ UNCHANGED <<stars, lists>>
    /\ Edited

DeleteList(l) ==
    /\ lists[l] > 0
    /\ lists' = [lists EXCEPT ![l] = 0]
    /\ items' = [items EXCEPT ![l] = {}]
    /\ UNCHANGED <<stars, gone>>
    /\ Edited

Edit ==
    \/ \E r \in Repo : StarIt(r) \/ Unstar(r)
    \/ \E l \in List : DeleteList(l)
    \/ \E l \in List, r \in Repo : AddItem(l, r) \/ RemoveItem(l, r)

----------------------------------------------------------------------------
(* A sync call.                                                             *)

Goto(c, label) == pc' = [pc EXCEPT ![c] = label]

\* assertActive; that the lease is still there is asserted by the storage.
Active(c) == c \notin aborted

\* A draft given up because of a change is followed by another one.
Again(c) == pc[c] = "changed" /\ attempt[c] < MaxAttempts

\* capabilityFromError: a probe is told "available" or how it failed.
Capability(told) ==
    CASE told = "available" -> "available"
      [] told \in {"AUTH_REQUIRED", "INSUFFICIENT_PERMISSION", "NOT_FOUND",
                   "CAPABILITY_UNAVAILABLE"} -> "unavailable"
      [] OTHER -> "unknown"

\* Each of the two is probed by a read of its own; no write is tried.
ProbeCapabilities(probe) ==
    [starRead |-> Capability(probe.star), listRead |-> Capability(probe.list)]

\* Stars that cannot be read, and lists that perhaps can, refuse the call.
Refused(probe) ==
    \/ ProbeCapabilities(probe).starRead # "available"
    \/ IncludeLists /\ ProbeCapabilities(probe).listRead = "unknown"

FinalCoverage(probe) ==
    IF ~IncludeLists THEN "omitted"
    ELSE IF ProbeCapabilities(probe).listRead = "unavailable" THEN "unavailable"
    ELSE "complete"

DraftCoverage(c) ==
    IF coverage[c] = "complete" THEN "collecting" ELSE coverage[c]

\* Where a collection goes on.
WithLists(c) == coverage[c] = "complete"
AfterStars(c) ==
    IF second[c] THEN "verifying" ELSE IF WithLists(c) THEN "lists" ELSE "turning"
AfterLists(c) == IF second[c] THEN "stars" ELSE "turning"

\* probeCapabilities, and the lease for the account.
Acquire(c) ==
    /\ pc[c] = "idle"
    /\ \E probe \in Probes :
         IF ~Refused(probe) /\ holder = None
           THEN /\ holder' = c
                /\ coverage' = [coverage EXCEPT ![c] = FinalCoverage(probe)]
                /\ Goto(c, "recovering")
           ELSE Goto(c, "ended") /\ UNCHANGED <<holder, coverage>>
    /\ UNCHANGED <<account, snap, attempt, second, reader, aborted, since,
                   overlapped>>

\* recoverAbandonedSnapshots
RecoverAbandoned(c) ==
    /\ pc[c] = "recovering" /\ Active(c) /\ holder = c
    /\ snap' = [s \in Snapshot |-> IF Abandoned(s) THEN FailedRows(snap[s])
                                                   ELSE snap[s]]
    /\ Goto(c, "creating")
    /\ UNCHANGED <<account, coverage, holder, attempt, second, reader, aborted,
                   since, overlapped>>

\* createSnapshot
Create(c) ==
    /\ pc[c] = "creating" /\ Active(c) /\ holder = c
    /\ snap' = [snap EXCEPT ![Draft(c)].status = "building",
                            ![Draft(c)].coverage = DraftCoverage(c)]
    /\ second' = [second EXCEPT ![c] = FALSE]
    /\ page' = [page EXCEPT ![c] = 1]
    /\ seen' = [seen EXCEPT ![c] = {}]
    /\ since' = [since EXCEPT ![c] = Len(past)]
    /\ Goto(c, "stars")
    /\ UNCHANGED <<account, coverage, holder, attempt, todo, aborted,
                   overlapped>>

\* The ids met in this collection so far.
Met(c) == IF page[c] = 1 THEN {} ELSE seen[c]

\* listStarredRepositories: page numbers, and the link to the next page.
StarPage(n) ==
    {stars[i] : i \in {j \in DOMAIN stars : (n - 1) * PageSize < j
                                              /\ j <= n * PageSize}}
NextPage(n) == Len(stars) > n * PageSize

\* listUserLists and listUserListItems: each in one page.
ListsPage == Account.lists
ItemsPage(l) == {l} \X items[l]
NotFound(l) == lists[l] = 0

\* nextCursor: a page may name a cursor that was named before, which gives the draft
\* up.  GitHub's cursors are assumed to do so only in a collection that changed.
CursorRepeats(c) == IF since[c] < Len(past) THEN BOOLEAN ELSE {FALSE}

\* collectStars: one page; page numbers, so that a star that goes makes the
\* later ones move up.  An id met twice gives the draft up.
ReadStars(c) ==
    LET found == StarPage(page[c])
        ids == {s.repo : s \in found}
        more == NextPage(page[c])
    IN  /\ pc[c] = "stars" /\ Active(c) /\ Owns(c)
        /\ IF ids \cap Met(c) # {}
             THEN Goto(c, "changed") /\ UNCHANGED <<snap, page, seen>>
             ELSE /\ AppendBatch(c, [Nothing EXCEPT !.stars = found])
                  /\ seen' = [seen EXCEPT ![c] = Met(c) \cup ids]
                  /\ page' = [page EXCEPT ![c] = IF more THEN @ + 1 ELSE 1]
                  /\ \E repeats \in CursorRepeats(c) :
                       IF ~more THEN Goto(c, AfterStars(c))
                       ELSE IF repeats THEN Goto(c, "changed") ELSE UNCHANGED pc
        /\ UNCHANGED <<account, coverage, holder, attempt, second, todo,
                       aborted, since, overlapped>>

\* collectListMetadata: the lists fit in one page (which stands for the last of
\* several where a cursor repeats).
ReadLists(c) ==
    LET found == ListsPage
    IN  /\ pc[c] = "lists" /\ Active(c) /\ Owns(c)
        /\ AppendBatch(c, [Nothing EXCEPT !.lists = found])
        /\ todo' = [todo EXCEPT ![c] = {x[1] : x \in found}]
        /\ \E repeats \in CursorRepeats(c) :
             Goto(c, IF repeats THEN "changed"
                     ELSE IF found = {} THEN AfterLists(c) ELSE "items")
        /\ UNCHANGED <<account, coverage, holder, attempt, second, page, seen,
                       aborted, since, overlapped>>

\* collectMemberships of the next list, in one page; a list that is not found
\* any more gives the draft up.
ReadItems(c) ==
    /\ pc[c] = "items" /\ Active(c) /\ Owns(c)
    /\ \E l \in todo[c] :
         IF NotFound(l)
           THEN Goto(c, "changed") /\ UNCHANGED <<snap, todo>>
           ELSE /\ AppendBatch(c, [Nothing EXCEPT !.items = ItemsPage(l)])
                /\ todo' = [todo EXCEPT ![c] = @ \ {l}]
                /\ \E repeats \in CursorRepeats(c) :
                     IF repeats THEN Goto(c, "changed")
                     ELSE IF todo[c] = {l} THEN Goto(c, AfterLists(c))
                     ELSE UNCHANGED pc
    /\ UNCHANGED <<account, coverage, holder, attempt, second, page, seen,
                   aborted, since, overlapped>>

\* A page that parsePage refuses: too long, without a usable cursor, or with a
\* warning, as for an item of a list that is no repository.
RefusePage(c) ==
    /\ pc[c] \in Reading
    /\ Goto(c, "failed")
    /\ UNCHANGED <<account, coverage, snap, holder, attempt, second, reader,
                   aborted, since, overlapped>>

\* beginSnapshotVerification: now the lists first and the stars last.
BeginVerification(c) ==
    /\ pc[c] = "turning" /\ Active(c) /\ Owns(c)
    /\ snap' = [snap EXCEPT ![Draft(c)].marker = "collecting"]
    /\ second' = [second EXCEPT ![c] = TRUE]
    /\ Goto(c, IF WithLists(c) THEN "lists" ELSE "stars")
    /\ UNCHANGED <<account, coverage, holder, attempt, reader, aborted, since,
                   overlapped>>

\* finishSnapshotVerification
FinishVerification(c) ==
    /\ pc[c] = "verifying" /\ Active(c) /\ Owns(c)
    /\ Rows(c).marker = "collecting"
    /\ snap' = [snap EXCEPT ![Draft(c)].marker = "verified"]
    /\ Goto(c, "publishing")
    /\ UNCHANGED <<account, coverage, holder, attempt, second, reader, aborted,
                   since, overlapped>>

\* completeSnapshot, one transaction: both collections agree and are closed
\* under their references, or the draft is given up.
Publish(c) ==
    /\ pc[c] = "publishing" /\ Active(c) /\ Owns(c)
    /\ Rows(c).marker = "verified"
    /\ IF Orphans(Rows(c)) # {} \/ Differs(Rows(c))
         THEN Goto(c, "changed") /\ UNCHANGED <<snap, overlapped>>
         ELSE /\ snap' = [snap EXCEPT ![Draft(c)].status = "complete",
                                      ![Draft(c)].coverage = coverage[c],
                                      ![Draft(c)].marker = "none",
                                      ![Draft(c)].verified = Nothing]
              /\ overlapped' = overlapped \cup
                    {s \in Snapshot \ {Draft(c)} : snap[s].status = "building"}
              /\ Goto(c, "leaving")
    /\ UNCHANGED <<account, coverage, holder, attempt, second, reader, aborted,
                   since>>

\* A read or a storage call fails, the signal fired, or the lease is gone.
BreakOff(c) ==
    /\ \/ pc[c] \in Drafting /\ Goto(c, "failed")
       \/ pc[c] \in {"recovering", "creating"} /\ Goto(c, "leaving")
    /\ UNCHANGED <<account, coverage, snap, holder, attempt, second, reader,
                   aborted, since, overlapped>>

\* The draft is failed if the lease is still owned, aborted or not.
FailDraft(c) ==
    /\ pc[c] \in {"changed", "failed"} /\ Owns(c)
    /\ snap' = [snap EXCEPT ![Draft(c)] = FailedRows(@)]
    /\ IF Again(c)
         THEN /\ attempt' = [attempt EXCEPT ![c] = @ + 1]
              /\ Goto(c, "creating")
         ELSE Goto(c, "leaving") /\ UNCHANGED attempt
    /\ UNCHANGED <<account, coverage, holder, second, reader, aborted, since,
                   overlapped>>

\* failSnapshot fails as well, or the lease is not the call's any more: the
\* draft stays as it is.
AbandonDraft(c) ==
    /\ pc[c] \in {"changed", "failed"}
    /\ Goto(c, "leaving")
    /\ UNCHANGED <<account, coverage, snap, holder, attempt, second, reader,
                   aborted, since, overlapped>>

\* The release, which may fail.
Leave(c) ==
    /\ pc[c] = "leaving"
    /\ \/ holder = c /\ holder' = None
       \/ UNCHANGED holder
    /\ Goto(c, "ended")
    /\ UNCHANGED <<account, coverage, snap, attempt, second, reader, aborted,
                   since, overlapped>>

----------------------------------------------------------------------------
(* Around it.                                                               *)

\* The caller's signal, or a heartbeat that could not write.
Abort(c) ==
    /\ pc[c] \notin {"idle", "ended", "crashed"}
    /\ aborted' = aborted \cup {c}
    /\ UNCHANGED <<account, coverage, snap, holder, pc, attempt, second,
                   reader, since, overlapped>>

Crash(c) ==
    /\ pc[c] \notin {"idle", "ended", "crashed"}
    /\ Goto(c, "crashed")
    /\ UNCHANGED <<account, coverage, snap, holder, attempt, second, reader,
                   aborted, since, overlapped>>

\* The lease ends: its owner is gone, or its heartbeat came too late.
Expire ==
    /\ holder # None
    /\ holder' = None
    /\ UNCHANGED <<account, coverage, snap, pc, attempt, second, reader,
                   aborted, since, overlapped>>

\* recoverIncompleteSnapshots: some server process is started.
Startup ==
    /\ \E s \in Snapshot : Abandoned(s)
    /\ snap' = [s \in Snapshot |-> IF Abandoned(s) THEN FailedRows(snap[s])
                                                   ELSE snap[s]]
    /\ UNCHANGED <<account, coverage, holder, pc, attempt, second, reader,
                   aborted, since, overlapped>>

Step(c) ==
    \/ Acquire(c) \/ RecoverAbandoned(c) \/ Create(c) \/ ReadStars(c)
    \/ ReadLists(c) \/ ReadItems(c) \/ RefusePage(c) \/ BeginVerification(c)
    \/ FinishVerification(c) \/ Publish(c) \/ BreakOff(c) \/ FailDraft(c)
    \/ AbandonDraft(c) \/ Leave(c)

Next ==
    \/ \E c \in Call : Step(c) \/ Abort(c) \/ Crash(c)
    \/ Edit \/ Expire \/ Startup

Spec == Init /\ [][Next]_vars

\* The event loop and GitHub go on, leases end with time, and the server is
\* started again.
FairSpec ==
    /\ Spec
    /\ \A c \in Call : WF_vars(Step(c))
    /\ WF_vars(Expire) /\ WF_vars(Startup)

----------------------------------------------------------------------------
(* Properties.                                                              *)

Publishes(s) == snap[s].status # "complete" /\ snap'[s].status = "complete"

\* What a snapshot shows was so: its stars at one moment since its collection
\* began, its lists with their items at one moment after it, at which all these
\* stars were still there; a star it lacks of that later moment is gone by now.
WasSo(row, from) ==
    \E t \in from..Len(past) :
        /\ row.staged.stars = past[t].stars
        /\ \/ /\ row.coverage \in {"unavailable", "omitted"}
              /\ row.staged.lists = {} /\ row.staged.items = {}
           \/ /\ row.coverage = "complete"
              /\ \E i \in t..Len(past) :
                    /\ row.staged.lists = past[i].lists
                    /\ row.staged.items = past[i].items
                    /\ row.staged.stars \subseteq past[i].stars
                    /\ (past[i].stars \ row.staged.stars) \cap ToSet(stars) = {}

\* A published snapshot says nothing that was not so, although no two of its
\* pages were read at the same time (the two collections, SYNC-04).  And it says
\* that it is without the lists exactly if it is, so that an account whose lists
\* could not be read never looks like one that has none.
PublishedIsReal ==
    [][\A s \in Snapshot : Publishes(s) => WasSo(snap'[s], since[s[1]])]_vars

\* A published snapshot is the account as it was at one moment of its
\* collection (SYNC-04: the second enumeration "proves that the Star set and,
\* when collected, every normalized List metadata field and membership did not
\* change during collection").  No run checks it: a repository starred after
\* the first look at the stars and unstarred before the second is in neither,
\* and a change of a list in that time is in both looks at the lists.
PublishedIsOneMoment ==
    [][\A s \in Snapshot : Publishes(s) =>
          LET row == snap'[s]
              saw(was) == IF row.coverage = "complete" THEN was
                          ELSE [was EXCEPT !.lists = {}, !.items = {}]
          IN  \E i \in since[s[1]]..Len(past) : row.staged = saw(past[i])]_vars

\* A draft is given up as changed only if the account did change meanwhile: an
\* account at rest is published in the first attempt.
NoFalseAlarm ==
    [][\A c \in Call : pc[c] # "changed" /\ pc'[c] = "changed" =>
          since[c] < Len(past)]_vars

\* No draft is published if another one was published while it was collected
\* (SYNC-08: overlapping snapshots).
NoOverlap == \A s \in overlapped : snap[s].status # "complete"

\* While a call collects under its lease, its own draft is the only one: what
\* others left behind has been failed.
OneDraft ==
    \A c \in Call : pc[c] \in Drafting /\ holder = c =>
        \A s \in Snapshot : snap[s].status = "building" => s = Draft(c)

\* No draft is left building for ever, whatever its call died of.
DraftsAreClosed ==
    \A s \in Snapshot : snap[s].status = "building"
                            ~> snap[s].status \in {"complete", "failed"}
=============================================================================
