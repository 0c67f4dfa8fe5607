------------------------------ MODULE Queries -------------------------------
(***************************************************************************)
(* Reading in pages.  A client asks for the repositories, the Lists or the  *)
(* memberships of a snapshot (app/services/query-service.ts,                *)
(* lists-query-service.ts), for a plan, a run or an operation's history     *)
(* (inspect-service.ts) or for the candidates of earlier discoveries        *)
(* (candidate-query-service.ts), and continues with the cursor of the page  *)
(* before.  Meanwhile syncs publish snapshots, another process records      *)
(* attempts, discoveries refresh candidates, and time passes.               *)
(*                                                                          *)
(* A page is read in one step, except two that take two statements outside  *)
(* a transaction, between which another process may write: the history of   *)
(* an operation is counted, then read (storage/plan-run-repository.ts); the *)
(* candidates are read, then counted (storage/snapshot-repository.ts).      *)
(* Attempts and reconciliations are read alike and are one kind here.       *)
(***************************************************************************)
EXTENDS Selection

CONSTANTS
    Collected,      \* the contents a published snapshot may have
    Requests,       \* what the client may ask
    Operations,     \* operations of the inspected plan and of its run
    MaxSnapshots,   \* bound: published snapshots
    MaxAttempts,    \* bound: attempts of the inspected operation
    Now0, MaxNow,   \* bound: the clock's first and last value
    Found           \* repositories a discovery may find

OfSnapshots == {"repositories", "lists", "of_list", "of_repository"}
Inspected == {"plan", "run", "history"}
Kinds == OfSnapshots \cup Inspected \cup {"candidates"}

\* What a complete snapshot contains: a repository once, of known Lists only.
Snapshot(s) ==
    /\ s = [rows |-> s.rows, names |-> s.names, own |-> s.own, covered |-> s.covered]
    /\ IsFiniteSet(s.rows) /\ s.rows \subseteq Repository
    /\ \A r1, r2 \in s.rows : r1.id = r2.id => r1 = r2
    /\ s.names \in [DOMAIN s.names -> Int]
    /\ IsFiniteSet(DOMAIN s.names) /\ DOMAIN s.names \subseteq Nat
    /\ \A r \in s.rows : r.lists \subseteq DOMAIN s.names
    /\ s.own \in BOOLEAN /\ s.covered \in BOOLEAN

\* What the parsers of the requests let through: the i-th node of a filter,
\* whose fitness IsFilter tells, and a request.
Node(n, i) ==
    /\ DOMAIN n = {"op", "field", "value", "of", "ago"}
    /\ n.value \subseteq Int /\ IsFiniteSet(n.value)
    /\ n.of \subseteq 1..i-1 /\ n.ago \in BOOLEAN
    /\ n.op \notin Composites =>
          /\ n.field \in Fields
          /\ n.field = "is_unclassified" => n.value \in {{0}, {1}}

Request(a) ==
    /\ a.kind \in Kinds /\ a.snapshot \in Nat /\ a.selector \in Nat
    /\ a.filter = [i \in 1..Len(a.filter) |-> a.filter[i]] /\ Len(a.filter) \in Nat
    /\ \A i \in DOMAIN a.filter : Node(a.filter[i], i)
    /\ a.sort \in Seq(SortTerm)
    /\ a.limit \in 1..100 /\ a.evidence \in Nat

ASSUME QueriesAssumption ==
    /\ {Operations, MaxSnapshots, MaxAttempts, Now0, MaxNow} \subseteq Nat
    /\ \A s \in Collected : Snapshot(s)
    /\ \A a \in Requests : Request(a)
    /\ IsFiniteSet(Found) /\ Found \subseteq Nat

VARIABLES
    snapshots,      \* the published snapshots, in the order of completion
    now,            \* the clock
    attempts,       \* the number of attempts of the inspected operation
    found,          \* candidate -> when it was last discovered
    chain,          \* history: the pages the client has read so far
    reading,        \* a page between its two statements
    refused         \* history: how the last continuation was refused

vars == <<snapshots, now, attempts, found, chain, reading, refused>>

None == [of |-> [kind |-> "none"], values |-> << >>, id |-> 0]
NoChain == [of |-> [kind |-> "none"], items |-> << >>, total |-> 0, next |-> None]
NotReading == [count |-> 0, cursor |-> None, request |-> [kind |-> "none"],
               rows |-> << >>, steady |-> TRUE]

\* The lists of a row are what the account has: a snapshot without List
\* coverage has stored no membership.
Stored(s) == IF s.covered THEN s.rows ELSE {[r EXCEPT !.lists = {}] : r \in s.rows}

\* One binding's snapshots: another account's are never found.
Own == {i \in DOMAIN snapshots : snapshots[i].own}
SnapshotFor(a) ==
    IF a.snapshot # 0 THEN Own \cap {a.snapshot}
    ELSE {i \in Own : \A j \in Own : j <= i}

\* What a cursor of the request is bound to.
Binding(a) ==
    CASE a.kind \in OfSnapshots ->
            [kind |-> a.kind,
             snapshot |-> CHOOSE i \in SnapshotFor(a) : TRUE,
             filter |-> Resolve(a.filter, now),
             sort |-> IF a.kind = "repositories" THEN Normalized(a.sort) ELSE << >>,
             selector |-> a.selector]
      [] a.kind \in Inspected ->
            [kind |-> a.kind, snapshot |-> 0, filter |-> << >>, sort |-> << >>,
             selector |-> a.selector]
      [] OTHER -> [kind |-> a.kind, snapshot |-> 0, filter |-> << >>,
                   sort |-> << >>, selector |-> 0]

Latest(s) == s[Len(s)]
First(n, s) == SubSeq(s, 1, IF Len(s) < n THEN Len(s) ELSE n)
Ids(s) == [i \in DOMAIN s |-> s[i].id]

IdBefore(x, y) == x.id < y.id
NameBefore(x, y) == x.name < y.name \/ (x.name = y.name /\ x.id < y.id)

----------------------------------------------------------------------------
(* Mutated conditions: each is a plausible bug that some run rejects.       *)

AnyFilterOfTheSnapshot(cursor, b) ==
    cursor.of.kind = b.kind /\ cursor.of.snapshot = b.snapshot
ConsumedLessOne(after, first) == after - first
MoreIfFull(rows, limit) == Len(rows) >= limit

----------------------------------------------------------------------------
(* Pages of a snapshot.                                                     *)

\* A cursor of another resource, snapshot, filter, sort or selector fails.
BoundTo(cursor, b) == cursor.of = b

\* One row more than the page was read.
HasMore(rows, limit) == Len(rows) > limit

Page(b, rows, limit, total, Cursor(_)) ==
    LET visible == First(limit, rows)
    IN  [of |-> b,
         items |-> Ids(visible),
         total |-> total,
         next |-> IF HasMore(rows, limit) /\ visible # << >>
                  THEN Cursor(Latest(visible)) ELSE None]

Selected(s, b) ==
    CASE b.kind = "repositories" -> {r \in Stored(s) : Selects(r, b.filter)}
      [] b.kind = "lists" -> {[id |-> l, name |-> s.names[l]] : l \in DOMAIN s.names}
      [] b.kind = "of_list" -> {[id |-> r.id] : r \in {r \in Stored(s) : b.selector \in r.lists}}
      [] b.kind = "of_repository" ->
            {[id |-> l] : l \in UNION {r.lists : r \in {r \in Stored(s) : r.id = b.selector}}}

\* The boundary is a selected row and has the cursor's values.
IsBoundary(b, row, cursor) ==
    /\ row.id = cursor.id
    /\ b.kind = "repositories" => Values(row, b.sort) = cursor.values
    /\ b.kind = "lists" => row.name = cursor.values[1]

IsAfter(b, row, cursor) ==
    CASE b.kind = "repositories" -> Keyset(row, b.sort, cursor)
      [] b.kind = "lists" -> \/ row.name > cursor.values[1]
                             \/ row.name = cursor.values[1] /\ row.id > cursor.id
      [] OTHER -> row.id > cursor.id

Position(b, row) ==
    [of |-> b,
     values |-> CASE b.kind = "repositories" -> Values(row, b.sort)
                  [] b.kind = "lists" -> <<row.name>>
                  [] OTHER -> << >>,
     id |-> row.id]

InSqlOrder(b, rows) ==
    CASE b.kind = "repositories" ->
            Sorted(rows, LAMBDA x, y : OrderedBefore(x, y, b.sort))
      [] b.kind = "lists" -> Sorted(rows, NameBefore)
      [] OTHER -> Sorted(rows, IdBefore)

SnapshotAnswers(a, cursor) ==
    /\ IsFilter(a.filter)
    /\ SnapshotFor(a) # {}
    /\ LET b == Binding(a)
           s == snapshots[b.snapshot]
       IN  /\ (b.kind # "repositories" \/ RequiresListCoverage(b.filter)) => s.covered
           /\ cursor # None =>
                /\ BoundTo(cursor, b)
                /\ \E row \in Selected(s, b) : IsBoundary(b, row, cursor)

SnapshotPage(a, cursor) ==
    LET b == Binding(a)
        rows == Selected(snapshots[b.snapshot], b)
        rest == {row \in rows : cursor # None => IsAfter(b, row, cursor)}
    IN  Page(b, InSqlOrder(b, rest), a.limit, Cardinality(rows),
             LAMBDA row : Position(b, row))

----------------------------------------------------------------------------
(* Pages of the candidates: an offset into a table that is written.         *)

Candidates == {[id |-> r, at |-> found[r]] : r \in {r \in Found : found[r] # 0}}
LaterBefore(x, y) == x.at > y.at \/ (x.at = y.at /\ x.id < y.id)

CandidateRows(a, cursor) ==
    LET order == Sorted(Candidates, LaterBefore)
    IN  Ids(First(a.limit, SubSeq(order, cursor.id + 1, Len(order))))

\* The rows read before, with the count of now.
CandidatePage(a, cursor, rows) ==
    LET b == Binding(a)
        total == Cardinality(Candidates)
        consumed == cursor.id + Len(rows)
    IN  [of |-> b,
         items |-> rows,
         total |-> total,
         next |-> IF consumed < total
                  THEN [of |-> b, values |-> << >>, id |-> consumed] ELSE None]

----------------------------------------------------------------------------
(* Pages of a plan, a run and a history.                                    *)

\* The sequence numbers of a run's operations start at 0, the others at 1.
FirstBoundary(kind) == IF kind = "run" THEN 0 ELSE 1

\* Rows before the page, from the last one the cursor names.
ConsumedBefore(after, first) == after - first + 1

\* total counted, then the rows first..last read.
Rows(kind, last) == [i \in 1..last |-> [id |-> i - 1 + FirstBoundary(kind)]]

PlanPage(a, cursor) ==
    LET b == Binding(a)
        page == First(a.limit, SubSeq(Rows("plan", Operations), cursor.id + 1, Operations))
        consumed == cursor.id + Len(page)
    IN  [of |-> b, items |-> Ids(page), total |-> Operations,
         next |-> IF consumed < Operations
                  THEN [of |-> b, values |-> << >>, id |-> consumed] ELSE None]

StoredPage(a, cursor, count, last) ==
    LET b == Binding(a)
        rows == {Rows(a.kind, last)[i] : i \in 1..last}
        rest == {row \in rows : cursor # None => row.id > cursor.id}
    IN  Page(b, Sorted(rest, IdBefore), a.limit, count,
             LAMBDA row : [of |-> b, values |-> << >>, id |-> row.id])

\* A boundary beyond the counted rows is refused...
Within(a, cursor, count) ==
    cursor # None => /\ BoundTo(cursor, Binding(a))
                     /\ count > 0
                     /\ cursor.id <= count - 1 + FirstBoundary(a.kind)

\* ...and a page that is not the counted rows' next one is a storage error.
Validated(a, cursor, page) ==
    LET first == FirstBoundary(a.kind)
        before == IF cursor = None THEN 0 ELSE ConsumedBefore(cursor.id, first)
        rest == page.total - before
        expected == IF rest < a.limit THEN rest ELSE a.limit
        consumed == before + Len(page.items)
    IN  /\ before \in 0..page.total
        /\ Len(page.items) = expected
        /\ \A i \in DOMAIN page.items : page.items[i] = first + before + i - 1
        /\ (page.next = None) = (consumed >= page.total \/ page.items = << >>)

----------------------------------------------------------------------------
Init ==
    /\ snapshots \in {<<s>> : s \in Collected}
    /\ now = Now0
    /\ attempts = 0
    /\ found = [r \in Found |-> 0]
    /\ chain = NoChain
    /\ reading = NotReading
    /\ refused = "no"

Publish ==
    /\ Len(snapshots) < MaxSnapshots
    /\ \E s \in Collected : snapshots' = Append(snapshots, s)
    /\ UNCHANGED <<now, attempts, found, chain, reading, refused>>

Tick ==
    /\ now < MaxNow
    /\ now' = now + 1
    /\ UNCHANGED <<snapshots, attempts, found, chain, reading, refused>>

\* Another process applies the plan, or reconciles the operation.
Record ==
    /\ attempts < MaxAttempts
    /\ attempts' = attempts + 1
    /\ UNCHANGED <<snapshots, now, found, chain, reading, refused>>

\* saveDiscoveredCandidate: a new row, or the later time of an old one.
Discover ==
    /\ \E r \in Found : found' = [found EXCEPT ![r] = now]
    /\ chain' = IF chain.of.kind = "candidates" /\ found' # found
                THEN [chain EXCEPT !.steady = FALSE] ELSE chain
    /\ reading' = IF reading.request.kind = "candidates" /\ found' # found
                  THEN [reading EXCEPT !.steady = FALSE] ELSE reading
    /\ UNCHANGED <<snapshots, now, attempts, refused>>

\* The client notes the page: the first of a chain, or its next one.
Note(a, cursor, page) ==
    /\ refused' = "no"
    /\ chain' = IF cursor = None
                THEN [of |-> page.of, items |-> page.items, total |-> page.total,
                      next |-> page.next, asked |-> a, steady |-> reading.steady]
                ELSE [chain EXCEPT !.items = @ \o page.items,
                                   !.total = page.total,
                                   !.next = page.next]

Refuse(a, cursor, why) ==
    /\ refused' = IF why # "refused" \/ (cursor # None /\ a = chain.asked)
                  THEN why ELSE "no"
    /\ UNCHANGED chain

\* More evidence than the page has repositories fails, the last page's too.
EvidenceFits(a, page) == a.evidence > 0 => a.evidence <= Len(page.items)

QuerySnapshot(a, cursor) ==
    /\ a.kind \in OfSnapshots
    /\ IF SnapshotAnswers(a, cursor) /\ EvidenceFits(a, SnapshotPage(a, cursor))
       THEN Note(a, cursor, SnapshotPage(a, cursor))
       ELSE Refuse(a, cursor, "refused")

QueryCandidates(a, cursor) ==
    /\ a.kind = "candidates"
    /\ IF cursor # None => BoundTo(cursor, Binding(a))
       THEN /\ reading' = [NotReading EXCEPT !.cursor = cursor, !.request = a,
                                             !.rows = CandidateRows(a, cursor)]
            /\ UNCHANGED <<chain, refused>>
       ELSE Refuse(a, cursor, "refused") /\ UNCHANGED reading

InspectPlan(a, cursor) ==
    /\ a.kind = "plan"
    /\ IF cursor # None => BoundTo(cursor, Binding(a)) /\ cursor.id <= Operations
       THEN Note(a, cursor, PlanPage(a, cursor))
       ELSE Refuse(a, cursor, "refused")

\* The rows of a run are all written with it.
InspectRun(a, cursor) ==
    /\ a.kind = "run"
    /\ LET page == StoredPage(a, cursor, Operations, Operations)
       IN  IF ~Within(a, cursor, Operations) THEN Refuse(a, cursor, "refused")
           ELSE IF Validated(a, cursor, page) THEN Note(a, cursor, page)
           ELSE Refuse(a, cursor, "storage_error")

CountHistory(a, cursor) ==
    /\ a.kind = "history"
    /\ IF Within(a, cursor, attempts)
       THEN /\ reading' = [NotReading EXCEPT !.count = attempts, !.cursor = cursor,
                                             !.request = a]
            /\ UNCHANGED <<chain, refused>>
       ELSE Refuse(a, cursor, "refused") /\ UNCHANGED reading

Reads(a, cursor) ==
    \/ QuerySnapshot(a, cursor) /\ UNCHANGED reading
    \/ QueryCandidates(a, cursor)
    \/ InspectPlan(a, cursor) /\ UNCHANGED reading
    \/ InspectRun(a, cursor) /\ UNCHANGED reading
    \/ CountHistory(a, cursor)

Ask(a) ==
    /\ reading = NotReading
    /\ Reads(a, None)
    /\ UNCHANGED <<snapshots, now, attempts, found>>

\* The client sends the last cursor, with the arguments it came from or not.
Continue(a) ==
    /\ reading = NotReading
    /\ chain.next # None
    /\ Reads(a, chain.next)
    /\ UNCHANGED <<snapshots, now, attempts, found>>

ReadHistory ==
    /\ reading.request.kind = "history"
    /\ LET a == reading.request
           page == StoredPage(a, reading.cursor, reading.count, attempts)
       IN  IF Validated(a, reading.cursor, page)
           THEN Note(a, reading.cursor, page)
           ELSE Refuse(a, reading.cursor,
                       IF attempts # reading.count THEN "torn" ELSE "storage_error")
    /\ reading' = NotReading
    /\ UNCHANGED <<snapshots, now, attempts, found>>

\* The candidates' second statement.
CountCandidates ==
    /\ reading.request.kind = "candidates"
    /\ Note(reading.request, reading.cursor,
            CandidatePage(reading.request, reading.cursor, reading.rows))
    /\ reading' = NotReading
    /\ UNCHANGED <<snapshots, now, attempts, found>>

Next ==
    \/ Publish \/ Tick \/ Record \/ Discover
    \/ \E a \in Requests : Ask(a) \/ Continue(a)
    \/ ReadHistory \/ CountCandidates

Spec == Init /\ [][Next]_vars

----------------------------------------------------------------------------
(* The whole result of a request, by the domain's own definitions.          *)

Result(s, b) ==
    CASE b.kind = "repositories" ->
            Ids(Sorted({r \in s.rows : Matches(r, b.filter)},
                       LAMBDA x, y : ComesBefore(x, y, b.sort)))
      [] b.kind = "lists" ->
            Ids(Sorted({[id |-> l, name |-> s.names[l]] : l \in DOMAIN s.names}, NameBefore))
      [] b.kind = "of_list" ->
            Ids(Sorted({r \in s.rows : b.selector \in r.lists}, IdBefore))
      [] b.kind = "of_repository" ->
            Ids(Sorted({[id |-> l] : l \in {l \in DOMAIN s.names :
                            \E r \in s.rows : r.id = b.selector /\ l \in r.lists}},
                       IdBefore))

Whole(b) ==
    IF b.kind \in OfSnapshots THEN Result(snapshots[b.snapshot], b)
    ELSE Ids(Rows(b.kind, IF b.kind = "history" THEN attempts ELSE Operations))

Chained == chain # NoChain

(***************************************************************************)
(* Whatever the client does with its cursors and whatever is published      *)
(* between its calls, the pages it was given in a chain are, put together,  *)
(* a beginning of the whole result of the chain's first request: no         *)
(* repository is repeated, left out or out of its place, whichever values   *)
(* are null or equal, and no page comes from another snapshot or filter.    *)
(* (queryRepositories and its keyset, queryLists, queryListMemberships,     *)
(* inspect; the cursors' contexts in domain/cursor.ts.)                     *)
(***************************************************************************)
ChainsAreWhole ==
    Chained /\ chain.of.kind # "candidates" =>
        LET whole == Whole(chain.of)
        IN  /\ Len(chain.items) <= Len(whole)
            /\ chain.items = SubSeq(whole, 1, Len(chain.items))

(***************************************************************************)
(* A chain ends exactly when all that its last total counted has been read; *)
(* for everything but a growing history the total is the same on every      *)
(* page, and nothing is read twice.  Candidates are read by offset and then *)
(* counted, so this is said of theirs only if no discovery came between the *)
(* chain's first read and its last count.                                   *)
(***************************************************************************)
ChainsEndWithTheTotal ==
    Chained =>
        /\ chain.of.kind \in OfSnapshots \cup {"plan", "run"} =>
              chain.total = Len(Whole(chain.of))
        /\ (chain.of.kind = "candidates" => chain.steady) =>
              /\ (chain.next = None) = (Len(chain.items) = chain.total)
              /\ Cardinality({chain.items[i] : i \in DOMAIN chain.items}) = Len(chain.items)

\* The request means the same whenever it is sent, and asks no evidence.
Pinned(a) ==
    a.kind \in OfSnapshots =>
        /\ a.evidence = 0
        /\ a.snapshot # 0
        /\ \A i \in DOMAIN a.filter : ~a.filter[i].ago

(***************************************************************************)
(* A client that names its snapshot and no relative time and repeats its    *)
(* arguments with the cursor it was given is answered, through any number   *)
(* of later snapshots, attempts and discoveries, and no page that was read  *)
(* while nobody wrote is taken for a storage error.  (The boundary row of   *)
(* queryRepositories, pageBoundary and validatedPage.)                      *)
(***************************************************************************)
PinnedIsAnswered ==
    /\ refused = "refused" => ~Pinned(chain.asked)
    /\ refused # "storage_error"

(***************************************************************************)
(* A client that repeats its arguments and follows next_cursor gets every   *)
(* page, as the plugin's skill tells it to.  No run checks this, and it does *)
(* not hold: a newer snapshot or a relative time that moves on refuses the  *)
(* cursor, and an evidence limit above the last page's length refuses it.   *)
(***************************************************************************)
FollowingIsAnswered == refused # "refused"

(***************************************************************************)
(* The history of an operation that another process extends is not reported *)
(* as a storage error.  No run checks this, and it does not hold: the rows  *)
(* are counted and read by two statements.                                  *)
(***************************************************************************)
IntactIsNotAnError == refused # "torn"
=============================================================================
