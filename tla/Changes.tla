------------------------------ MODULE Changes -------------------------------
(***************************************************************************)
(* A change from the request to its undoing: the plan service makes a plan  *)
(* from a snapshot, the plan is applied to the account, the rollback        *)
(* service makes a plan from the audit, and that one is applied.            *)
(*                                                                          *)
(* An operation's preparation, its dispatch and its verification            *)
(* (app/services/mutation-executor.ts) are one step here: what may happen   *)
(* between them is the subject of module ApplyRun.  The owner may change    *)
(* the account between any two steps.                                       *)
(***************************************************************************)
EXTENDS Rollback

CONSTANTS
    Repo,           \* the repositories, all known to the storage
    Accounts,       \* the accounts a snapshot may find
    Requests,       \* the requests to plan
    Shields,        \* the protections of a rollback: keepRepos, keepLists
    OwnerEdits,     \* bound: TRUE, the owner changes something, once
    MaxFaults       \* bound: dispatches that GitHub refuses

IsList(list) == list = [meta |-> list.meta, stamp |-> list.stamp]

\* An account whose Lists have ids up to n.
Account(a, n) ==
    /\ DOMAIN a = {"starred", "lists", "members"}
    /\ a.starred \subseteq Repo
    /\ DOMAIN a.lists \subseteq 1..n
    /\ \A l \in DOMAIN a.lists : IsList(a.lists[l])
    /\ a.members \subseteq (DOMAIN a.lists) \X Repo

\* A parsed action: whoever creates a List gives it one client reference.
Action(a) ==
    /\ DOMAIN a = DOMAIN NoAction
    /\ a.kind \in Kinds \cup Membership
    /\ a.repos \subseteq Repo
    /\ a.refs \subseteq Nat /\ IsFiniteSet(a.refs)
    /\ a.kind = "list_create" => \A c, d \in a.refs : c = d
    /\ a.fields \subseteq Field \X Nat

ASSUME ChangesAssumption ==
    /\ Repo \subseteq Nat /\ IsFiniteSet(Repo)
    /\ \A a \in Accounts :
        /\ IsFiniteSet(DOMAIN a.lists)
        /\ DOMAIN a.lists = 1..Cardinality(DOMAIN a.lists)
        /\ Account(a, Cardinality(DOMAIN a.lists))
        /\ \A m \in a.members : m[2] \in a.starred
    /\ \A req \in Requests :
        /\ DOMAIN req = {"actions", "keepRepos", "keepLists"}
        /\ IsFiniteSet(req.actions)
        /\ \A a \in req.actions : Action(a)

VARIABLES
    account,        \* remote: the account
    clears,         \* remote: unstarring a repository empties its memberships
    fresh,          \* remote: the id of the next List
    moved,          \* remote: the repositories renamed since the snapshot
    snapshot,       \* the account as the snapshot found it
    complete,       \* whether the snapshot's List coverage is complete
    phase,
    request,        \* what the current plan was asked for, selectors resolved
    plan,           \* its operations
    rows,           \* operation id -> row, for the operations reached
    stop,           \* failure mode: TRUE "stop", FALSE "continue"
    source,         \* the run being undone: its plan and rows
    touched,        \* history: what the owner changed since the snapshot
    faults          \* bound: refused dispatches so far

remote == <<account, clears, fresh, moved>>
origin == <<snapshot, complete, request, plan, stop, source>>
vars == <<account, clears, fresh, moved, snapshot, complete, phase, request, plan,
          rows, stop, source, touched, faults>>

NoRequest == [actions |-> {}, keepRepos |-> {}, keepLists |-> {}]
NoSource == [plan |-> << >>, rows |-> << >>]
NoRows == << >>

Phases == {"asking", "planned", "finished", "undoing", "undone", "refused",
           "irreversible"}

TypeOK ==
    /\ fresh \in Nat
    /\ Account(account, fresh - 1)
    /\ moved \subseteq Repo
    /\ phase \in Phases
    /\ \A i \in DOMAIN plan :
        /\ plan[i].kind \in Kinds
        /\ \A d \in plan[i].dependsOn : \E j \in DOMAIN plan : plan[j].id = d
    /\ DOMAIN rows \subseteq {plan[i].id : i \in DOMAIN plan}

Init ==
    /\ account \in Accounts
    /\ clears \in BOOLEAN
    /\ fresh = Cardinality(DOMAIN account.lists) + 1
    /\ moved = {}
    /\ snapshot = account
    /\ complete \in BOOLEAN
    /\ phase = "asking"
    /\ request = NoRequest
    /\ plan = << >>
    /\ rows = NoRows
    /\ stop \in BOOLEAN
    /\ source = NoSource
    /\ touched = {}
    /\ faults = 0

----------------------------------------------------------------------------
(* Mutated conditions: each is a plausible bug that some run rejects.       *)

DeleteOfTheSameMetadata(op) ==
    op.on \in DOMAIN account.lists /\ account.lists[op.on].meta = op.from

----------------------------------------------------------------------------
(* What the executor accepts, reads and compares.                           *)

\* operationShapeIsValid.  What an operation says several times, as before,
\* as its precondition and as its inverse, the model says once.
UpdateShaped(op) == op.kind = "list_update" => op.from # op.to
MembershipShaped(op) ==
    op.kind = "list_membership_set" =>
        /\ op.id \notin op.made
        /\ op.made \subseteq op.dependsOn
Shaped(op) ==
    /\ op.id \notin op.dependsOn
    /\ UpdateShaped(op)
    /\ MembershipShaped(op)

\* The adapter's live reads; a List that is not there is null.
NoList == [meta |-> << >>, stamp |-> 0]
CheckStar(r) == r \in account.starred
GetUserList(l) ==
    IF l \in DOMAIN account.lists THEN account.lists[l] ELSE NoList
GetRepositoryListIds(r) == ListsOf(account, r)

\* rebuildExecutionContext: the Lists that the run has created.
made == [o \in {p \in DOMAIN rows : rows[p].list # 0} |-> rows[o].list]

\* repositoryIdentityMatches: the name that the snapshot saw still leads to
\* the repository.
SameIdentity(op) ==
    op.kind \in {"star", "unstar", "list_membership_set"} => op.on \notin moved

SameList(op) == GetUserList(op.on) = [meta |-> op.from, stamp |-> op.stamp]

MatchesBefore(op) ==
    CASE op.kind = "star" -> ~ CheckStar(op.on)
      [] op.kind = "unstar" -> CheckStar(op.on)
      [] op.kind = "list_create" -> op.id \notin DOMAIN made
      [] op.kind = "list_update" -> GetUserList(op.on).meta = op.from
      [] op.kind = "list_delete" -> SameList(op)
      [] op.kind = "list_membership_set" ->
            GetRepositoryListIds(op.on) = op.listIds

TargetIds(op) == op.targets \cup {made[c] : c \in op.made}

MatchesAfter(op) ==
    CASE op.kind = "star" -> CheckStar(op.on)
      [] op.kind = "unstar" -> ~ CheckStar(op.on)
      [] op.kind = "list_create" ->
            /\ op.id \in DOMAIN made
            /\ GetUserList(made[op.id]).meta = op.to
      [] op.kind = "list_update" -> GetUserList(op.on).meta = op.to
      [] op.kind = "list_delete" -> op.on \notin DOMAIN account.lists
      [] op.kind = "list_membership_set" ->
            /\ op.made \subseteq DOMAIN made
            /\ GetRepositoryListIds(op.on) = TargetIds(op)

Blocked(op) == \E d \in op.dependsOn : rows[d].status \notin Settled

----------------------------------------------------------------------------
(* The steps of a run, in the plan's topological order.                     *)

Running == phase \in {"planned", "undoing"}
Halted ==
    \/ DOMAIN rows = {plan[i].id : i \in DOMAIN plan}
    \/ stop /\ \E o \in DOMAIN rows : rows[o].status \notin Settled
Completed ==
    /\ DOMAIN rows = {plan[i].id : i \in DOMAIN plan}
    /\ \A o \in DOMAIN rows : rows[o].status \in Settled

Current == GraphOrder(plan)[Cardinality(DOMAIN rows) + 1]

Recorded(op, row) ==
    [o \in DOMAIN rows \cup {op.id} |-> IF o = op.id THEN row ELSE rows[o]]
Status(s) == [NoRow EXCEPT !.status = s]
Skipped == Status("skipped")
Succeeded(row) == [row EXCEPT !.status = "succeeded"]

Block ==
    /\ Running /\ ~ Halted
    /\ Blocked(Current)
    /\ rows' = Recorded(Current, Status("failed"))
    /\ UNCHANGED <<remote, origin, phase, touched, faults>>

Skip ==
    /\ Running /\ ~ Halted
    /\ ~ Blocked(Current)
    /\ Shaped(Current) /\ SameIdentity(Current) /\ MatchesAfter(Current)
    /\ rows' = Recorded(Current, Skipped)
    /\ UNCHANGED <<remote, origin, phase, touched, faults>>

Reject ==
    /\ Running /\ ~ Halted
    /\ ~ Blocked(Current)
    /\ \/ ~ Shaped(Current)
       \/ ~ SameIdentity(Current)
       \/ ~ MatchesAfter(Current) /\ ~ MatchesBefore(Current)
    /\ rows' = Recorded(Current, Status("failed"))
    /\ UNCHANGED <<remote, origin, phase, touched, faults>>

\* The condition under which Current is dispatched.
Dispatched(kind) ==
    /\ Running /\ ~ Halted
    /\ Current.kind = kind
    /\ ~ Blocked(Current) /\ Shaped(Current) /\ SameIdentity(Current)
    /\ ~ MatchesAfter(Current) /\ MatchesBefore(Current)

\* GitHub refuses the dispatch: for a membership in a List that is gone, or
\* for a reason of its own.
Fail ==
    /\ \E kind \in Kinds : Dispatched(kind)
    /\ IF Current.kind = "list_membership_set"
          /\ ~ (TargetIds(Current) \subseteq DOMAIN account.lists)
       THEN UNCHANGED faults
       ELSE phase = "planned" /\ faults < MaxFaults /\ faults' = faults + 1
    /\ rows' = Recorded(Current, Status("failed"))
    /\ UNCHANGED <<remote, origin, phase, touched>>

Succeed(row) ==
    /\ rows' = Recorded(Current, Succeeded(row))
    /\ UNCHANGED <<clears, moved, origin, phase, touched, faults>>

Star ==
    /\ Dispatched("star")
    /\ account' = [account EXCEPT !.starred = @ \cup {Current.on}]
    /\ Succeed(NoRow)
    /\ UNCHANGED fresh

Unstarred(a, r) ==
    [a EXCEPT !.starred = @ \ {r},
              !.members = IF clears THEN {m \in @ : m[2] # r} ELSE @]

Unstar ==
    /\ Dispatched("unstar")
    /\ account' = Unstarred(account, Current.on)
    /\ Succeed(NoRow)
    /\ UNCHANGED fresh

WithList(lists, l, list) ==
    [k \in DOMAIN lists \cup {l} |-> IF k = l THEN list ELSE lists[k]]

CreateList ==
    /\ Dispatched("list_create")
    /\ account' = [account EXCEPT
            !.lists = WithList(@, fresh, [meta |-> Current.to, stamp |-> 0])]
    /\ fresh' = fresh + 1
    /\ Succeed([NoRow EXCEPT !.list = fresh])

UpdateList ==
    /\ Dispatched("list_update")
    /\ account' = [account EXCEPT !.lists[Current.on].meta = Current.to]
    /\ Succeed(NoRow)
    /\ UNCHANGED fresh

Without(a, l) ==
    [a EXCEPT !.lists = [k \in DOMAIN @ \ {l} |-> @[k]],
              !.members = {m \in @ : m[1] # l}]

DeleteList ==
    /\ Dispatched("list_delete")
    /\ account' = Without(account, Current.on)
    /\ Succeed(NoRow)
    /\ UNCHANGED fresh

\* A List that gains a repository is stamped.
Stamped(list) == [list EXCEPT !.stamp = @ + 1]
Filed(a, r, ids) ==
    [a EXCEPT !.members = {m \in @ : m[2] # r} \cup (ids \X {r}),
              !.lists = [l \in DOMAIN @ |->
                  IF l \in ids /\ <<l, r>> \notin a.members
                  THEN Stamped(@[l]) ELSE @[l]]]

SetMembership ==
    /\ Dispatched("list_membership_set")
    /\ TargetIds(Current) \subseteq DOMAIN account.lists
    /\ account' = Filed(account, Current.on, TargetIds(Current))
    /\ Succeed([NoRow EXCEPT !.listIds = TargetIds(Current)])
    /\ UNCHANGED fresh

Finish ==
    /\ Running /\ Halted
    /\ phase' = IF phase = "planned" THEN "finished" ELSE "undone"
    /\ UNCHANGED <<remote, origin, rows, touched, faults>>

Effect == Star \/ Unstar \/ CreateList \/ UpdateList \/ DeleteList
            \/ SetMembership

----------------------------------------------------------------------------
(* Planning, undoing and the owner.                                         *)

Ask ==
    /\ phase = "asking"
    /\ \E req \in Requests :
        LET p == Plan(req, snapshot, complete)
        IN  /\ request' = Selected(req, snapshot)
            /\ plan' = IF p.ok THEN p.ops ELSE << >>
            /\ phase' = IF p.ok THEN "planned" ELSE "refused"
    /\ UNCHANGED <<remote, snapshot, complete, stop, source, rows,
                   touched, faults>>

\* Only a List that GitHub has given an id can be named.
CreateRollback ==
    /\ phase = "finished"
    /\ \E shield \in {s \in Shields : s.keepLists \subseteq 1..fresh - 1} :
        LET req == [NoRequest EXCEPT !.keepRepos = shield.keepRepos,
                                     !.keepLists = shield.keepLists]
            undo == Undo(plan, rows, stop, Completed, snapshot, complete, req)
        IN  /\ request' = req
            /\ plan' = undo.ops
            /\ phase' = IF undo.ok THEN "undoing" ELSE "irreversible"
    /\ source' = [plan |-> plan, rows |-> rows]
    /\ rows' = NoRows
    /\ UNCHANGED <<remote, snapshot, complete, stop, touched, faults>>

\* Something the owner changed: a star, a List, a repository in a List, or
\* a repository's name.
Touch(items) ==
    /\ phase \in {"planned", "finished", "undoing"}
    /\ OwnerEdits /\ touched = {}
    /\ touched' = items
    /\ UNCHANGED <<clears, fresh, origin, phase, rows, faults>>
Pairs(S) == {<<"in", m[1], m[2]>> : m \in S}

OwnerStars(r) ==
    /\ r \notin account.starred
    /\ account' = [account EXCEPT !.starred = @ \cup {r}]
    /\ Touch({<<"star", r, 0>>})
OwnerUnstars(r) ==
    /\ r \in account.starred
    /\ account' = Unstarred(account, r)
    /\ Touch({<<"star", r, 0>>}
                \cup Pairs(account.members \ Unstarred(account, r).members))
OwnerUpdates(l, f) ==
    /\ account' = [account EXCEPT !.lists[l].meta[f] = 1 - @]
    /\ Touch({<<"list", l, 0>>})
OwnerDeletes(l) ==
    /\ account' = Without(account, l)
    /\ Touch({<<"list", l, 0>>} \cup Pairs({m \in account.members : m[1] = l}))
OwnerFiles(l, r) ==
    /\ r \in account.starred
    /\ <<l, r>> \notin account.members
    /\ account' = Filed(account, r, ListsOf(account, r) \cup {l})
    /\ Touch({<<"in", l, r>>})
OwnerRemoves(l, r) ==
    /\ <<l, r>> \in account.members
    /\ account' = Filed(account, r, ListsOf(account, r) \ {l})
    /\ Touch({<<"in", l, r>>})

OwnerRenames(r) ==
    /\ moved' = moved \cup {r}
    /\ UNCHANGED account
    /\ Touch({<<"name", r, 0>>})

OwnerEditsLists ==
    \E l \in DOMAIN account.lists :
        \/ \E f \in Field : OwnerUpdates(l, f)
        \/ OwnerDeletes(l)
        \/ \E r \in Repo : OwnerFiles(l, r) \/ OwnerRemoves(l, r)

Owner ==
    \/ \E r \in Repo : OwnerRenames(r)
    \/ /\ \E r \in Repo : OwnerStars(r) \/ OwnerUnstars(r)
       /\ UNCHANGED moved
    \/ OwnerEditsLists /\ UNCHANGED moved

Next == Ask \/ Block \/ Skip \/ Reject \/ Fail \/ Effect \/ Finish
          \/ CreateRollback \/ Owner

Spec == Init /\ [][Next]_vars

----------------------------------------------------------------------------
(* Properties.                                                              *)

Steady == touched = {} /\ faults = 0
Applying == phase \in {"planned", "finished"}
Done(p, rs, i) == p[i].id \in DOMAIN rs /\ rs[p[i].id].status = "succeeded"

\* A repository both unstarred and filed by one request, which the resolver
\* accepts although each of the two changes what the other one expects.
Torn(r) == /\ \E a \in ActionsOf(request, {"unstar"}) : r \in a.repos
           /\ \E a \in ActionsOf(request, Membership) : r \in a.repos

\* If nobody else changes the account, no operation of a plan fails: the
\* resolver (operationFromDraft, compareDrafts) leaves nothing in a plan that
\* an operation before it invalidates, and orders what needs each other.
PlanHolds ==
    Applying /\ Steady => \A i \in DOMAIN plan :
        plan[i].id \in DOMAIN rows
            /\ ~ (plan[i].kind = "list_membership_set" /\ Torn(plan[i].on))
            => rows[plan[i].id].status \in Settled

\* Whether the request wants r in the List l after all.
WantedIn(l, r) ==
    LET of(kind) == \E a \in request.actions :
                        a.kind = kind /\ l \in a.lists /\ r \in a.repos
        replaced == \E a \in request.actions :
                        a.kind = "list_membership_set" /\ r \in a.repos
        deleted == \E a \in request.actions :
                        a.kind = "list_delete" /\ l \in a.lists
        unstarred == \E a \in request.actions : a.kind = "unstar" /\ r \in a.repos
    IN  IF r \in request.keepRepos
        THEN <<l, r>> \in snapshot.members /\ (l \in request.keepLists \/ ~ deleted)
        ELSE IF l \in request.keepLists
        THEN <<l, r>> \in snapshot.members /\ ~ (unstarred /\ clears)
        ELSE /\ ~ of("list_membership_remove") /\ ~ deleted
             /\ \/ of("list_membership_add") \/ of("list_membership_set")
                \/ /\ <<l, r>> \in snapshot.members /\ ~ replaced
                   /\ ~ (unstarred /\ clears)

\* What applying a plan to its end does to the account is what the request
\* says, action by action, with the protected repositories and Lists taken
\* out (resolveOperationRequests merges, drops and orders the actions).
AsRequested ==
    phase = "finished" /\ Completed /\ touched = {} =>
        LET new == {made[o] : o \in DOMAIN made}
            asked(kind, r) == \E a \in request.actions :
                                  a.kind = kind /\ r \in a.repos
            free == {r \in Repo : ~ Torn(r)}
        IN  /\ \A r \in Repo : r \in account.starred <=>
                IF r \in request.keepRepos THEN r \in snapshot.starred
                ELSE asked("star", r)
                        \/ (r \in snapshot.starred /\ ~ asked("unstar", r))
            /\ \A l \in DOMAIN snapshot.lists :
                /\ l \in DOMAIN account.lists <=>
                        \/ l \in request.keepLists
                        \/ ~ \E a \in request.actions :
                                a.kind = "list_delete" /\ l \in a.lists
                /\ \A r \in free : <<l, r>> \in account.members <=> WantedIn(l, r)
                /\ l \in DOMAIN account.lists => \A f \in Field :
                        LET said == {a \in request.actions :
                                /\ a.kind = "list_update" /\ l \in a.lists
                                /\ l \notin request.keepLists
                                /\ \E v \in a.fields : v[1] = f}
                        IN  IF said = {}
                            THEN account.lists[l].meta[f] = snapshot.lists[l].meta[f]
                            ELSE \A a \in said :
                                    <<f, account.lists[l].meta[f]>> \in a.fields
            /\ DOMAIN account.lists \ DOMAIN snapshot.lists = new
            /\ \A a \in ActionsOf(request, {"list_create"}) : \E l \in new :
                /\ account.lists[l].meta = a.meta
                /\ \A r \in free : <<l, r>> \in account.members <=>
                        /\ r \notin request.keepRepos
                        /\ \E b \in request.actions :
                            /\ b.kind \in Membership /\ r \in b.repos
                            /\ a.refs \subseteq b.refs

\* Neither a plan nor a rollback plan touches what its request protects: no
\* star of a protected repository, no protected List, and no repository in a
\* protected List but by unstarring it (protectedRepositoryIds,
\* protectedListIds of operation-resolver.ts and rollback-service.ts).
Untouched(keepRepos, keepLists) ==
    /\ \A r \in keepRepos : r \in account'.starred <=> r \in account.starred
    /\ \A l \in keepLists :
        /\ l \in DOMAIN account.lists => l \in DOMAIN account'.lists
        /\ l \in DOMAIN account.lists =>
                account'.lists[l].meta = account.lists[l].meta
        /\ \A r \in Repo : ~ (Current.kind = "unstar" /\ Current.on = r) =>
                (<<l, r>> \in account'.members <=> <<l, r>> \in account.members)
ShieldsHold == [][Effect => Untouched(request.keepRepos, request.keepLists)]_vars

\* What a run created and filled: its rollback cannot delete it again.
FilledOwnList ==
    \E i, j \in DOMAIN source.plan :
        /\ source.plan[i].id \in source.plan[j].made
        /\ Done(source.plan, source.rows, j)

\* A run that unstarred a repository and deleted a List it was in, while
\* GitHub keeps the memberships of what is unstarred: the replay of the run
\* takes them for gone.
CutTwice ==
    /\ ~ clears
    /\ \E i, j \in DOMAIN source.plan :
        /\ source.plan[i].kind = "unstar" /\ Done(source.plan, source.rows, i)
        /\ source.plan[j].kind = "list_delete" /\ Done(source.plan, source.rows, j)
        /\ source.plan[j].on \in source.plan[i].listIds

\* The List that stands for l after the rollback.
Renamed(l) ==
    LET again == {i \in DOMAIN source.plan :
                    /\ source.plan[i].kind = "list_delete"
                    /\ source.plan[i].on = l
                    /\ Done(source.plan, source.rows, i)}
    IN  IF again = {} THEN l
        ELSE made[source.plan[CHOOSE i \in again : TRUE].id]

\* A finished run, partial ones included, can be undone: the rollback is not
\* refused, none of its operations fails, and the account is again what the
\* snapshot saw, up to the ids of recreated Lists (RollbackService).
RollbackRestores ==
    /\ phase = "irreversible" => ~ complete \/ Len(plan) > MaxOperations
    /\ (phase = "undone" /\ touched = {} /\ request = NoRequest
            /\ ~ FilledOwnList /\ ~ CutTwice) =>
        /\ Completed
        /\ account.starred = snapshot.starred
        /\ DOMAIN account.lists = {Renamed(l) : l \in DOMAIN snapshot.lists}
        /\ \A l \in DOMAIN snapshot.lists :
            account.lists[Renamed(l)].meta = snapshot.lists[l].meta
        /\ account.members = {<<Renamed(m[1]), m[2]>> : m \in snapshot.members}

\* The repositories a plan or the rollback of it unstars.
Unstars ==
    {source.plan[i].on : i \in {j \in DOMAIN source.plan :
                                   source.plan[j].kind = "unstar"}}
        \cup {plan[i].on : i \in {j \in DOMAIN plan : plan[j].kind = "unstar"}}

\* What the owner changed after the snapshot stays: no step of the plan or of
\* its rollback changes it again, nor the star of a repository whose name now
\* leads elsewhere (repositoryIdentityMatches).  Excepted are the memberships of a
\* repository that is unstarred: they are no precondition of that operation
\* (matchesBefore of mutation-executor.ts).
EditsStand ==
    [][Effect =>
        /\ \A r \in Repo : <<"star", r, 0>> \in touched \/ r \in moved =>
            (r \in account'.starred <=> r \in account.starred)
        /\ \A l \in 1..fresh - 1 :
            /\ <<"list", l, 0>> \in touched =>
                /\ l \in DOMAIN account'.lists <=> l \in DOMAIN account.lists
                /\ l \in DOMAIN account.lists =>
                        account'.lists[l].meta = account.lists[l].meta
            /\ \A r \in Repo :
                <<"in", l, r>> \in touched /\ r \notin Unstars =>
                (<<l, r>> \in account'.members <=> <<l, r>> \in account.members)
      ]_vars

\* Stars and memberships keep their order both ways: a repository that a plan
\* stars is filed only once it is starred, also when the star failed and the
\* run goes on (the star dependency of operationFromDraft); and a rollback
\* that unstars it has taken it out of the run's Lists before (the reversed
\* dependencies of RollbackService).  The owner's own changes are excepted.
StarsOutlastMemberships ==
    [][/\ SetMembership =>
            ((\E i \in DOMAIN plan :
                    plan[i].kind = "star" /\ plan[i].on = Current.on)
                => \/ Current.on \in account.starred
                   \/ <<"star", Current.on, 0>> \in touched)
       /\ (Unstar /\ phase = "undoing" /\ touched = {} /\ request = NoRequest)
            => ListsOf(account, Current.on) = ListsOf(snapshot, Current.on)]_vars

\* A List created by the run is deleted by the rollback only if the run's own
\* memberships in it are gone, and it is deleted then
\* (docs/superpowers/specs/2026-07-16-github-stars-mcp-design.md:217, UNDO-07).
\* No run checks this, and it does not hold: the deletion expects the List as it
\* was created, also when the run has filled it since (rollback-service.ts:1504).
CreatedListsAreUndone ==
    phase = "undone" /\ touched = {} /\ request = NoRequest
        => DOMAIN account.lists \cap {source.rows[o].list :
                o \in {q \in DOMAIN source.rows :
                          source.rows[q].status = "succeeded"}} = {}
=============================================================================
