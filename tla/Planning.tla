------------------------------ MODULE Planning ------------------------------
(***************************************************************************)
(* How a request becomes an executable plan: the operation resolver         *)
(* (app/services/operation-resolver.ts), the plan service's own conditions  *)
(* (app/services/plan-service.ts) and the dependency graph of domain/plan.ts.*)
(*                                                                          *)
(* Repositories, Lists and client references are natural numbers, so < is   *)
(* the order of their ids.  An account is a record of the starred           *)
(* repositories, of the Lists (id -> metadata and a counter standing for    *)
(* updatedAt and lastAddedAt) and of the memberships <<list, repository>>.  *)
(* An action names its repositories, or the ones that its filter lets       *)
(* through; how the pages of such a query follow each other is the subject  *)
(* of modules Selection and Queries.                                        *)
(***************************************************************************)
EXTENDS Integers, Sequences, FiniteSets

CONSTANTS
    Field,          \* the fields of a List's mutable metadata
    MaxOperations   \* maxPlanActions

ASSUME PlanningAssumption == MaxOperations \in Nat

ListsOf(a, r) == {l \in DOMAIN a.lists : <<l, r>> \in a.members}
MembersOf(a, l) == {m[2] : m \in {p \in a.members : p[1] = l}}

Kinds == {"star", "unstar", "list_create", "list_update", "list_delete",
          "list_membership_set"}

\* Every action and every operation has all fields; the ones its kind does
\* not have keep these values.
NoMeta == [f \in Field |-> 0]
NoAction == [kind |-> "none", repos |-> {}, byFilter |-> FALSE, lists |-> {},
             refs |-> {}, fields |-> {}, meta |-> NoMeta]
NoOp == [id |-> <<0, 0>>,     \* "op_i" is <<i, 0>>, "undo_op_i_..k" <<i, k>>
         kind |-> "none",
         on |-> 0,            \* the repository, the List or the client reference
         dependsOn |-> {},
         listIds |-> {},      \* before.listIds, expectedListIds
         targets |-> {},      \* targetLists: the existing ones
         made |-> {},         \* targetLists: ids of the creating operations
         from |-> NoMeta,     \* before: the List's metadata
         to |-> NoMeta,       \* after: the List's metadata
         stamp |-> 0,         \* before.list: its counter
         repos |-> {}]        \* before.repositoryIds

Below(p, q) == p[1] < q[1] \/ (p[1] = q[1] /\ p[2] < q[2])

\* The elements of S in the order of their key, which no two share.
InOrder(S, key(_)) ==
    [i \in 1..Cardinality(S) |->
        CHOOSE x \in S : Cardinality({y \in S : Below(key(y), key(x))}) = i - 1]

----------------------------------------------------------------------------
(* Mutated conditions: each is a plausible bug that some run rejects.       *)

WithoutTheProtected(wanted, expected, keep) == wanted

----------------------------------------------------------------------------
(* The dependency graph.                                                    *)

Ready(ops, done) ==
    {i \in DOMAIN ops : ops[i].id \notin done /\ ops[i].dependsOn \subseteq done}

First(ready) == CHOOSE i \in ready : \A j \in ready : i <= j

\* The first operation in plan order that is ready is emitted next; a shorter
\* result means a cycle.
GraphOrder(ops) ==
    LET emitted[n \in 0..Len(ops)] ==
            IF n = 0 THEN << >>
            ELSE LET so_far == emitted[n - 1]
                     ready == Ready(ops, {so_far[i].id : i \in DOMAIN so_far})
                 IN  IF ready = {} THEN so_far
                     ELSE Append(so_far, ops[First(ready)])
    IN  emitted[Len(ops)]

Executable(ops) ==
    /\ \A i, j \in DOMAIN ops : i # j =>
        /\ ops[i].id # ops[j].id
        /\ {ops[i].kind, ops[j].kind} = {"list_create"} => ops[i].on # ops[j].on
    /\ \A i \in DOMAIN ops : \A c \in ops[i].made :
        /\ c \in ops[i].dependsOn
        /\ \E j \in DOMAIN ops : ops[j].id = c /\ ops[j].kind = "list_create"
    /\ Len(GraphOrder(ops)) = Len(ops)
    /\ Len(ops) <= MaxOperations

----------------------------------------------------------------------------
(* The request: what parsePlanRequest lets through, and the repositories    *)
(* that its selectors name.                                                 *)

Membership == {"list_membership_set", "list_membership_add",
               "list_membership_remove"}

ParsedSelector(a) == a.byFilter \/ a.repos # {}
ParsedTargets(a) ==
    a.kind = "list_membership_remove" => a.lists # {} /\ a.refs = {}
ParsedAction(a) ==
    CASE a.kind \in {"star", "unstar"} -> ParsedSelector(a)
      [] a.kind = "list_create" -> a.refs # {}
      [] a.kind = "list_update" -> a.lists # {} /\ a.fields # {}
      [] a.kind = "list_delete" -> a.lists # {}
      [] a.kind \in Membership -> ParsedSelector(a) /\ ParsedTargets(a)
ParsedRequest(req) ==
    req.actions # {} /\ \A a \in req.actions : ParsedAction(a)

\* repositoriesForSelector: a filter looks among the snapshot's repositories, the
\* starred ones, page by page; one that is named need not be starred.
RepositoriesFor(a, acc) == IF a.byFilter THEN a.repos \cap acc.starred ELSE a.repos
Selected(req, acc) ==
    [req EXCEPT !.actions =
        {[a EXCEPT !.repos = RepositoriesFor(a, acc)] : a \in @}]

----------------------------------------------------------------------------
(* What the actions of a request ask for, without the protected targets.    *)

ActionsOf(req, kinds) == {a \in req.actions : a.kind \in kinds}
ReposOf(req, kinds) ==
    (UNION {a.repos : a \in ActionsOf(req, kinds)}) \ req.keepRepos
TargetsOf(req, kinds) ==
    (UNION {a.lists : a \in ActionsOf(req, kinds)}) \ req.keepLists

ForRepo(req, r, kinds) == {a \in ActionsOf(req, kinds) : r \in a.repos}
SetsOf(req, r) == {[lists |-> a.lists \ req.keepLists, refs |-> a.refs] :
                      a \in ForRepo(req, r, {"list_membership_set"})}
AddedTo(req, r) ==
    (UNION {a.lists : a \in ForRepo(req, r, {"list_membership_add"})})
        \ req.keepLists
RemovedFrom(req, r) ==
    (UNION {a.lists : a \in ForRepo(req, r, {"list_membership_remove"})})
        \ req.keepLists
MentionedFor(req, r) ==
    (UNION {a.lists : a \in ForRepo(req, r, Membership)}) \ req.keepLists
Changes(req, l) ==
    UNION {a.fields : a \in {b \in ActionsOf(req, {"list_update"}) :
                                l \in b.lists}}

NeedsCoverage(req) ==
    req.keepLists # {} \/ ActionsOf(req, Kinds \cup Membership)
                            \ ActionsOf(req, {"star", "unstar"}) # {}

----------------------------------------------------------------------------
(* The requests the resolver refuses.                                       *)

AllLists(acc) == DOMAIN acc.lists
Unknown(req, acc) ==
    ~ (req.keepLists \cup UNION {a.lists : a \in req.actions}
            \subseteq AllLists(acc))

\* Mutated: deletions are not compared with memberships.
ConflictingButForDeletes(req, acc) ==
    \E r \in ReposOf(req, Membership) :
        \/ Cardinality(SetsOf(req, r)) > 1
        \/ AddedTo(req, r) \cap RemovedFrom(req, r) # {}

Conflicting(req, acc) ==
    \/ ReposOf(req, {"star"}) \cap ReposOf(req, {"unstar"}) # {}
    \/ \E a, b \in ActionsOf(req, {"list_create"}) :
            a.refs = b.refs /\ a # b
    \/ \E l \in TargetsOf(req, {"list_update"}), x, y \in UNION {a.fields :
                a \in ActionsOf(req, {"list_update"})} :
            {x, y} \subseteq Changes(req, l) /\ x[1] = y[1] /\ x[2] # y[2]
    \/ \E r \in ReposOf(req, Membership) :
            \/ Cardinality(SetsOf(req, r)) > 1
            \/ AddedTo(req, r) \cap RemovedFrom(req, r) # {}
    \/ \E l \in TargetsOf(req, {"list_delete"}) :
            \/ l \in TargetsOf(req, {"list_update"})
            \/ \E r \in ReposOf(req, Membership) :
                    l \in MentionedFor(req, r) \cup ListsOf(acc, r)

Uncreated(req) ==
    ~ (UNION {a.refs : a \in ActionsOf(req, Membership)}
            \subseteq UNION {a.refs : a \in ActionsOf(req, {"list_create"})})

----------------------------------------------------------------------------
(* The drafts: what is left to do, each an operation without id and         *)
(* dependencies; "made" still holds client references.                      *)

StarDrafts(req, acc) ==
    {[NoOp EXCEPT !.kind = "star", !.on = r] :
        r \in ReposOf(req, {"star"}) \ acc.starred}

UnstarDrafts(req, acc, complete) ==
    {[NoOp EXCEPT !.kind = "unstar", !.on = r,
                  !.listIds = IF complete THEN ListsOf(acc, r) ELSE {}] :
        r \in ReposOf(req, {"unstar"}) \cap acc.starred}

CreateDrafts(req, acc) ==
    {[NoOp EXCEPT !.kind = "list_create", !.on = CHOOSE c \in a.refs : TRUE,
                  !.listIds = AllLists(acc), !.to = a.meta] :
        a \in ActionsOf(req, {"list_create"})}

Updated(req, acc, l) ==
    [f \in Field |-> IF \E v \in Changes(req, l) : v[1] = f
                     THEN (CHOOSE v \in Changes(req, l) : v[1] = f)[2]
                     ELSE acc.lists[l].meta[f]]

UpdateDrafts(req, acc) ==
    {[NoOp EXCEPT !.kind = "list_update", !.on = l,
                  !.from = acc.lists[l].meta, !.to = Updated(req, acc, l)] :
        l \in {k \in TargetsOf(req, {"list_update"}) :
                   Updated(req, acc, k) # acc.lists[k].meta}}

DeleteDrafts(req, acc) ==
    {[NoOp EXCEPT !.kind = "list_delete", !.on = l,
                  !.from = acc.lists[l].meta, !.stamp = acc.lists[l].stamp,
                  !.repos = MembersOf(acc, l)] :
        l \in TargetsOf(req, {"list_delete"})}

WithProtected(wanted, expected, keep) == wanted \cup (expected \cap keep)

Existing(req, acc, r) ==
    LET chosen == UNION {s.lists : s \in SetsOf(req, r)}
        base == IF SetsOf(req, r) = {} THEN ListsOf(acc, r) ELSE chosen
    IN  WithProtected((base \cup AddedTo(req, r)) \ RemovedFrom(req, r),
                      ListsOf(acc, r), req.keepLists)
Created(req, r) == UNION {a.refs : a \in ForRepo(req, r, Membership)}

\* Mutated: a membership is dropped although it has a List to be created.
FiledOnlyIfExistingChange(req, acc) ==
    {[NoOp EXCEPT !.kind = "list_membership_set", !.on = r,
                  !.listIds = ListsOf(acc, r),
                  !.targets = Existing(req, acc, r), !.made = Created(req, r)] :
        r \in {q \in ReposOf(req, Membership) :
                   Existing(req, acc, q) # ListsOf(acc, q)}}

MembershipDrafts(req, acc) ==
    {[NoOp EXCEPT !.kind = "list_membership_set", !.on = r,
                  !.listIds = ListsOf(acc, r),
                  !.targets = Existing(req, acc, r), !.made = Created(req, r)] :
        r \in {q \in ReposOf(req, Membership) :
                   Created(req, q) # {} \/ Existing(req, acc, q) # ListsOf(acc, q)}}

Drafts(req, acc, complete) ==
    StarDrafts(req, acc) \cup UnstarDrafts(req, acc, complete)
        \cup CreateDrafts(req, acc) \cup UpdateDrafts(req, acc)
        \cup DeleteDrafts(req, acc) \cup MembershipDrafts(req, acc)

Rank(kind) == CASE kind = "star" -> 0
                [] kind = "unstar" -> 1
                [] kind = "list_create" -> 2
                [] kind = "list_update" -> 3
                [] kind = "list_delete" -> 4
                [] kind = "list_membership_set" -> 5

----------------------------------------------------------------------------
(* Ids and dependencies.  ids maps what an operation may need, a client     *)
(* reference or a repository to be starred, to the id of its operation.     *)

Needs(d, ids) ==
    {ids[c] : c \in ({"create"} \X d.made)
                        \cup (DOMAIN ids \cap {<<"star", d.on>>})}

Resolved(drafts) ==
    LET key(d) == <<Rank(d.kind), d.on>>
        sorted == InOrder(drafts, key)
        at(d) == <<CHOOSE i \in DOMAIN sorted : sorted[i] = d, 0>>
        stars == {d \in drafts : d.kind = "star"}
        creates == {d \in drafts : d.kind = "list_create"}
        ids == [n \in {<<"star", d.on>> : d \in stars}
                        \cup {<<"create", d.on>> : d \in creates} |->
                  at(CHOOSE d \in stars \cup creates :
                        n = <<IF d.kind = "star" THEN "star" ELSE "create", d.on>>)]
    IN  [i \in DOMAIN sorted |->
            LET d == sorted[i]
            IN  IF d.kind = "list_membership_set"
                THEN [d EXCEPT !.id = <<i, 0>>, !.dependsOn = Needs(d, ids),
                               !.made = {ids[<<"create", c>>] : c \in d.made}]
                ELSE [d EXCEPT !.id = <<i, 0>>]]

Refused(req, acc, complete) ==
    \/ NeedsCoverage(req) /\ ~ complete
    \/ Unknown(req, acc)
    \/ Conflicting(req, acc)
    \/ Uncreated(req)

Plan(req, acc, complete) ==
    LET wanted == Selected(req, acc)
    IN  IF ~ ParsedRequest(req) \/ Refused(wanted, acc, complete)
        THEN [ok |-> FALSE, ops |-> << >>]
        ELSE LET ops == Resolved(Drafts(wanted, acc, complete))
             IN  [ok |-> Executable(ops), ops |-> ops]
=============================================================================
