------------------------------ MODULE Rollback ------------------------------
(***************************************************************************)
(* How an audited run becomes the plan that undoes it                       *)
(* (app/services/rollback-service.ts).  The source is the plan's operations,*)
(* the rows of its run and the snapshot the plan was made from; the account *)
(* itself is not read.                                                      *)
(*                                                                          *)
(* A row is the status and what the audit keeps of the state after: for a   *)
(* created List its id and counter, for a membership its List ids.          *)
(***************************************************************************)
EXTENDS Planning

NoRow == [status |-> "none", list |-> 0, stamp |-> 0, listIds |-> {}]

Settled == {"succeeded", "skipped"}

Order(ops) == [i \in DOMAIN GraphOrder(ops) |-> GraphOrder(ops)[i].id]

----------------------------------------------------------------------------
(* The audit of the source run.                                             *)

AuditHolds(ops, rows, stop, completed) ==
    LET n == Cardinality(DOMAIN rows)
        all == n = Len(ops)
        fine == \A o \in DOMAIN rows : rows[o].status \in Settled
        order == Order(ops)
    IN  /\ DOMAIN rows \subseteq {ops[i].id : i \in DOMAIN ops}
        /\ \A o \in DOMAIN rows : rows[o].status \notin {"pending", "running"}
        /\ completed => all /\ fine
        /\ ~ completed => ~ (all /\ fine)
        /\ IF stop /\ ~ completed
           THEN /\ DOMAIN rows = {order[k] : k \in 1..n}
                /\ \A k \in 1..n - 1 : rows[order[k]].status \in Settled
           ELSE all

\* What validateSucceededAudit compares: the audited state after an operation
\* is the one its plan promised.
AfterHolds(ops, rows, done) ==
    LET created == {i \in done : ops[i].kind = "list_create"}
        list(i) == rows[ops[i].id].list
    IN  /\ \A i, j \in created : i # j => list(i) # list(j)
        /\ \A i \in created : list(i) \notin ops[i].listIds
        /\ \A i \in done : ops[i].kind = "list_membership_set" =>
            /\ ops[i].made \subseteq {ops[j].id : j \in created}
            /\ rows[ops[i].id].listIds =
                   ops[i].targets \cup {rows[c].list : c \in ops[i].made}

----------------------------------------------------------------------------
(* The Lists and memberships the run left, replayed from the snapshot in    *)
(* plan order.                                                              *)

Replayed(post, op, row) ==
    CASE op.kind = "unstar" ->
            [post EXCEPT !.members = {m \in @ : m[2] # op.on}]
      [] op.kind = "list_create" ->
            [post EXCEPT !.lists = @ \cup {row.list}]
      [] op.kind = "list_delete" ->
            [lists |-> post.lists \ {op.on},
             members |-> {m \in post.members : m[1] # op.on}]
      [] op.kind = "list_membership_set" ->
            [post EXCEPT !.members = {m \in @ : m[2] # op.on}
                                        \cup (row.listIds \X {op.on})]
      [] OTHER -> post

After(ops, rows, done, snap) ==
    LET post[n \in 0..Len(ops)] ==
            IF n = 0
            THEN [lists |-> DOMAIN snap.lists, members |-> snap.members]
            ELSE IF n \in done
                 THEN Replayed(post[n - 1], ops[n], rows[ops[n].id])
                 ELSE post[n - 1]
    IN  post[Len(ops)]

Holding(post, r) == {l \in post.lists : <<l, r>> \in post.members}

----------------------------------------------------------------------------
(* Mutated conditions: each is a plausible bug that some run rejects.       *)

NotReversed(ops, done, nodes, chosen) == nodes
NotRecreated(ops, done, lists) == {}

----------------------------------------------------------------------------
(* The complete membership states to restore.                               *)

\* The creating inverses of the deleted Lists among the given ones.
Recreated(ops, done, lists) ==
    {ops[i].id : i \in {j \in done : ops[j].kind = "list_delete"
                                        /\ ops[j].on \in lists}}
Deleted(ops, done) ==
    {ops[i].on : i \in {j \in done : ops[j].kind = "list_delete"}}

Restore(ops, done, post, id, r, lists, needs) ==
    LET kept == lists \ Deleted(ops, done)
        held == Holding(post, r)
    IN  [id |-> id, repo |-> r, expected |-> held, targets |-> kept,
         made |-> Recreated(ops, done, lists), needs |-> needs,
         affects |-> (held \ kept) \cup (kept \ held)
                        \cup (lists \cap Deleted(ops, done))]

\* The id of the membership that restores r after the deletion ops[i].
NthOf(ops, i, r) ==
    <<ops[i].id[1], Cardinality({q \in ops[i].repos : q <= r})>>

Restores(ops, done, post, snap) ==
    UNION {
        LET op == ops[i]
            one(id, r, lists, needs) ==
                Restore(ops, done, post, id, r, lists, needs)
        IN  CASE op.kind = "unstar" ->
                    {one(<<op.id[1], 1>>, op.on, op.listIds, {op.id})}
              [] op.kind = "list_delete" ->
                    {one(NthOf(ops, i, r), r, ListsOf(snap, r), {op.id}) :
                        r \in op.repos}
              [] op.kind = "list_membership_set" ->
                    {one(op.id, op.on, op.listIds,
                         Recreated(ops, done, op.listIds))}
              [] OTHER -> {}
        : i \in done}

\* One repository gets one membership operation: its requests must agree.
Contradict(requests) ==
    \E p, q \in requests :
        /\ p.repo = q.repo
        /\ <<p.expected, p.targets, p.made>> # <<q.expected, q.targets, q.made>>
Together(requests, r) == {q \in requests : q.repo = r}
LeastId(group) ==
    (CHOOSE q \in group : \A p \in group : p = q \/ Below(q.id, p.id)).id

\* membershipIdRemap
Chosen(requests) ==
    [id \in {q.id : q \in requests} |->
        LeastId(Together(requests, (CHOOSE q \in requests : q.id = id).repo))]

----------------------------------------------------------------------------
(* The inverse operations.  A node is an operation with the repositories    *)
(* and Lists it affects.                                                    *)

Node(op, repos, lists) == [op |-> op, repos |-> repos, lists |-> lists]

Inverses(op, row, post) ==
    LET new == [NoOp EXCEPT !.id = op.id, !.on = op.on]
    IN  CASE op.kind = "star" ->
                LET held == Holding(post, op.on)
                IN  {Node([new EXCEPT !.kind = "unstar", !.listIds = held],
                          {op.on}, held)}
          [] op.kind = "unstar" ->
                {Node([new EXCEPT !.kind = "star"], {op.on}, {})}
          [] op.kind = "list_create" ->
                {Node([new EXCEPT !.kind = "list_delete", !.on = row.list,
                                  !.from = op.to, !.stamp = row.stamp,
                                  !.repos = {m[2] : m \in {p \in post.members :
                                                       p[1] = row.list}}],
                      {}, {row.list})}
          [] op.kind = "list_update" ->
                {Node([new EXCEPT !.kind = "list_update", !.from = op.to,
                                  !.to = op.from], {}, {op.on})}
          [] op.kind = "list_delete" ->
                {Node([new EXCEPT !.kind = "list_create", !.on = op.id[1],
                                  !.listIds = post.lists, !.to = op.from],
                      {}, {op.on})}
          [] OTHER -> {}

MembershipNode(requests, r) ==
    LET group == Together(requests, r)
        first == CHOOSE q \in group : q.id = LeastId(group)
        renamed(id) == IF id \in DOMAIN Chosen(requests)
                       THEN Chosen(requests)[id] ELSE id
    IN  Node([NoOp EXCEPT !.id = first.id, !.kind = "list_membership_set",
                          !.on = r, !.listIds = first.expected,
                          !.targets = first.targets, !.made = first.made,
                          !.dependsOn = {renamed(d) : d \in UNION
                                            {q.needs : q \in group}}
                                            \ {first.id}],
             {r}, UNION {q.affects : q \in group})

\* Where the inverse of ops[i] begins and ends.
Entries(ops, i, chosen) ==
    IF ops[i].kind = "list_membership_set" THEN {chosen[ops[i].id]}
    ELSE {ops[i].id}
Exits(ops, i, chosen) ==
    CASE ops[i].kind = "list_membership_set" -> {chosen[ops[i].id]}
      [] ops[i].kind = "unstar" -> {chosen[<<ops[i].id[1], 1>>]}
      [] ops[i].kind = "list_delete" /\ ops[i].repos # {} ->
            {chosen[NthOf(ops, i, r)] : r \in ops[i].repos}
      [] OTHER -> {ops[i].id}

\* If ops[i] needed ops[j], the inverse of ops[j] waits for that of ops[i].
Reversed(ops, done, nodes, chosen) ==
    {LET of == {j \in done : n.op.id \in Entries(ops, j, chosen)}
         later == {i \in done : \E j \in of : ops[j].id \in ops[i].dependsOn}
     IN  [n EXCEPT !.op.dependsOn =
              @ \cup ((UNION {Exits(ops, i, chosen) : i \in later}) \ {n.op.id})]
     : n \in nodes}

\* Without the nodes that affect something protected, and those that need one
\* of them: what is removed is the least set with both.
Unprotected(nodes, req) ==
    LET affected(n) == \/ n.repos \cap req.keepRepos # {}
                       \/ n.lists \cap req.keepLists # {}
        closed(removed) == \A n \in nodes :
            affected(n) \/ n.op.dependsOn \cap removed # {} => n.op.id \in removed
    IN  {n \in nodes : \E removed \in SUBSET {m.op.id : m \in nodes} :
            closed(removed) /\ n.op.id \notin removed}

Undoing(ops, rows, snap, req) ==
    LET done == {i \in DOMAIN ops : ops[i].id \in DOMAIN rows
                                       /\ rows[ops[i].id].status = "succeeded"}
        post == After(ops, rows, done, snap)
        requests == Restores(ops, done, post, snap)
        nodes == (UNION {Inverses(ops[i], rows[ops[i].id], post) : i \in done})
                    \cup {MembershipNode(requests, r) :
                            r \in {q.repo : q \in requests}}
        kept == Unprotected(Reversed(ops, done, nodes, Chosen(requests)), req)
        id(op) == op.id
    IN  [ok |-> AfterHolds(ops, rows, done) /\ ~ Contradict(requests),
         ops |-> InOrder({n.op : n \in kept}, id)]

\* The rollback plan of a finished run, or the refusal of it.
Undo(ops, rows, stop, completed, snap, complete, req) ==
    IF ~ complete \/ ~ AuditHolds(ops, rows, stop, completed)
    THEN [ok |-> FALSE, ops |-> << >>]
    ELSE LET plan == Undoing(ops, rows, snap, req)
         IN  [ok |-> plan.ok /\ Executable(plan.ops), ops |-> plan.ops]
=============================================================================
