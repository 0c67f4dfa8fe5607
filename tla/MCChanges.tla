----------------------------- MODULE MCChanges -----------------------------
(* Two repositories, two Lists, requests of one or two actions. *)
EXTENDS Changes

L(m, s) == [meta |-> [f \in Field |-> m], stamp |-> s]
MCAccounts == {
    [starred |-> {1}, lists |-> [l \in 1..2 |-> L(0, 1)], members |-> {<<1, 1>>, <<2, 1>>}],
    [starred |-> {1, 2}, lists |-> [l \in 1..2 |-> L(0, 1)], members |-> {<<1, 1>>, <<1, 2>>}]}

A(kind) == [NoAction EXCEPT !.kind = kind]
MCActions ==
    {[A(k) EXCEPT !.repos = rs] : k \in {"star", "unstar"}, rs \in {{1}, {2}}}
    \cup {[A("list_create") EXCEPT !.refs = {1}]}
    \cup {[A("list_update") EXCEPT !.lists = ls, !.fields = {<<"name", 1>>}] :
             ls \in {{1, 2}}}
    \cup {[A("list_update") EXCEPT !.lists = {1}, !.fields = v] :
             v \in {{<<"name", 0>>}, {<<"private", 1>>}}}
    \cup {[A("list_delete") EXCEPT !.lists = ls] : ls \in {{1}, {1, 2}}}
    \cup {[A("list_membership_set") EXCEPT !.repos = {1}, !.lists = ls, !.refs = rf] :
             ls \in {{2}}, rf \in {{}, {1}}}
    \cup {[A("list_membership_add") EXCEPT !.repos = {2}, !.lists = {1}],
          [A("list_membership_add") EXCEPT !.repos = {2}, !.refs = {1}],
          [A("list_membership_add") EXCEPT !.repos = {1, 2}, !.lists = {2}],
          [A("list_membership_remove") EXCEPT !.repos = {1, 2}, !.lists = {1}]}

\* A filter lets these repositories through; not all of them may be starred.
MCFilters ==
    {[A("unstar") EXCEPT !.repos = {1, 2}, !.byFilter = TRUE],
     [A("list_membership_add") EXCEPT !.repos = {2}, !.byFilter = TRUE,
                                    !.lists = {2}]}
MCUnparsed == {A("star"), [A("list_update") EXCEPT !.lists = {1}]}

Ask1(as, rs, ls) == [actions |-> as, keepRepos |-> rs, keepLists |-> ls]
MCRequests ==
    {Ask1({a, b}, {}, {}) : a, b \in MCActions}
    \cup {Ask1({a}, {1}, {}) : a \in MCActions \cup MCFilters}
    \cup {Ask1({a}, {}, {}) : a \in MCFilters \cup MCUnparsed}
    \cup {Ask1({a}, {}, {1}) : a \in MCActions}
MCShields == {[keepRepos |-> {}, keepLists |-> {}], [keepRepos |-> {1}, keepLists |-> {}],
              [keepRepos |-> {}, keepLists |-> {1}]}
=============================================================================
