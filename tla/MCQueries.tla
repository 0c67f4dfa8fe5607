----------------------------- MODULE MCQueries ------------------------------
(* Three repositories with ties and nulls, two Lists, one-row and two-row    *)
(* pages.                                                                    *)
EXTENDS Queries

R(i, n, s, p, l, t, ls) ==
    [id |-> i, full_name |-> n, stargazer_count |-> s, is_archived |-> s,
     pushed_at |-> p, primary_language |-> l, topics |-> t, lists |-> ls]
S(rows, own, covered) ==
    [rows |-> rows, names |-> [l \in 1..2 |-> 1], own |-> own, covered |-> covered]

Ties == {R(1, 1, 0, 2, 1, {1}, {1, 2}), R(2, 1, 1, Null, Null, {}, {}),
         R(3, 2, 1, Null, 1, {1, 2}, {1})}
Spread == {R(1, 2, 1, Null, Null, {2}, {1}), R(2, 1, 0, 1, 1, {}, {}),
           R(3, 1, 0, 2, 2, {1}, {1, 2})}
MCCollected == {S(Ties, TRUE, TRUE), S(Spread, TRUE, FALSE), S(Ties, FALSE, TRUE)}

Leaf(f, o, v) == [op |-> o, field |-> f, value |-> v, of |-> {}, ago |-> FALSE]
Ago(f, o, v) == [Leaf(f, o, v) EXCEPT !.ago = TRUE]
Inner(o, c) == [op |-> o, field |-> "none", value |-> {}, of |-> c, ago |-> FALSE]
MCFilters == {
    << >>,
    <<Leaf("primary_language", "eq", {1}), Inner("not", {1})>>,
    <<Ago("pushed_at", "before", {1})>>,
    <<Leaf("lists", "not_contains", {2}), Leaf("is_unclassified", "eq", {1}),
      Inner("not", {2}), Inner("all", {1, 3})>>,
    <<Leaf("pushed_at", "after", {1}), Leaf("topics", "contains", {1}),
      Leaf("is_archived", "neq", {0}), Inner("any", {1, 2, 3})>>,
    <<Leaf("stargazer_count", "lte", {0}), Leaf("full_name", "in", {1}),
      Leaf("stargazer_count", "gte", {1}), Inner("any", {1, 2, 3})>>,
    <<Leaf("stargazer_count", "is_null", {})>>,
    <<Leaf("pushed_at", "is_null", {}), Leaf("topics", "is_null", {}), Inner("any", {1, 2})>>}

T(f, d) == [field |-> f, direction |-> d]
MCSorts == {<< >>, <<T("pushed_at", "asc")>>, <<T("pushed_at", "desc"), T("stargazer_count", "asc")>>,
            <<T("stargazer_count", "desc"), T("stargazer_count", "asc"), T("full_name", "desc")>>}

A(k, s, f, o, x, n) ==
    [kind |-> k, snapshot |-> s, filter |-> f, sort |-> o, selector |-> x, limit |-> n,
     evidence |-> 0]
MCRequests ==
    {A("repositories", 1, f, <<T("pushed_at", "asc")>>, 0, 1) : f \in MCFilters}
    \cup {A("repositories", 0, f, << >>, 0, 1) :
            f \in {<< >>, <<Ago("pushed_at", "before", {1})>>}}
    \cup {A("repositories", 1, << >>, o, 0, 1) : o \in MCSorts}
    \cup {A("repositories", 1, << >>, <<T("pushed_at", "asc")>>, 0, 2)}
    \cup {[A("repositories", 1, << >>, << >>, 0, 2) EXCEPT !.evidence = 2]}
    \cup {A("lists", 1, << >>, << >>, 0, 1)}
    \cup {A("of_list", s, << >>, << >>, x, 1) : s \in {0, 1}, x \in 1..2}
    \cup {A("of_repository", 1, << >>, << >>, 1, 1)}
    \cup {A(k, 0, << >>, << >>, 0, n) : k \in {"plan", "run"}, n \in 1..2}
    \cup {A("candidates", 0, << >>, << >>, 0, 1)}
    \cup {A("history", 0, << >>, << >>, x, 1) : x \in 1..2}
=============================================================================
