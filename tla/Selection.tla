----------------------------- MODULE Selection ------------------------------
(***************************************************************************)
(* Selecting and ordering the repositories of a snapshot, twice: as the     *)
(* domain defines it (matchesFilter and compareRepositories of              *)
(* domain/filter.ts) and as the storage compiles it to SQL                  *)
(* (storage/filter-sql.ts).                                                 *)
(*                                                                          *)
(* A repository is a record of one field per class of column: texts and     *)
(* times are numbers in their order, Null where the column may be null.     *)
(* updated_at and starred_at behave as stargazer_count does, and the other  *)
(* texts as full_name or primary_language; substrings are left out.         *)
(*                                                                          *)
(* A filter is the sequence of its nodes, children before parents and the   *)
(* root last; the empty sequence is the absent filter.                      *)
(***************************************************************************)
EXTENDS Integers, Sequences, FiniteSets

CONSTANT Null

\* A null is no value of a column.
ASSUME SelectionAssumption == Null \notin Int /\ Null \notin BOOLEAN

Repository ==
    [id : Nat, full_name : Int, stargazer_count : Int, is_archived : {0, 1},
     pushed_at : Int \cup {Null}, primary_language : Int \cup {Null},
     topics : SUBSET Nat, lists : SUBSET Nat]

Collections == {"topics", "lists"}
Composites == {"all", "any", "not"}

\* x compared with the value of a leaf, a set of one number or of several.
Holds(op, x, value) ==
    CASE op \in {"eq", "in"} -> x \in value
      [] op \in {"neq", "not_in"} -> x \notin value
      [] op \in {"lt", "before"} -> \A y \in value : x < y
      [] op \in {"gt", "after"} -> \A y \in value : x > y
      [] op = "lte" -> \A y \in value : x <= y
      [] op = "gte" -> \A y \in value : x >= y

\* A relative time is resolved when the request is read.
Resolve(filter, now) ==
    [i \in DOMAIN filter |->
        IF filter[i].ago
        THEN [filter[i] EXCEPT !.ago = FALSE, !.value = {now - x : x \in @}]
        ELSE filter[i]]

RequiresListCoverage(filter) ==
    \E i \in DOMAIN filter : /\ filter[i].op \notin Composites
                             /\ filter[i].field \in {"lists", "is_unclassified"}

\* What may be asked of a field: is_null true and false are is_null and
\* not_null, and only some fields may be null.
Operators(field) ==
    CASE field = "full_name" -> {"eq", "neq", "in", "not_in"}
      [] field = "primary_language" ->
            {"eq", "neq", "in", "not_in", "is_null", "not_null"}
      [] field = "stargazer_count" ->
            {"eq", "neq", "lt", "lte", "gt", "gte", "in", "not_in"}
      [] field \in {"is_archived", "is_unclassified"} -> {"eq", "neq"}
      [] field = "pushed_at" -> {"before", "after", "eq", "is_null", "not_null"}
      [] field \in Collections ->
            {"contains", "not_contains", "in", "not_in", "is_null", "not_null"}

Fields == Collections \cup {"full_name", "primary_language", "stargazer_count",
                            "is_archived", "is_unclassified", "pushed_at"}

IsLeaf(n) ==
    /\ n.op \in Operators(n.field)
    /\ n.op \notin {"in", "not_in", "is_null", "not_null"} => Cardinality(n.value) = 1
    /\ n.ago => n.field = "pushed_at"

\* A composite node has children, a negation one.
NodeFits(n) ==
    IF n.op \notin Composites THEN IsLeaf(n)
    ELSE n.of # {} /\ (n.op = "not" => Cardinality(n.of) = 1)

\* At most 100 leaves and 12 levels.
WithinLimits(filter) ==
    LET leaves == {i \in DOMAIN filter : filter[i].op \notin Composites}
        levels[i \in DOMAIN filter] ==
            IF i \in leaves THEN 1
            ELSE 1 + CHOOSE d \in 0..Len(filter) :
                        /\ \A c \in filter[i].of : levels[c] <= d
                        /\ d > 0 => \E c \in filter[i].of : levels[c] = d
    IN  /\ Cardinality(leaves) <= 100
        /\ filter # << >> => levels[Len(filter)] <= 12

IsFilter(filter) ==
    /\ \A i \in DOMAIN filter : NodeFits(filter[i])
    /\ WithinLimits(filter)

\* The elements of S in the order of Before, a strict total order.
Sorted(S, Before(_, _)) ==
    [i \in 1..Cardinality(S) |->
        CHOOSE x \in S : Cardinality({y \in S : Before(y, x)}) = i - 1]

Unclassified(v) == IF v.lists = {} THEN 1 ELSE 0

----------------------------------------------------------------------------
(* The domain's definition.                                                 *)

LeafMatches(v, n) ==
    CASE n.field \in Collections /\ n.op = "is_null" -> v[n.field] = {}
      [] n.field \in Collections /\ n.op = "not_null" -> v[n.field] # {}
      [] n.field \in Collections /\ n.op \in {"contains", "in"} ->
            n.value \cap v[n.field] # {}
      [] n.field \in Collections /\ n.op \in {"not_contains", "not_in"} ->
            n.value \cap v[n.field] = {}
      [] n.field = "is_unclassified" -> Holds(n.op, Unclassified(v), n.value)
      [] n.field \notin Collections /\ n.op = "is_null" -> v[n.field] = Null
      [] n.field \notin Collections /\ n.op = "not_null" -> v[n.field] # Null
      [] OTHER -> v[n.field] # Null /\ Holds(n.op, v[n.field], n.value)

\* A node, its children known.
NodeMatches(v, n, matches) ==
    CASE n.op = "all" -> \A c \in n.of : matches[c]
      [] n.op = "any" -> \E c \in n.of : matches[c]
      [] n.op = "not" -> \A c \in n.of : ~matches[c]
      [] OTHER -> LeafMatches(v, n)

Matches(v, filter) ==
    LET matches[i \in DOMAIN filter] == NodeMatches(v, filter[i], matches)
    IN  filter # << >> => matches[Len(filter)]

SortTerm == [field : {"full_name", "stargazer_count", "pushed_at"},
             direction : {"asc", "desc"}]

\* Repeated fields count once; the name and the id break ties.
Normalized(sort) ==
    LET named == IF \E i \in DOMAIN sort : sort[i].field = "full_name" THEN << >>
                 ELSE <<[field |-> "full_name", direction |-> "asc"]>>
        firsts == Sorted({i \in DOMAIN sort :
                             \A j \in 1..i-1 : sort[j].field # sort[i].field}, <)
    IN  [k \in DOMAIN firsts |-> sort[firsts[k]]] \o named

IdTerm == [field |-> "id", direction |-> "asc"]

Beyond(direction, x, y) == IF direction = "asc" THEN x > y ELSE x < y

\* Nulls come last in both directions.
Precedes(t, x, y) ==
    /\ x # y
    /\ x # Null
    /\ y # Null => Beyond(t.direction, y, x)

\* a comes before b if the first term that tells them apart says so.
Lexical(Before(_, _, _), terms, a, b) ==
    \E i \in DOMAIN terms :
        /\ Before(terms[i], a[terms[i].field], b[terms[i].field])
        /\ \A j \in 1..i-1 : a[terms[j].field] = b[terms[j].field]

ComesBefore(a, b, sort) == Lexical(Precedes, Append(sort, IdTerm), a, b)

Values(v, sort) == [i \in DOMAIN sort |-> v[sort[i].field]]

----------------------------------------------------------------------------
(* Mutated conditions: each is a plausible bug that some run rejects.       *)

NotCoalesced(x) == x
AfterButForNulls(t, x, value) ==
    x # Null /\ Beyond(t.direction, x, value)
NullsWhereSqliteHasThem(t, x, y) == FALSE

----------------------------------------------------------------------------
(* The compiled SQL.  A comparison with a null is null, NOT null is null,   *)
(* and a row is selected only by TRUE.                                      *)

Coalesce(x) == IF x = Null THEN FALSE ELSE x

Compared(op, x, value) == IF x = Null THEN Null ELSE Holds(op, x, value)

SqlLeaf(row, n) ==
    CASE n.field \in Collections /\ n.op = "is_null" ->
            ~\E x \in row[n.field] : TRUE
      [] n.field \in Collections /\ n.op = "not_null" ->
            \E x \in row[n.field] : TRUE
      [] n.field \in Collections /\ n.op \in {"contains", "in"} ->
            \E x \in row[n.field] : x \in n.value
      [] n.field \in Collections /\ n.op \in {"not_contains", "not_in"} ->
            ~\E x \in row[n.field] : x \in n.value
      [] n.field = "is_unclassified" ->
            (\E x \in row.lists : TRUE) <=> (n.op = "eq" <=> n.value = {0})
      [] n.field \notin Collections /\ n.op = "is_null" -> row[n.field] = Null
      [] n.field \notin Collections /\ n.op = "not_null" -> row[n.field] # Null
      [] n.field \in {"stargazer_count", "is_archived"} ->
            Compared(n.op, row[n.field], n.value)
      [] OTHER -> Coalesce(Compared(n.op, row[n.field], n.value))

SqlAll(xs) == CASE FALSE \in xs -> FALSE [] xs = {TRUE} -> TRUE [] OTHER -> Null
SqlAny(xs) == CASE TRUE \in xs -> TRUE [] xs = {FALSE} -> FALSE [] OTHER -> Null
SqlNot(x) == IF x = Null THEN Null ELSE ~x

SqlNode(row, n, value) ==
    LET children == {value[c] : c \in n.of}
    IN  CASE n.op = "all" -> SqlAll(children)
          [] n.op = "any" -> SqlAny(children)
          [] n.op = "not" -> SqlNot(CHOOSE x \in children : TRUE)
          [] OTHER -> SqlLeaf(row, n)

Selects(row, filter) ==
    LET value[i \in DOMAIN filter] == SqlNode(row, filter[i], value)
    IN  filter # << >> => value[Len(filter)] = TRUE

\* CASE WHEN pushed_at IS NULL THEN 1 ELSE 0 END ASC
NullsLast(t, x, y) == t.field = "pushed_at" /\ x # Null /\ y = Null

\* SQLite's own order has nulls below every value.
Lower(x, y) == x # y /\ y # Null /\ (x # Null => x < y)

OrderTerm(t, x, y) ==
    \/ NullsLast(t, x, y)
    \/ /\ ~NullsLast(t, y, x)
       /\ IF t.direction = "asc" THEN Lower(x, y) ELSE Lower(y, x)

OrderedBefore(a, b, sort) == Lexical(OrderTerm, Append(sort, IdTerm), a, b)

\* The rows after a value of a term that is not null: the nulls are.
After(t, x, value) ==
    IF x = Null THEN t.field = "pushed_at" ELSE Beyond(t.direction, x, value)

\* One branch per term whose value is not null, and one for the id.
Keyset(row, sort, cursor) ==
    \/ \E i \in DOMAIN sort :
        /\ cursor.values[i] # Null
        /\ After(sort[i], row[sort[i].field], cursor.values[i])
        /\ \A j \in 1..i-1 : row[sort[j].field] = cursor.values[j]
    \/ Values(row, sort) = cursor.values /\ row.id > cursor.id
=============================================================================
