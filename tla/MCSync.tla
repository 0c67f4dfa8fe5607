------------------------------- MODULE MCSync -------------------------------
(* Small instances of Sync.  MCSync.cfg: two stars, each in a list of its    *)
(* own, and a page size of one, so that every collection takes at least five *)
(* reads.  MCSyncCalls.cfg: two calls, one star, no list.                    *)
EXTENDS Sync, TLC

CONSTANTS r1, r2, l1, l2, c1, c2

OneRepo == {r1}
TwoRepos == {r1, r2}
TwoLists == {l1, l2}
NoList == {}
OneCall == {c1}
TwoCalls == {c1, c2}
OneStar == <<r1>>
TwoStars == <<r1, r2>>
EachItsOwn == [l \in TwoLists |-> IF l = l1 THEN {r1} ELSE {r2}]
Unlisted == [l \in {} |-> {}]
Both == {[star |-> "available", list |-> "available"]}
Either == Both \cup {[star |-> "available", list |-> "NOT_FOUND"],
                     [star |-> "available", list |-> "GITHUB_UNAVAILABLE"]}

(* The metadata beside the snapshots: two repositories, two database ids. *)
M == INSTANCE Metadata
Observations == [repo : 1..2, db : 1..2, content : 1..2, at : 1..2]
ASSUME MetadataAssumption ==
    /\ M!CurrentIsLatest(Observations, 3)
    /\ M!OrderIsIrrelevant(Observations, 2)
    /\ M!ReuseDoesNotAge(Observations, 2, 1)
    /\ M!ReuseDoesNotAge(Observations, 2, 0)
============================================================================
