----------------------------- MODULE SyncProofs -----------------------------
(***************************************************************************)
(* Theorems about Sync, for any account, any page size, any number of calls *)
(* and any number of drafts of each.  However calls overlap, crash, lose    *)
(* their lease and are followed by others, one draft at a time is collected,*)
(* and none is published over another (DraftInv).  What is published was so *)
(* although no two pages were read at the same time (AccountInv: what the   *)
(* history of the account is like; CollectInv: what the two collections of  *)
(* a draft say of it).  And an account at rest is published (RestInv).      *)
(***************************************************************************)
EXTENDS Sync, TLAPS, SequenceTheorems, FiniteSetTheorems

\* Where a call has a draft that it may still publish, or is about to fail.
Holding == Drafting \cup {"changed", "failed"}

\* The types the drafts and the lease depend on.
Typed ==
    /\ pc \in [Call -> PC]
    /\ attempt \in [Call -> 1..MaxAttempts]
    /\ holder \in Call \cup {None}
    /\ DOMAIN snap = Snapshot
    /\ \A s \in Snapshot : DOMAIN snap[s] = {"status", "coverage", "marker",
                                             "staged", "verified"}

Building(s) == snap[s].status = "building"

(* The drafts.  A call that is not collecting has none, one that is about   *)
(* to create a draft under its lease has failed all others, and one that    *)
(* collects under its lease owns the only one.                              *)
Alone(c) ==
    /\ pc[c] \in {"idle", "recovering", "creating"} =>
           \A s \in Snapshot : s[1] = c => ~Building(s)
    /\ holder = c /\ pc[c] = "creating" => \A s \in Snapshot : ~Building(s)
    /\ holder = c /\ pc[c] \in Holding =>
           \A s \in Snapshot : Building(s) => s = Draft(c)

DraftInv == Typed /\ (\A c \in Call : Alone(c)) /\ overlapped = {}

(* The draft of a call is one of its snapshots.                             *)
LEMMA DraftIsOwn ==
    ASSUME Typed, NEW c \in Call
    PROVE  Draft(c) \in Snapshot /\ Draft(c)[1] = c
BY DEF Typed, Draft, Snapshot

(* A step of c that keeps the lease or gives it up, and makes no draft.     *)
LEMMA StaysAlone ==
    ASSUME DraftInv, NEW c \in Call, Typed', overlapped' = overlapped,
           holder' \in {holder, None},
           \A d \in Call \ {c} : pc'[d] = pc[d] /\ attempt'[d] = attempt[d],
           \A s \in Snapshot : Building(s)' => Building(s),
           Alone(c)'
    PROVE  DraftInv'
<1>1. ASSUME NEW d \in Call, d # c PROVE Alone(d)'
  <2>1. Alone(d) /\ pc'[d] = pc[d] /\ attempt'[d] = attempt[d]
    BY <1>1 DEF DraftInv
  <2>2. holder' = d => holder = d
    BY SyncAssumption
  <2>3. QED
    BY <2>1, <2>2 DEF Alone, Draft
<1>2. QED
  BY <1>1 DEF DraftInv

(* A step of c that moves it and nothing else.                              *)
LEMMA MovesAlone ==
    ASSUME DraftInv, NEW c \in Call, NEW label \in PC, Goto(c, label),
           UNCHANGED <<snap, holder, attempt, overlapped>>,
           \/ label \in {"ended", "leaving", "crashed"}
           \/ pc[c] \in Holding /\ label \in Holding
           \/ pc[c] = "idle" /\ label = "recovering"
    PROVE  DraftInv'
<1>1. Typed'
  BY DEF DraftInv, Typed, Goto
<1>2. pc'[c] = label /\ \A d \in Call \ {c} : pc'[d] = pc[d]
  BY DEF DraftInv, Typed, Goto
<1>3. Alone(c)'
  BY <1>2 DEF DraftInv, Alone, Building, Draft, Holding, Drafting, Reading
<1>4. QED
  BY <1>1, <1>2, <1>3, StaysAlone DEF Building

\* What a write to the rows of the draft d leaves of all others and of its kind.
WritesOnly(d) ==
    /\ DOMAIN snap' = Snapshot
    /\ DOMAIN snap'[d] = DOMAIN snap[d]
    /\ \A s \in Snapshot \ {d} : snap'[s] = snap[s]

(* A step of c that writes the rows of its own draft, which is not made new *)
(* by it.                                                                   *)
LEMMA WritesAlone ==
    ASSUME DraftInv, NEW c \in Call, UNCHANGED <<holder, overlapped>>,
           pc[c] \in Holding, pc' \in [Call -> PC], attempt' \in [Call -> 1..MaxAttempts],
           \A d \in Call \ {c} : pc'[d] = pc[d] /\ attempt'[d] = attempt[d],
           NEW draft \in Snapshot, draft = Draft(c), WritesOnly(draft),
           snap'[draft].status = "building" => Building(draft),
           \/ pc'[c] \in Holding /\ attempt'[c] = attempt[c]
           \/ pc'[c] = "leaving"
           \/ pc'[c] = "creating" /\ snap'[draft].status # "building" /\ holder = c
    PROVE  DraftInv'
<1>1. Typed'
  BY DEF DraftInv, Typed, WritesOnly
<1>2. \A s \in Snapshot : Building(s)' => Building(s)
  BY DEF Building, WritesOnly
<1>3. Alone(c)'
  <2>1. CASE pc'[c] \in Holding /\ attempt'[c] = attempt[c]
    BY <1>2, <2>1 DEF DraftInv, Alone, Draft, Holding, Drafting, Reading
  <2>2. CASE pc'[c] = "leaving"
    BY <2>2 DEF Alone, Holding, Drafting, Reading
  <2>3. CASE pc'[c] = "creating" /\ snap'[draft].status # "building" /\ holder = c
    <3>1. \A s \in Snapshot : Building(s) => s = draft
      BY <2>3 DEF DraftInv, Alone
    <3>2. \A s \in Snapshot : ~Building(s)'
      BY <1>2, <2>3, <3>1 DEF Building
    <3>3. QED
      BY <2>3, <3>2 DEF Alone, Holding, Drafting, Reading
  <2>4. QED
    BY <2>1, <2>2, <2>3
<1>4. QED
  BY <1>1, <1>2, <1>3, StaysAlone DEF DraftInv, Typed

(* Appending a page leaves the draft what it is.                            *)
LEMMA AppendsAlone ==
    ASSUME Typed, NEW c \in Call, NEW batch, AppendBatch(c, batch),
           NEW draft \in Snapshot, draft = Draft(c)
    PROVE  WritesOnly(draft) /\ snap'[draft].status = snap[draft].status
<1>1. CASE second[c]
  <2>1. snap' = [snap EXCEPT ![draft].verified = Merged(@, batch)]
    BY <1>1 DEF AppendBatch, AppendVerification
  <2>2. QED
    BY <2>1 DEF Typed, WritesOnly
<1>2. CASE ~second[c]
  <2>1. snap' = [snap EXCEPT ![draft].staged = Merged(@, batch)]
    BY <1>2 DEF AppendBatch, AppendSnapshot
  <2>2. QED
    BY <2>1 DEF Typed, WritesOnly
<1>3. QED
  BY <1>1, <1>2

(* A step of a collection: it appends a page or gives the draft up.         *)
LEMMA ReadsAlone ==
    ASSUME DraftInv, NEW c \in Call, UNCHANGED <<holder, attempt, overlapped>>,
           pc[c] \in Reading,
           \/ UNCHANGED snap
           \/ \E batch : AppendBatch(c, batch),
           \/ UNCHANGED pc
           \/ \E label \in Holding : Goto(c, label)
    PROVE  DraftInv'
<1>0. pc \in [Call -> PC] /\ Typed
  BY DEF DraftInv, Typed
<1>1. /\ pc' \in [Call -> PC] /\ pc'[c] \in Holding
      /\ \A d \in Call \ {c} : pc'[d] = pc[d]
  BY <1>0 DEF Goto, Holding, Drafting, PC, Reading
<1>2. PICK draft \in Snapshot : draft = Draft(c)
  BY <1>0, DraftIsOwn
<1>3. WritesOnly(draft) /\ snap'[draft].status = snap[draft].status
  <2>1. CASE UNCHANGED snap
    BY <1>0, <2>1 DEF WritesOnly, Typed
  <2>2. CASE \E batch : AppendBatch(c, batch)
    BY <1>0, <1>2, <2>2, AppendsAlone
  <2>3. QED
    BY <2>1, <2>2
<1>4. attempt' \in [Call -> 1..MaxAttempts] /\ pc[c] \in Holding
  BY <1>0 DEF Typed, Holding, Drafting
<1>5. QED
  BY <1>1, <1>2, <1>3, <1>4, WritesAlone DEF Building

LEMMA Drafts == DraftInv /\ [Next]_vars => DraftInv'
<1> SUFFICES ASSUME DraftInv, [Next]_vars PROVE DraftInv'
  OBVIOUS
<1>0. /\ pc \in [Call -> PC] /\ attempt \in [Call -> 1..MaxAttempts]
      /\ holder \in Call \cup {None} /\ None \notin Call /\ Typed
      /\ \A c \in Call : Alone(c) /\ Draft(c) \in Snapshot
  BY DraftIsOwn, SyncAssumption DEF DraftInv, Typed
<1> USE DEF account, reader, PC, Holding, Drafting, Reading
<1>1. ASSUME NEW c \in Call, Acquire(c) PROVE DraftInv'
  <2>1. CASE holder' = c /\ holder = None /\ pc' = [pc EXCEPT ![c] = "recovering"]
    <3>1. \A d \in Call : pc'[d] = pc[d] \/ (d = c /\ pc'[d] = "recovering")
      BY <1>0, <2>1
    <3>2. \A d \in Call : Alone(d)'
      BY <1>0, <1>1, <2>1, <3>1 DEF Acquire, Alone, Building, Draft
    <3>3. Typed' /\ overlapped' = {}
      BY <1>0, <1>1, <2>1 DEF Acquire, Typed, DraftInv
    <3>4. QED
      BY <3>2, <3>3 DEF DraftInv
  <2>2. CASE Goto(c, "ended") /\ UNCHANGED holder
    BY <1>1, <2>2, MovesAlone DEF Acquire
  <2>3. QED
    BY <1>1, <2>1, <2>2 DEF Acquire, Goto
<1>2. ASSUME NEW c \in Call, RecoverAbandoned(c) PROVE DraftInv'
  <2>1. /\ holder = c /\ pc[c] = "recovering" /\ pc' = [pc EXCEPT ![c] = "creating"]
        /\ UNCHANGED <<holder, attempt, overlapped>>
        /\ snap' = [s \in Snapshot |-> IF Abandoned(s) THEN FailedRows(snap[s])
                                                       ELSE snap[s]]
    BY <1>2 DEF RecoverAbandoned, Goto
  <2>2. /\ Typed'
        /\ \A s \in Snapshot : Building(s)' => Building(s) /\ s[1] = c
    BY <1>0, <2>1 DEF Typed, Building, Abandoned, FailedRows
  <2>3. Alone(c)'
    BY <1>0, <2>1, <2>2 DEF Alone
  <2>4. QED
    BY <1>0, <2>1, <2>2, <2>3, StaysAlone
<1>3. ASSUME NEW c \in Call, Create(c) PROVE DraftInv'
  <2>1. PICK draft \in Snapshot : draft = Draft(c) /\ draft[1] = c
    BY <1>0, DraftIsOwn
  <2>2. /\ holder = c /\ pc[c] = "creating" /\ pc' = [pc EXCEPT ![c] = "stars"]
        /\ UNCHANGED <<holder, attempt, overlapped>>
        /\ snap' = [snap EXCEPT ![draft].status = "building",
                                ![draft].coverage = DraftCoverage(c)]
    BY <1>3, <2>1 DEF Create, Goto
  <2>3. /\ Typed'
        /\ \A s \in Snapshot \ {draft} : snap'[s] = snap[s] /\ ~Building(s)'
    BY <1>0, <2>2 DEF Typed, Alone, Building
  <2>4. \A d \in Call : Alone(d)'
    BY <1>0, <2>1, <2>2, <2>3 DEF Alone, Building, Draft
  <2>5. QED
    BY <2>2, <2>3, <2>4 DEF DraftInv
<1>4. ASSUME NEW c \in Call, ReadStars(c) PROVE DraftInv'
  BY <1>4, ReadsAlone DEF ReadStars, AfterStars, Goto
<1>5. ASSUME NEW c \in Call, ReadLists(c) PROVE DraftInv'
  BY <1>5, ReadsAlone DEF ReadLists, AfterLists, Goto
<1>6. ASSUME NEW c \in Call, ReadItems(c) PROVE DraftInv'
  BY <1>6, ReadsAlone DEF ReadItems, AfterLists, Goto
<1>7. ASSUME NEW c \in Call, BeginVerification(c) \/ FinishVerification(c)
      PROVE  DraftInv'
  <2>1. PICK draft \in Snapshot : draft = Draft(c)
    BY <1>0
  <2>2. PICK marker : snap' = [snap EXCEPT ![draft].marker = marker]
    BY <1>7, <2>1 DEF BeginVerification, FinishVerification
  <2>3. WritesOnly(draft) /\ snap'[draft].status = snap[draft].status
    BY <1>0, <2>1, <2>2 DEF Typed, WritesOnly
  <2>4. /\ pc[c] \in Holding /\ pc' \in [Call -> PC] /\ pc'[c] \in Holding
        /\ \A d \in Call \ {c} : pc'[d] = pc[d]
        /\ UNCHANGED <<holder, attempt, overlapped>>
    BY <1>0, <1>7 DEF BeginVerification, FinishVerification, Goto
  <2>5. QED
    BY <1>0, <2>1, <2>3, <2>4, WritesAlone DEF Building
<1>8. ASSUME NEW c \in Call, Publish(c) PROVE DraftInv'
  <2>1. CASE Orphans(Rows(c)) # {} \/ Differs(Rows(c))
    BY <1>0, <1>8, <2>1, MovesAlone DEF Publish
  <2>2. CASE Orphans(Rows(c)) = {} /\ ~Differs(Rows(c))
    <3>1. PICK draft \in Snapshot : draft = Draft(c)
      BY <1>0
    <3>2. /\ snap' = [snap EXCEPT ![draft].status = "complete",
                                  ![draft].coverage = coverage[c],
                                  ![draft].marker = "none",
                                  ![draft].verified = Nothing]
          /\ overlapped' = overlapped \cup {s \in Snapshot \ {draft} : Building(s)}
          /\ pc' = [pc EXCEPT ![c] = "leaving"] /\ pc[c] = "publishing"
          /\ holder = c /\ UNCHANGED <<holder, attempt>>
      BY <1>8, <2>2, <3>1 DEF Publish, Building, Goto, Owns
    <3>3. {s \in Snapshot \ {draft} : Building(s)} = {}
      BY <1>0, <3>1, <3>2 DEF Alone
    <3>4. WritesOnly(draft) /\ snap'[draft].status = "complete"
      BY <1>0, <3>2 DEF Typed, WritesOnly
    <3>5. QED
      BY <1>0, <3>1, <3>2, <3>3, <3>4, WritesAlone
  <2>3. QED
    BY <1>8, <2>1, <2>2 DEF Publish
<1>9. ASSUME NEW c \in Call, FailDraft(c) PROVE DraftInv'
  <2>1. PICK draft \in Snapshot : draft = Draft(c)
    BY <1>0
  <2>2. /\ snap' = [snap EXCEPT ![draft] = FailedRows(@)]
        /\ UNCHANGED <<holder, overlapped>> /\ holder = c /\ pc[c] \in Holding
    BY <1>9, <2>1 DEF FailDraft, Owns
  <2>3. WritesOnly(draft) /\ snap'[draft].status = "failed"
    BY <1>0, <2>2 DEF Typed, WritesOnly, FailedRows
  <2>4. CASE Again(c)
    <3>1. /\ attempt' = [attempt EXCEPT ![c] = @ + 1]
          /\ pc' = [pc EXCEPT ![c] = "creating"] /\ attempt[c] < MaxAttempts
      BY <1>9, <2>4 DEF FailDraft, Again, Goto
    <3>2. attempt[c] + 1 \in 1..MaxAttempts
      BY <1>0, <3>1, SyncAssumption
    <3>3. QED
      BY <1>0, <2>1, <2>2, <2>3, <3>1, <3>2, WritesAlone
  <2>5. CASE ~Again(c)
    BY <1>0, <1>9, <2>1, <2>2, <2>3, <2>5, WritesAlone DEF FailDraft, Goto
  <2>6. QED
    BY <2>4, <2>5
<1>10. ASSUME NEW c \in Call, RefusePage(c) \/ BreakOff(c) \/ AbandonDraft(c)
       PROVE  DraftInv'
  <2>1. PICK label \in PC :
            /\ Goto(c, label)
            /\ label = "leaving" \/ (pc[c] \in Holding /\ label = "failed")
    BY <1>10 DEF RefusePage, BreakOff, AbandonDraft
  <2>2. UNCHANGED <<snap, holder, attempt, overlapped>>
    BY <1>10 DEF RefusePage, BreakOff, AbandonDraft
  <2>3. QED
    BY <2>1, <2>2, MovesAlone
<1>11. ASSUME NEW c \in Call, Leave(c) PROVE DraftInv'
  <2>1. /\ pc' = [pc EXCEPT ![c] = "ended"] /\ holder' \in {holder, None}
        /\ UNCHANGED <<snap, attempt, overlapped>>
    BY <1>11 DEF Leave, Goto
  <2>2. Typed' /\ Alone(c)'
    BY <1>0, <2>1 DEF Typed, Alone
  <2>3. QED
    BY <1>0, <2>1, <2>2, StaysAlone DEF Building
<1>12. ASSUME NEW c \in Call, Abort(c) \/ Crash(c) PROVE DraftInv'
  <2>1. CASE Abort(c)
    BY <1>0, <2>1 DEF Abort, DraftInv, Typed, Alone, Building, Draft
  <2>2. CASE Crash(c)
    BY <2>2, MovesAlone DEF Crash
  <2>3. QED
    BY <1>12, <2>1, <2>2
<1>13. CASE Startup
  <2>1. /\ snap' = [s \in Snapshot |-> IF Abandoned(s) THEN FailedRows(snap[s])
                                                       ELSE snap[s]]
        /\ UNCHANGED <<pc, holder, attempt, overlapped>>
    BY <1>13 DEF Startup
  <2>2. Typed' /\ \A s \in Snapshot : Building(s)' => Building(s)
    BY <1>0, <2>1 DEF Typed, Building, Abandoned, FailedRows
  <2>3. \A c \in Call : Alone(c)'
    BY <1>0, <2>1, <2>2 DEF Alone, Draft
  <2>4. QED
    BY <2>1, <2>2, <2>3 DEF DraftInv
<1>14. CASE Expire \/ Edit \/ UNCHANGED vars
  <2>1. UNCHANGED <<snap, pc, attempt, overlapped>> /\ holder' \in {holder, None}
    BY <1>14 DEF Expire, Edit, Edited, StarIt, Unstar, AddItem, RemoveItem,
                 DeleteList, vars
  <2>2. Typed' /\ \A c \in Call : Alone(c)'
    BY <1>0, <2>1 DEF Typed, Alone, Building, Draft
  <2>3. QED
    BY <2>1, <2>2 DEF DraftInv
<1>15. QED
  BY <1>1, <1>2, <1>3, <1>4, <1>5, <1>6, <1>7, <1>8, <1>9, <1>10, <1>11,
     <1>12, <1>13, <1>14 DEF Next, Step

(* At first there are no drafts.                                            *)
LEMMA InitDrafts == Init => DraftInv
BY SyncAssumption DEF Init, DraftInv, Typed, Alone, Building, Holding, Drafting,
     Reading, PC, NoRows

(* While a call collects under its lease, its own draft is the only one,    *)
(* whoever crashed or lost the lease before, and however many drafts there  *)
(* were: what others left behind has been failed (recoverAbandonedSnapshots)*)
THEOREM DraftIsAlone == Spec => []OneDraft
<1>1. DraftInv => OneDraft
  BY DEF DraftInv, Alone, Building, Holding, OneDraft
<1>2. QED
  BY <1>1, InitDrafts, Drafts, PTL DEF Spec

(* No draft is published if another one was published while it was          *)
(* collected: when one is published there is no other.                      *)
THEOREM NothingOverlaps == Spec => []NoOverlap
<1>1. DraftInv => NoOverlap
  BY DEF DraftInv, NoOverlap
<1>2. QED
  BY <1>1, InitDrafts, Drafts, PTL DEF Spec

----------------------------------------------------------------------------
(* The account and its history.  A star is there from its time on until it  *)
(* is taken away for good; since the time of a list its items only go; and  *)
(* an item that left does not return (Returns = FALSE).                     *)

AccountTyped ==
    /\ stars \in Seq(Star)
    /\ lists \in [List -> Nat]
    /\ items \in [List -> SUBSET Repo]
    /\ past \in Seq(Contents) /\ Len(past) > 0

StarsAreOrdered ==
    \A i, j \in DOMAIN stars :
        i < j => stars[i].repo # stars[j].repo /\ stars[i].at >= stars[j].at

ItemsAreStarred ==
    \A l \in List : \A r \in items[l] :
        lists[l] > 0 /\ \E i \in DOMAIN stars : stars[i].repo = r

StarsStay ==
    \A k \in 1..Len(past) : \A x \in past[k].stars :
        x.at \in 1..k /\ \A j \in x.at..k : x \in past[j].stars

ItemsOnlyGo ==
    \A k \in 1..Len(past) : \A y \in past[k].lists :
        /\ y[2] \in 1..k
        /\ \A j \in y[2]..k :
             \A r \in Repo : <<y[1], r>> \in past[k].items => <<y[1], r>> \in past[j].items

ItemsAreListed ==
    \A k \in 1..Len(past) : \A z \in past[k].items :
        \E y \in past[k].lists : y[1] = z[1]

GoneForGood ==
    \A k \in 1..Len(past) : \A z \in past[k].items :
        \/ z[2] \in items[z[1]] \/ z \in gone \/ lists[z[1]] = 0

NoReturn ==
    \A i, k \in 1..Len(past) : \A z \in past[i].items :
        z \in past[k].items => \A j \in i..k : z \in past[j].items

AccountInv ==
    /\ AccountTyped
    /\ past[Len(past)] = Account
    /\ StarsAreOrdered /\ ItemsAreStarred
    /\ StarsStay /\ ItemsOnlyGo /\ ItemsAreListed
    /\ GoneForGood
    /\ ~Returns => NoReturn

(* A star that is put in front, and one that is taken out.                  *)
LEMMA PutInFront ==
    ASSUME NEW S, NEW s \in Seq(S), NEW x \in S
    PROVE  /\ <<x>> \o s \in Seq(S)
           /\ DOMAIN (<<x>> \o s) = 1..(Len(s) + 1)
           /\ (<<x>> \o s)[1] = x
           /\ \A j \in 1..Len(s) : (<<x>> \o s)[j + 1] = s[j]
           /\ ToSet(<<x>> \o s) = ToSet(s) \cup {x}
<1>1. /\ <<x>> \o s \in Seq(S) /\ Len(<<x>> \o s) = Len(s) + 1
      /\ \A j \in 1..(Len(s) + 1) :
            (<<x>> \o s)[j] = IF j = 1 THEN x ELSE s[j - 1]
  BY ConcatProperties
<1>2. DOMAIN (<<x>> \o s) = 1..(Len(s) + 1) /\ DOMAIN s = 1..Len(s) /\ Len(s) \in Nat
  BY <1>1, LenProperties
<1>3. ToSet(<<x>> \o s) = ToSet(s) \cup {x}
  <2>1. \A y \in ToSet(s) : \E j \in 1..Len(s) : (<<x>> \o s)[j + 1] = y /\ j + 1 \in 1..(Len(s) + 1)
    BY <1>1, <1>2 DEF ToSet
  <2>2. ToSet(s) \cup {x} \subseteq ToSet(<<x>> \o s)
    <3>1. 1 \in 1..(Len(s) + 1) /\ (<<x>> \o s)[1] = x
      BY <1>1, <1>2
    <3>2. QED
      BY <1>2, <2>1, <3>1 DEF ToSet
  <2>3. \A j \in 1..(Len(s) + 1) : j # 1 => j - 1 \in 1..Len(s)
    BY <1>2
  <2>4. ToSet(<<x>> \o s) \subseteq ToSet(s) \cup {x}
    BY <1>1, <1>2, <2>3 DEF ToSet
  <2>5. QED
    BY <2>2, <2>4
<1>4. \A j \in 1..Len(s) : (<<x>> \o s)[j + 1] = s[j]
  BY <1>1, <1>2
<1>5. QED
  BY <1>1, <1>2, <1>3, <1>4

LEMMA TakenOut ==
    ASSUME NEW S, NEW s \in Seq(S), NEW i \in DOMAIN s
    PROVE  /\ RemoveAt(s, i) \in Seq(S)
           /\ DOMAIN RemoveAt(s, i) = 1..(Len(s) - 1)
           /\ \A j \in 1..(Len(s) - 1) :
                 RemoveAt(s, i)[j] = IF j < i THEN s[j] ELSE s[j + 1]
           /\ \A j \in DOMAIN s : j # i => s[j] \in ToSet(RemoveAt(s, i))
           /\ ToSet(RemoveAt(s, i)) \subseteq ToSet(s)
<1>0. Len(s) \in Nat /\ DOMAIN s = 1..Len(s) /\ i \in 1..Len(s)
  BY LenProperties
<1> DEFINE low == SubSeq(s, 1, i - 1)
           high == SubSeq(s, i + 1, Len(s))
<1>1. low \in Seq(S) /\ Len(low) = i - 1 /\ \A j \in 1..(i - 1) : low[j] = s[j]
  BY <1>0, SubSeqProperties
<1>2. high \in Seq(S) /\ Len(high) = Len(s) - i /\ \A j \in 1..(Len(s) - i) : high[j] = s[i + j]
  BY <1>0, SubSeqProperties
<1>3. /\ low \o high \in Seq(S) /\ Len(low \o high) = Len(s) - 1
      /\ \A j \in 1..(Len(s) - 1) :
            (low \o high)[j] = IF j < i THEN s[j] ELSE s[j + 1]
  <2> HIDE DEF low, high
  <2>1. /\ low \o high \in Seq(S) /\ Len(low \o high) = Len(low) + Len(high)
        /\ \A j \in 1..(Len(low) + Len(high)) :
              (low \o high)[j] = IF j <= Len(low) THEN low[j] ELSE high[j - Len(low)]
    BY ONLY <1>1, <1>2, ConcatProperties, Zenon
  <2>2. Len(low) + Len(high) = Len(s) - 1
    BY <1>0, <1>1, <1>2
  <2>3. ASSUME NEW j \in 1..(Len(s) - 1)
        PROVE  (low \o high)[j] = IF j < i THEN s[j] ELSE s[j + 1]
    <3>1. CASE j < i
      <4>1. j <= Len(low) /\ j \in 1..(i - 1)
        BY <1>0, <1>1, <3>1
      <4>2. QED
        BY <1>1, <2>1, <2>2, <2>3, <3>1, <4>1
    <3>2. CASE ~(j < i)
      <4>1. /\ ~(j <= Len(low)) /\ j - Len(low) \in 1..(Len(s) - i)
            /\ i + (j - Len(low)) = j + 1
        BY <1>0, <1>1, <3>2
      <4>2. QED
        BY <1>2, <2>1, <2>2, <2>3, <3>2, <4>1
    <3>3. QED
      BY <3>1, <3>2
  <2>4. QED
    BY <2>1, <2>2, <2>3
<1>4. RemoveAt(s, i) = low \o high
  BY DEF RemoveAt
<1> HIDE DEF low, high
<1>5. DOMAIN RemoveAt(s, i) = 1..(Len(s) - 1)
  BY <1>3, <1>4, LenProperties
<1>6. \A j \in DOMAIN s : j # i => s[j] \in ToSet(RemoveAt(s, i))
  <2>1. SUFFICES ASSUME NEW j \in DOMAIN s, j # i PROVE s[j] \in ToSet(RemoveAt(s, i))
    OBVIOUS
  <2>2. CASE j < i
    <3>0. j \in 1..(Len(s) - 1)
      BY <1>0, <2>2
    <3>1. j \in 1..(Len(s) - 1) /\ RemoveAt(s, i)[j] = s[j]
      BY <1>3, <1>4, <2>2, <3>0
    <3>2. QED
      BY <1>5, <3>1 DEF ToSet
  <2>3. CASE j > i
    <3>1. j - 1 \in 1..(Len(s) - 1) /\ RemoveAt(s, i)[j - 1] = s[j]
      BY <1>0, <1>3, <1>4, <2>3
    <3>2. QED
      BY <1>5, <3>1 DEF ToSet
  <2>4. QED
    BY <1>0, <2>1, <2>2, <2>3
<1>7. ToSet(RemoveAt(s, i)) \subseteq ToSet(s)
  <2>1. \A j \in 1..(Len(s) - 1) : j \in DOMAIN s /\ j + 1 \in DOMAIN s
    BY <1>0
  <2>2. QED
    BY <1>3, <1>4, <1>5, <2>1 DEF ToSet
<1>8. QED
  BY <1>3, <1>4, <1>5, <1>6, <1>7

(* What a change of the account may do, seen by its owner's history.        *)
LEMMA HistoryGrows ==
    ASSUME AccountInv, past' = Append(past, Account'),
           stars' \in Seq(Star), lists' \in [List -> Nat],
           items' \in [List -> SUBSET Repo],
           \A x \in ToSet(stars') : x \in ToSet(stars) \/ x.at = Now,
           StarsAreOrdered', ItemsAreStarred',
           \A l \in List :
              /\ lists'[l] \in {lists[l], 0, Now}
              /\ lists'[l] = lists[l] => items'[l] \subseteq items[l]
              /\ lists[l] = 0 => lists'[l] = 0,
           \A l \in List : \A r \in items[l] :
              r \in items'[l] \/ <<l, r>> \in gone' \/ lists'[l] = 0,
           gone \subseteq gone',
           ~Returns => \A l \in List : \A r \in items'[l] :
              r \in items[l] \/ (<<l, r>> \notin gone /\ lists[l] > 0)
    PROVE  AccountInv'
<1>0. /\ Len(past) \in Nat /\ Len(past) > 0 /\ past \in Seq(Contents)
      /\ past[Len(past)] = Account /\ Now = Len(past) + 1
  BY LenProperties DEF AccountInv, AccountTyped, Now
<1>1. Account' \in Contents
  <2>1. ToSet(stars') \subseteq Star
    BY LenProperties DEF ToSet
  <2>2. QED
    BY <2>1 DEF Account, Contents
<1>2. /\ past' \in Seq(Contents) /\ Len(past') = Len(past) + 1
      /\ \A k \in 1..Len(past) : past'[k] = past[k]
      /\ past'[Len(past) + 1] = Account'
  BY <1>0, <1>1, AppendProperties
<1>3. \A k \in 1..Len(past') : k \in 1..Len(past) \/ k = Len(past) + 1
  BY <1>0, <1>2
<1>4. /\ \A x : x \in Account.stars <=> x \in ToSet(stars)
      /\ \A x : (x \in Account.stars)' <=> x \in ToSet(stars')
      /\ \A y : y \in Account.lists <=> \E l \in List : y = <<l, lists[l]>> /\ lists[l] > 0
      /\ \A y : (y \in Account.lists)' <=> \E l \in List : y = <<l, lists'[l]>> /\ lists'[l] > 0
      /\ \A z : z \in Account.items <=> z \in List \X Repo /\ z[2] \in items[z[1]]
      /\ \A z : (z \in Account.items)' <=> z \in List \X Repo /\ z[2] \in items'[z[1]]
  BY DEF Account
<1>5. StarsStay'
  <2>1. ASSUME NEW k \in 1..Len(past'), NEW x \in past'[k].stars
        PROVE  x.at \in 1..k /\ \A j \in x.at..k : x \in past'[j].stars
    <3>1. CASE k \in 1..Len(past)
      <4>1. x.at \in 1..k /\ \A j \in x.at..k : x \in past[j].stars
        BY <1>2, <2>1, <3>1 DEF AccountInv, StarsStay
      <4>2. \A j \in x.at..k : j \in 1..Len(past)
        BY <1>0, <3>1, <4>1
      <4>3. QED
        BY <1>2, <4>1, <4>2
    <3>2. CASE k = Len(past) + 1
      <4>1. CASE x \in ToSet(stars)
        <5>1. x \in past[Len(past)].stars
          BY <1>0, <1>4, <4>1
        <5>2. /\ x.at \in 1..Len(past)
              /\ \A j \in x.at..Len(past) : x \in past[j].stars
          BY <1>0, <5>1, SMTT(30) DEF AccountInv, StarsStay
        <5>3. \A j \in x.at..k : j = k \/ (j \in x.at..Len(past) /\ j \in 1..Len(past))
          BY <1>0, <3>2, <5>2
        <5>4. QED
          BY <1>0, <1>2, <2>1, <3>2, <5>2, <5>3
      <4>2. CASE x.at = Now
        <5>1. \A j \in x.at..k : j = k
          BY <1>0, <3>2, <4>2
        <5>2. QED
          BY <1>0, <2>1, <3>2, <4>2, <5>1
      <4>3. QED
        BY <1>2, <1>4, <2>1, <3>2, <4>1, <4>2
    <3>3. QED
      BY <1>3, <2>1, <3>1, <3>2
  <2>2. QED
    BY <2>1 DEF StarsStay
<1>6. ItemsOnlyGo'
  <2>1. ASSUME NEW k \in 1..Len(past'), NEW y \in past'[k].lists
        PROVE  /\ y[2] \in 1..k
               /\ \A j \in y[2]..k : \A r \in Repo :
                     <<y[1], r>> \in past'[k].items => <<y[1], r>> \in past'[j].items
    <3>1. CASE k \in 1..Len(past)
      <4>1. /\ y[2] \in 1..k
            /\ \A j \in y[2]..k : \A r \in Repo :
                  <<y[1], r>> \in past[k].items => <<y[1], r>> \in past[j].items
        BY <1>2, <2>1, <3>1 DEF AccountInv, ItemsOnlyGo
      <4>2. \A j \in y[2]..k : j \in 1..Len(past)
        BY <1>0, <3>1, <4>1
      <4>3. QED
        BY <1>2, <3>1, <4>1, <4>2
    <3>2. CASE k = Len(past) + 1
      <4>1. PICK l \in List : y = <<l, lists'[l]>> /\ lists'[l] > 0
        BY <1>2, <1>4, <2>1, <3>2
      <4>2. CASE lists'[l] = Now
        <5>1. y[2] = k /\ \A j \in y[2]..k : j = k
          BY <1>0, <3>2, <4>1, <4>2
        <5>2. QED
          BY <1>0, <3>2, <5>1
      <4>3. CASE lists'[l] = lists[l]
        <5>1. y \in past[Len(past)].lists /\ y[1] = l
          BY <1>0, <1>4, <4>1, <4>3
        <5>2. /\ y[2] \in 1..Len(past)
              /\ \A j \in y[2]..Len(past) : \A r \in Repo :
                    <<l, r>> \in past[Len(past)].items => <<l, r>> \in past[j].items
          <6>1. Len(past) \in 1..Len(past)
            BY <1>0
          <6>2. QED
            BY <5>1, <6>1 DEF AccountInv, ItemsOnlyGo
        <5>3. \A r \in Repo : <<l, r>> \in past'[k].items => <<l, r>> \in past[Len(past)].items
          BY <1>0, <1>2, <1>4, <3>2, <4>1, <4>3
        <5>4. \A j \in y[2]..k : j = k \/ (j \in y[2]..Len(past) /\ j \in 1..Len(past))
          BY <1>0, <3>2, <5>2
        <5>5. QED
          BY <1>0, <1>2, <3>2, <5>1, <5>2, <5>3, <5>4
      <4>4. QED
        BY <4>1, <4>2, <4>3
    <3>3. QED
      BY <1>3, <2>1, <3>1, <3>2
  <2>2. QED
    BY <2>1 DEF ItemsOnlyGo
<1>7. ItemsAreListed'
  <2>1. ASSUME NEW k \in 1..Len(past'), NEW z \in past'[k].items
        PROVE  \E y \in past'[k].lists : y[1] = z[1]
    <3>1. CASE k \in 1..Len(past)
      BY <1>2, <2>1, <3>1 DEF AccountInv, ItemsAreListed
    <3>2. CASE k = Len(past) + 1
      <4>1. z \in List \X Repo /\ z[2] \in items'[z[1]]
        BY <1>2, <1>4, <2>1, <3>2
      <4>2. lists'[z[1]] > 0
        BY <4>1 DEF ItemsAreStarred
      <4>3. <<z[1], lists'[z[1]]>> \in past'[k].lists
        BY <1>2, <1>4, <3>2, <4>1, <4>2
      <4>4. QED
        BY <4>3
    <3>3. QED
      BY <1>3, <2>1, <3>1, <3>2
  <2>2. QED
    BY <2>1 DEF ItemsAreListed
<1>8. GoneForGood'
  <2>1. ASSUME NEW k \in 1..Len(past'), NEW z \in past'[k].items
        PROVE  z[2] \in items'[z[1]] \/ z \in gone' \/ lists'[z[1]] = 0
    <3>1. CASE k \in 1..Len(past)
      <4>1. z \in List \X Repo
        <5>1. past'[k] = past[k] /\ past[k] \in Contents
          BY <1>0, <1>2, <3>1, ElementOfSeq
        <5>2. QED
          BY <2>1, <5>1 DEF Contents
      <4>2. z[2] \in items[z[1]] \/ z \in gone \/ lists[z[1]] = 0
        BY <1>2, <2>1, <3>1 DEF AccountInv, GoneForGood
      <4>3. QED
        BY <4>1, <4>2
    <3>2. CASE k = Len(past) + 1
      BY <1>2, <1>4, <2>1, <3>2
    <3>3. QED
      BY <1>3, <2>1, <3>1, <3>2
  <2>2. QED
    BY <2>1 DEF GoneForGood
<1>9. ASSUME ~Returns PROVE NoReturn'
  <2>1. ASSUME NEW i \in 1..Len(past'), NEW k \in 1..Len(past'),
               NEW z \in past'[i].items, z \in past'[k].items,
               NEW j \in i..k
        PROVE  z \in past'[j].items
    <3>1. CASE k \in 1..Len(past)
      <4>1. i \in 1..Len(past) /\ j \in 1..Len(past)
        BY <1>0, <1>2, <2>1, <3>1
      <4>2. QED
        BY <1>2, <1>9, <2>1, <3>1, <4>1 DEF AccountInv, NoReturn
    <3>2. CASE k = Len(past) + 1 /\ j # k
      <4>1. i \in 1..Len(past) /\ j \in 1..Len(past) /\ j \in i..Len(past) /\ Len(past) \in 1..Len(past)
        BY <1>0, <1>2, <2>1, <3>2
      <4>2. z \in List \X Repo /\ z[2] \in items'[z[1]]
        BY <1>2, <1>4, <2>1, <3>2
      <4>3. z[2] \in items[z[1]] \/ z \in gone \/ lists[z[1]] = 0
        BY <1>2, <2>1, <4>1 DEF AccountInv, GoneForGood
      <4>4. z[2] \in items[z[1]]
        BY <1>9, <4>2, <4>3
      <4>5. z \in past[Len(past)].items
        BY <1>0, <1>4, <4>2, <4>4
      <4>6. QED
        BY <1>2, <1>9, <2>1, <4>1, <4>5 DEF AccountInv, NoReturn
    <3>3. QED
      BY <1>3, <2>1, <3>1, <3>2
  <2>2. QED
    BY <2>1 DEF NoReturn
<1>10. QED
  BY <1>0, <1>2, <1>5, <1>6, <1>7, <1>8, <1>9 DEF AccountInv, AccountTyped

(* Each change of the account is one of those.                              *)
LEMMA AccountEdited == AccountInv /\ Edit => AccountInv'
<1> SUFFICES ASSUME AccountInv, Edit PROVE AccountInv'
  OBVIOUS
<1>0. /\ stars \in Seq(Star) /\ lists \in [List -> Nat] /\ items \in [List -> SUBSET Repo]
      /\ Len(past) \in Nat /\ Now = Len(past) + 1 /\ Now \in Nat /\ Now > 0
      /\ past[Len(past)] = Account /\ StarsAreOrdered /\ ItemsAreStarred
      /\ Len(stars) \in Nat /\ DOMAIN stars = 1..Len(stars) /\ Len(past) \in 1..Len(past)
  BY LenProperties DEF AccountInv, AccountTyped, Now
<1>a. past' = Append(past, Account')
  BY DEF Edit, Edited, StarIt, Unstar, AddItem, RemoveItem, DeleteList
<1>1. \A i \in DOMAIN stars : stars[i].at <= Len(past)
  <2>1. \A i \in DOMAIN stars : stars[i] \in past[Len(past)].stars
    BY <1>0 DEF Account, ToSet
  <2>2. QED
    BY <1>0, <2>1 DEF AccountInv, StarsStay
<1>2. \A l \in List : lists[l] # Now
  <2>1. ASSUME NEW l \in List, lists[l] > 0 PROVE lists[l] <= Len(past)
    <3>1. <<l, lists[l]>> \in past[Len(past)].lists
      BY <1>0, <2>1 DEF Account
    <3>2. QED
      BY <1>0, <3>1 DEF AccountInv, ItemsOnlyGo
  <2>2. QED
    BY <1>0, <2>1
<1>3. ASSUME NEW r \in Repo, StarIt(r) PROVE AccountInv'
  <2> DEFINE x == [repo |-> r, at |-> Now]
  <2>1. /\ x \in Star /\ stars' = <<x>> \o stars /\ UNCHANGED <<lists, items, gone>>
        /\ \A i \in DOMAIN stars : stars[i].repo # r
    BY <1>0, <1>3 DEF StarIt, Star, Has
  <2>2. /\ stars' \in Seq(Star) /\ DOMAIN stars' = 1..(Len(stars) + 1)
        /\ stars'[1] = x /\ \A j \in 1..Len(stars) : stars'[j + 1] = stars[j]
        /\ ToSet(stars') = ToSet(stars) \cup {x}
    BY <1>0, <2>1, PutInFront
  <2>3. x.at = Now /\ x.repo = r
    OBVIOUS
  <2> HIDE DEF x
  <2>4. \A j \in DOMAIN stars' : j = 1 \/ (j - 1 \in DOMAIN stars /\ stars'[j] = stars[j - 1])
    BY <1>0, <2>2
  <2>5. StarsAreOrdered'
    <3>1. ASSUME NEW i \in DOMAIN stars', NEW j \in DOMAIN stars', i < j
          PROVE  stars'[i].repo # stars'[j].repo /\ stars'[i].at >= stars'[j].at
      <4>1. /\ j - 1 \in DOMAIN stars /\ stars'[j] = stars[j - 1]
            /\ i # 1 => i - 1 < j - 1
        BY <1>0, <2>2, <2>4, <3>1
      <4>2. CASE i = 1
        <5>1. stars[j - 1] \in Star /\ stars[j - 1].at <= Len(past) /\ stars[j - 1].repo # r
          BY <1>0, <1>1, <2>1, <4>1, ElementOfSeq
        <5>2. stars'[i].at = Len(past) + 1 /\ stars'[i].repo = r /\ stars[j - 1].at \in Nat
          BY <1>0, <2>2, <2>3, <4>2, <5>1 DEF Star
        <5>3. QED
          BY <1>0, <4>1, <5>1, <5>2
      <4>3. CASE i # 1
        BY <1>0, <2>4, <3>1, <4>1, <4>3 DEF StarsAreOrdered
      <4>4. QED
        BY <4>2, <4>3
    <3>2. QED
      BY <3>1 DEF StarsAreOrdered
  <2>6. ItemsAreStarred'
    <3>1. \A i \in DOMAIN stars : i + 1 \in DOMAIN stars' /\ stars'[i + 1] = stars[i]
      BY <1>0, <2>2
    <3>2. ASSUME NEW l \in List, NEW q \in items'[l]
          PROVE  lists'[l] > 0 /\ \E j \in DOMAIN stars' : stars'[j].repo = q
      <4>1. lists[l] > 0 /\ \E j \in DOMAIN stars : stars[j].repo = q
        BY <1>0, <2>1, <3>2 DEF ItemsAreStarred
      <4>2. QED
        BY <2>1, <3>1, <4>1
    <3>3. QED
      BY <3>2 DEF ItemsAreStarred
  <2>7. QED
    BY <1>0, <2>1, <2>2, <2>3, <2>5, <2>6, <1>a, HistoryGrows
<1>4. ASSUME NEW r \in Repo, Unstar(r) PROVE AccountInv'
  <2>1. PICK i \in DOMAIN stars : stars[i].repo = r /\ stars' = RemoveAt(stars, i)
    BY <1>4 DEF Unstar
  <2>2. /\ items' = [l \in List |-> items[l] \ {r}] /\ UNCHANGED lists
        /\ gone' = gone \cup {<<l, r>> : l \in {m \in List : r \in items[m]}}
    BY <1>4 DEF Unstar
  <2>3. /\ stars' \in Seq(Star) /\ DOMAIN stars' = 1..(Len(stars) - 1)
        /\ \A j \in 1..(Len(stars) - 1) :
              stars'[j] = IF j < i THEN stars[j] ELSE stars[j + 1]
        /\ \A j \in DOMAIN stars : j # i => stars[j] \in ToSet(stars')
        /\ ToSet(stars') \subseteq ToSet(stars)
    BY <1>0, <2>1, TakenOut
  <2>4. StarsAreOrdered'
    <3>1. ASSUME NEW k \in DOMAIN stars', NEW j \in DOMAIN stars', k < j
          PROVE  stars'[k].repo # stars'[j].repo /\ stars'[k].at >= stars'[j].at
      <4>1. PICK p \in DOMAIN stars, q \in DOMAIN stars :
                p < q /\ stars'[k] = stars[p] /\ stars'[j] = stars[q]
        <5>1. /\ k \in DOMAIN stars /\ k + 1 \in DOMAIN stars
              /\ j \in DOMAIN stars /\ j + 1 \in DOMAIN stars
              /\ k < j + 1 /\ k + 1 < j + 1
          BY <1>0, <2>3, <3>1
        <5>2. CASE k < i /\ j < i
          BY <2>3, <3>1, <5>1, <5>2
        <5>3. CASE k < i /\ ~(j < i)
          BY <2>3, <3>1, <5>1, <5>3
        <5>4. CASE ~(k < i)
          <6>1. ~(j < i)
            BY <1>0, <2>3, <3>1, <5>4
          <6>2. QED
            BY <2>3, <3>1, <5>1, <5>4, <6>1
        <5>5. QED
          BY <5>2, <5>3, <5>4
      <4>2. QED
        BY <1>0, <4>1 DEF StarsAreOrdered
    <3>2. QED
      BY <3>1 DEF StarsAreOrdered
  <2>5. ItemsAreStarred'
    <3>1. ASSUME NEW l \in List, NEW q \in items'[l]
          PROVE  lists'[l] > 0 /\ \E j \in DOMAIN stars' : stars'[j].repo = q
      <4>1. q # r /\ q \in items[l]
        BY <2>2, <3>1
      <4>2. lists[l] > 0 /\ \E j \in DOMAIN stars : stars[j].repo = q
        BY <1>0, <4>1 DEF ItemsAreStarred
      <4>3. PICK j \in DOMAIN stars : stars[j].repo = q /\ j # i
        BY <2>1, <4>1, <4>2
      <4>4. QED
        BY <2>2, <2>3, <4>2, <4>3 DEF ToSet
    <3>2. QED
      BY <3>1 DEF ItemsAreStarred
  <2>6. items' \in [List -> SUBSET Repo] /\ gone \subseteq gone'
    BY <1>0, <2>2
  <2>7. \A l \in List : \A q \in items[l] : q \in items'[l] \/ <<l, q>> \in gone'
    BY <2>2
  <2>8. \A l \in List : items'[l] \subseteq items[l]
    BY <2>2
  <2>9. QED
    BY <1>0, <2>2, <2>3, <2>4, <2>5, <2>6, <2>7, <2>8, <1>a, HistoryGrows
<1>5. ASSUME NEW l \in List, NEW r \in Repo, AddItem(l, r) PROVE AccountInv'
  <2>1. /\ lists[l] > 0 /\ Has(r) /\ (<<l, r>> \in gone => Returns)
        /\ items' = [items EXCEPT ![l] = @ \cup {r}]
        /\ lists' = [lists EXCEPT ![l] = Now] /\ UNCHANGED <<stars, gone>>
    BY <1>5 DEF AddItem
  <2>2. lists' \in [List -> Nat] /\ items' \in [List -> SUBSET Repo]
    BY <1>0, <2>1
  <2>3. StarsAreOrdered' /\ ItemsAreStarred'
    BY <1>0, <2>1 DEF StarsAreOrdered, ItemsAreStarred, Has
  <2>4. \A m \in List :
          /\ lists'[m] \in {lists[m], 0, Now}
          /\ lists'[m] = lists[m] => items'[m] \subseteq items[m]
          /\ lists[m] = 0 => lists'[m] = 0
          /\ items[m] \subseteq items'[m]
    BY <1>0, <1>2, <2>1
  <2>5. ~Returns => \A m \in List : \A q \in items'[m] :
            q \in items[m] \/ (<<m, q>> \notin gone /\ lists[m] > 0)
    BY <1>0, <2>1
  <2>6. QED
    BY <1>0, <2>1, <2>2, <2>3, <2>4, <2>5, <1>a, HistoryGrows
<1>6. ASSUME NEW l \in List, NEW r \in Repo, RemoveItem(l, r) PROVE AccountInv'
  <2>1. /\ items' = [items EXCEPT ![l] = @ \ {r}] /\ gone' = gone \cup {<<l, r>>}
        /\ UNCHANGED <<stars, lists>>
    BY <1>6 DEF RemoveItem
  <2>2. /\ items' \in [List -> SUBSET Repo] /\ gone \subseteq gone'
        /\ \A m \in List : items'[m] \subseteq items[m]
        /\ \A m \in List : \A q \in items[m] : q \in items'[m] \/ <<m, q>> \in gone'
    BY <1>0, <2>1
  <2>3. StarsAreOrdered' /\ ItemsAreStarred'
    BY <1>0, <2>1, <2>2 DEF StarsAreOrdered, ItemsAreStarred
  <2>4. QED
    BY <1>0, <2>1, <2>2, <2>3, <1>a, HistoryGrows
<1>7. ASSUME NEW l \in List, DeleteList(l) PROVE AccountInv'
  <2>1. /\ lists' = [lists EXCEPT ![l] = 0] /\ items' = [items EXCEPT ![l] = {}]
        /\ UNCHANGED <<stars, gone>>
    BY <1>7 DEF DeleteList
  <2>2. /\ lists' \in [List -> Nat] /\ items' \in [List -> SUBSET Repo]
        /\ \A m \in List : /\ items'[m] \subseteq items[m]
                           /\ lists'[m] \in {lists[m], 0}
                           /\ items[m] # items'[m] => lists'[m] = 0
    BY <1>0, <2>1
  <2>3. StarsAreOrdered' /\ ItemsAreStarred'
    BY <1>0, <2>1, <2>2, SMTT(30) DEF StarsAreOrdered, ItemsAreStarred
  <2>4. QED
    BY <1>0, <2>1, <2>2, <2>3, <1>a, HistoryGrows
<1>8. QED
  BY <1>3, <1>4, <1>5, <1>6, <1>7 DEF Edit

(* All other steps leave the account alone.                                 *)
LEMMA Accounts == AccountInv /\ [Next]_vars => AccountInv'
<1> SUFFICES ASSUME AccountInv, [Next]_vars PROVE AccountInv'
  OBVIOUS
<1>1. CASE Edit
  BY <1>1, AccountEdited
<1>2. CASE UNCHANGED account
  BY <1>2 DEF account, AccountInv, AccountTyped, Account, StarsAreOrdered,
       ItemsAreStarred, StarsStay, ItemsOnlyGo, ItemsAreListed, GoneForGood, NoReturn
<1>3. QED
  BY <1>1, <1>2, ZenonT(60) DEF Next, Step, Acquire, RecoverAbandoned, Create, ReadStars,
       ReadLists, ReadItems, RefusePage, BeginVerification, FinishVerification,
       Publish, BreakOff, FailDraft, AbandonDraft, Leave, Abort, Crash, Expire,
       Startup, account, vars

(* The account at first.                                                    *)
LEMMA InitAccount == Init => AccountInv
<1> SUFFICES ASSUME Init PROVE AccountInv
  OBVIOUS
<1>0. /\ Starred \in Seq(Repo) /\ Len(Starred) \in Nat /\ DOMAIN Starred = 1..Len(Starred)
      /\ \A i, j \in DOMAIN Starred : Starred[i] = Starred[j] => i = j
      /\ Listed \in [List -> SUBSET ToSet(Starred)]
  BY SyncAssumption, LenProperties
<1>1. stars \in Seq(Star) /\ DOMAIN stars = DOMAIN Starred
  <2>1. stars = [i \in 1..Len(Starred) |-> [repo |-> Starred[i], at |-> 1]]
    BY <1>0 DEF Init
  <2>2. \A i \in 1..Len(Starred) : [repo |-> Starred[i], at |-> 1] \in Star
    BY <1>0, ElementOfSeq DEF Star
  <2>3. QED
    BY <1>0, <2>1, <2>2
<1>2. \A i \in DOMAIN stars : stars[i].repo = Starred[i] /\ stars[i].at = 1
  BY <1>1 DEF Init
<1>3. lists \in [List -> Nat] /\ items \in [List -> SUBSET Repo]
  <2>1. ToSet(Starred) \subseteq Repo
    BY <1>0, ElementOfSeq DEF ToSet
  <2>2. QED
    BY <1>0, <2>1 DEF Init
<1>4. Account \in Contents
  <2>1. ToSet(stars) \subseteq Star
    BY <1>1, LenProperties DEF ToSet
  <2>2. QED
    BY <1>3, <2>1 DEF Account, Contents
<1>5. past = <<Account>> /\ past \in Seq(Contents) /\ Len(past) = 1 /\ past[1] = Account
  BY <1>4 DEF Init
<1>6. StarsAreOrdered
  BY <1>0, <1>1, <1>2 DEF StarsAreOrdered
<1>7. ItemsAreStarred
  BY <1>0, <1>1, <1>2 DEF ItemsAreStarred, Init, ToSet
<1>8. /\ \A x \in Account.stars : x.at = 1
      /\ \A y \in Account.lists : y[2] = 1
      /\ \A z \in Account.items : z \in List \X Repo /\ z[2] \in items[z[1]]
      /\ \A l \in List : <<l, 1>> \in Account.lists
  BY <1>2 DEF Account, ToSet, Init
<1>9. /\ StarsStay /\ ItemsOnlyGo /\ ItemsAreListed /\ GoneForGood /\ NoReturn
  <2>1. \A k \in 1..Len(past) : k = 1 /\ \A j \in 1..k : j = k
    BY <1>5
  <2>2. StarsStay
    BY <1>5, <1>8, <2>1 DEF StarsStay
  <2>3. ItemsOnlyGo
    BY <1>5, <1>8, <2>1 DEF ItemsOnlyGo
  <2>4. ItemsAreListed
    <3>1. ASSUME NEW z \in Account.items PROVE \E y \in Account.lists : y[1] = z[1]
      <4>1. <<z[1], 1>> \in Account.lists
        BY <1>8
      <4>2. QED
        BY <4>1
    <3>2. QED
      BY <1>5, <2>1, <3>1 DEF ItemsAreListed
  <2>5. GoneForGood
    BY <1>5, <1>8, <2>1 DEF GoneForGood
  <2>6. NoReturn
    BY <1>5, <2>1 DEF NoReturn
  <2>7. QED
    BY <2>2, <2>3, <2>4, <2>5, <2>6
<1>10. QED
  BY <1>1, <1>3, <1>5, <1>6, <1>7, <1>9 DEF AccountInv, AccountTyped

----------------------------------------------------------------------------
(* The collections of a draft, as they stand to the history of the account. *)

\* What has been read of the stars is m of them, all different: the pages before
\* the next one, each of them full.
Counted(S, m) ==
    \E f \in [1..m -> S] :
        /\ \A x \in S : \E i \in 1..m : f[i] = x
        /\ \A i, j \in 1..m : f[i].repo = f[j].repo => i = j

StarsInPart(c, S) ==
    /\ Counted(S, (page[c] - 1) * PageSize)
    /\ page[c] # 1 => seen[c] = {x.repo : x \in S}
    /\ \A x \in S : x \in Star /\ x.at <= Len(past)

\* All pages have been read, the last of them at t: if what was read was all
\* still there at t, then there was nothing else.
StarsInWhole(S, t) ==
    /\ \A x \in S : x \in Star /\ x.at <= t
    /\ S \subseteq past[t].stars => S = past[t].stars

\* The lists were read at m, and the items of those that are not left since then.
ListsSince(rows, m, u, left) ==
    /\ rows.lists = past[m].lists
    /\ left \subseteq {y[1] : y \in rows.lists}
    /\ \A z \in rows.items : z \in List \X Repo /\ z[1] \notin left
                              /\ \E y \in rows.lists : y[1] = z[1]
    /\ \A y \in rows.lists : y[1] \notin left =>
         \E i \in m..u : \A r \in Repo :
            <<y[1], r>> \in rows.items <=> <<y[1], r>> \in past[i].items

NoLists(rows) == rows.lists = {} /\ rows.items = {}

ListsRead(full, rows, m, u, left) ==
    IF full THEN ListsSince(rows, m, u, left) ELSE NoLists(rows)

\* The first collection, its stars at t, its lists and items between t and u.
FirstDone(full, rows, t, u) ==
    /\ u \in t..Len(past)
    /\ StarsInWhole(rows.stars, t)
    /\ \E m \in t..u : ListsRead(full, rows, m, u, {})

\* The stars of the second collection, all of them read after m; the first page
\* holds the newest star of its time.
StarsAgain(S, m) ==
    /\ \A x \in S : \E k \in m..Len(past) : x \in past[k].stars
    /\ \E h \in m..Len(past) : \A x \in past[h].stars : \E y \in S : y.at >= x.at

InFirst(c, rows) ==
    /\ pc[c] = "stars" => StarsInPart(c, rows.stars) /\ NoLists(rows)
    /\ pc[c] = "lists" => NoLists(rows) /\ \E t \in since[c]..Len(past) :
                             StarsInWhole(rows.stars, t)
    /\ pc[c] = "items" => \E t \in since[c]..Len(past) :
            /\ StarsInWhole(rows.stars, t)
            /\ \E m \in t..Len(past) : ListsSince(rows, m, Len(past), todo[c])
    /\ pc[c] = "turning" => \E t \in since[c]..Len(past) :
            FirstDone(WithLists(c), rows, t, Len(past))

InSecond(c, rows, u) ==
    /\ pc[c] = "lists" => rows = Nothing
    /\ pc[c] = "items" => rows.stars = {} /\
            \E m \in u..Len(past) : ListsSince(rows, m, Len(past), todo[c])
    /\ pc[c] \in {"stars", "verifying", "publishing"} =>
            \E m \in u..Len(past) :
                /\ ListsRead(WithLists(c), rows, m, Len(past), {})
                /\ \/ pc[c] = "stars" /\ page[c] = 1 /\ rows.stars = {}
                   \/ StarsAgain(rows.stars, m)

Placed(c) ==
    /\ pc[c] \notin {"idle", "ended"} => coverage[c] # "none"
    /\ pc[c] \in {"lists", "items"} => WithLists(c)
    /\ pc[c] = "turning" => ~second[c]
    /\ pc[c] \in {"verifying", "publishing"} => second[c]
    /\ pc[c] \in Drafting \ {"stars"} => page[c] = 1

Collected(c) ==
    pc[c] \in Drafting /\ Rows(c).status = "building" =>
        /\ since[c] \in 1..Len(past)
        /\ ~second[c] => Rows(c).verified = Nothing /\ InFirst(c, Rows(c).staged)
        /\ second[c] => \E t \in since[c]..Len(past), u \in since[c]..Len(past) :
                /\ FirstDone(WithLists(c), Rows(c).staged, t, u)
                /\ InSecond(c, Rows(c).verified, u)

\* Drafts that are still to be created have no rows.
Unused(c) ==
    \A s \in Snapshot :
        s[1] = c /\ (\/ s[2] > attempt[c]
                     \/ s[2] = attempt[c] /\ pc[c] \in {"idle", "recovering", "creating"})
            => snap[s] = NoRows

CollectTyped ==
    /\ coverage \in [Call -> ListCoverage \ {"collecting"}]
    /\ second \in [Call -> BOOLEAN]
    /\ page \in [Call -> Nat \ {0}]
    /\ seen \in [Call -> SUBSET Repo]
    /\ todo \in [Call -> SUBSET List]
    /\ since \in [Call -> Nat]

(* Positions of pages.                                                      *)
LEMMA Positions ==
    ASSUME NEW p \in Nat \ {0}
    PROVE  /\ (p - 1) * PageSize \in Nat
           /\ p * PageSize = (p - 1) * PageSize + PageSize
           /\ (p + 1 - 1) * PageSize = (p - 1) * PageSize + PageSize
           /\ p = 1 => (p - 1) * PageSize = 0
           /\ p # 1 => (p - 1) * PageSize > 0
<1>1. PageSize \in Nat \ {0}
  BY SyncAssumption
<1>2. PICK q \in Nat : p = q + 1
  <2>1. p - 1 \in Nat /\ p = p - 1 + 1
    OBVIOUS
  <2>2. QED
    BY <2>1
<1>3. p - 1 = q /\ p + 1 - 1 = q + 1
  BY <1>2
<1>4. q * PageSize \in Nat /\ (q + 1) * PageSize = q * PageSize + PageSize
  BY <1>1, <1>2
<1>5. (q = 0 => q * PageSize = 0) /\ (q # 0 => q * PageSize > 0)
  BY <1>1, <1>2
<1>6. QED
  BY <1>2, <1>3, <1>4, <1>5

(* What is known of the past stays so when the account changes.             *)
Grows ==
    /\ Len(past) \in Nat /\ Len(past') \in Nat /\ Len(past) <= Len(past')
    /\ \A i \in 1..Len(past) : past'[i] = past[i]

LEMMA PastGrows == AccountInv /\ [Next]_vars => Grows
<1> SUFFICES ASSUME AccountInv, [Next]_vars PROVE Grows
  OBVIOUS
<1>1. past \in Seq(Contents) /\ Len(past) \in Nat /\ Account' = Account'
  BY LenProperties DEF AccountInv, AccountTyped
<1>2. CASE UNCHANGED past
  BY <1>1, <1>2 DEF Grows
<1>3. CASE Edit
  <2>1. past' \in Seq(Contents)
    BY <1>3, AccountEdited DEF AccountInv, AccountTyped
  <2>2. past' = Append(past, Account')
    BY <1>3 DEF Edit, Edited, StarIt, Unstar, AddItem, RemoveItem, DeleteList
  <2>3. Len(past') = Len(past) + 1 /\ \A i \in 1..Len(past) : past'[i] = past[i]
    BY <1>1, <2>1, <2>2
  <2>4. QED
    BY <1>1, <2>3 DEF Grows
<1>4. QED
  BY <1>2, <1>3, ZenonT(60) DEF Next, Step, Acquire, RecoverAbandoned, Create, ReadStars,
       ReadLists, ReadItems, RefusePage, BeginVerification, FinishVerification,
       Publish, BreakOff, FailDraft, AbandonDraft, Leave, Abort, Crash, Expire,
       Startup, account, vars

LEMMA StarsStand ==
    ASSUME Grows, NEW S, NEW t \in 1..Len(past), StarsInWhole(S, t)
    PROVE  StarsInWhole(S, t)'
BY DEF Grows, StarsInWhole

LEMMA ListsStand ==
    ASSUME Grows, NEW rows, NEW left, NEW m \in 1..Len(past), NEW u \in m..Len(past),
           NEW v \in u..Len(past'), ListsSince(rows, m, u, left)
    PROVE  ListsSince(rows, m, v, left)'
<1>1. past'[m] = past[m]
  BY DEF Grows
<1>2. \A i \in m..u : i \in m..v /\ past'[i] = past[i]
  BY DEF Grows
<1>3. QED
  BY <1>1, <1>2 DEF ListsSince

LEMMA ReadsStand ==
    ASSUME Grows, NEW rows, NEW full, NEW m \in 1..Len(past), NEW u \in m..Len(past),
           NEW v \in u..Len(past'), ListsRead(full, rows, m, u, {})
    PROVE  ListsRead(full, rows, m, v, {})'
BY ListsStand DEF ListsRead, NoLists

LEMMA FirstStands ==
    ASSUME Grows, NEW rows, NEW full, NEW t \in 1..Len(past), NEW u \in 1..Len(past),
           FirstDone(full, rows, t, u)
    PROVE  /\ u \in t..Len(past)
           /\ \A v \in u..Len(past') : FirstDone(full, rows, t, v)'
<1>1. u \in t..Len(past) /\ StarsInWhole(rows.stars, t)
  BY DEF FirstDone
<1>2. PICK m \in t..u : ListsRead(full, rows, m, u, {})
  BY DEF FirstDone
<1>3. ASSUME NEW v \in u..Len(past') PROVE FirstDone(full, rows, t, v)'
  <2>1. m \in t..v /\ v \in t..Len(past') /\ m \in 1..Len(past) /\ u \in m..Len(past)
    BY <1>1, <1>2, <1>3 DEF Grows
  <2>2. ListsRead(full, rows, m, v, {})'
    BY <1>2, <1>3, <2>1, ReadsStand
  <2>3. StarsInWhole(rows.stars, t)'
    BY <1>1, StarsStand
  <2>4. QED
    BY <2>1, <2>2, <2>3 DEF FirstDone
<1>4. QED
  BY <1>1, <1>3

LEMMA AgainStands ==
    ASSUME Grows, NEW S, NEW m \in 1..Len(past), StarsAgain(S, m)
    PROVE  StarsAgain(S, m)'
<1>1. \A k \in m..Len(past) : k \in m..Len(past') /\ past'[k] = past[k]
  BY DEF Grows
<1>2. QED
  BY <1>1 DEF StarsAgain

(* Two collections that agree are two looks at the same things: the stars   *)
(* of the first were all there when its last page of stars was read, since  *)
(* all were met again later; and between the two reads of the lists nothing *)
(* was added to them and nothing is missing that was met again.             *)
LEMMA StarsAgree ==
    ASSUME AccountInv, NEW full, NEW rows, NEW t \in 1..Len(past), NEW u \in 1..Len(past),
           NEW m \in u..Len(past),
           FirstDone(full, rows, t, u), StarsAgain(rows.stars, m)
    PROVE  /\ rows.stars = past[t].stars
           /\ rows.stars \subseteq past[m].stars
           /\ (past[m].stars \ rows.stars) \cap past[Len(past)].stars = {}
<1>0. /\ Len(past) \in Nat /\ StarsStay /\ u \in t..Len(past) /\ m \in 1..Len(past) /\ t <= m
      /\ past \in Seq(Contents)
  BY LenProperties DEF AccountInv, AccountTyped, FirstDone
<1>1. ASSUME NEW x \in rows.stars PROVE x \in past[t].stars /\ x \in past[m].stars
  <2>1. PICK k \in m..Len(past) : x \in past[k].stars
    BY DEF StarsAgain
  <2>2. x.at <= t
    BY DEF FirstDone, StarsInWhole
  <2>3. k \in 1..Len(past)
    BY <1>0
  <2>4. x.at \in 1..k /\ \A j \in x.at..k : x \in past[j].stars
    BY <1>0, <2>1, <2>3 DEF StarsStay
  <2>5. t \in x.at..k /\ m \in x.at..k
    BY <1>0, <2>2, <2>3, <2>4
  <2>6. QED
    BY <2>4, <2>5
<1>2. rows.stars = past[t].stars
  BY <1>1 DEF FirstDone, StarsInWhole
<1>3. ASSUME NEW x \in past[m].stars, x \notin rows.stars, x \in past[Len(past)].stars
      PROVE  FALSE
  <2>1. PICK h \in m..Len(past) : \A z \in past[h].stars : \E y \in rows.stars : y.at >= z.at
    BY DEF StarsAgain
  <2>2. x.at \in 1..m /\ \A j \in x.at..m : x \in past[j].stars
    BY <1>0, <1>3 DEF StarsStay
  <2>3. \A j \in x.at..Len(past) : x \in past[j].stars
    <3>1. Len(past) \in 1..Len(past)
      BY <1>0
    <3>2. QED
      BY <1>0, <1>3, <3>1 DEF StarsStay
  <2>4. h \in x.at..Len(past)
    BY <1>0, <2>2
  <2>5. PICK y \in rows.stars : y.at >= x.at
    BY <2>1, <2>3, <2>4
  <2>6. y.at \in Nat /\ y.at <= t
    BY <1>0, <1>2, <2>5 DEF StarsStay
  <2>7. t \in x.at..m
    BY <1>0, <2>2, <2>5, <2>6
  <2>8. QED
    BY <1>2, <1>3, <2>2, <2>7
<1>4. QED
  BY <1>1, <1>2, <1>3

LEMMA ListsAgree ==
    ASSUME AccountInv, ~Returns, NEW rows, NEW q \in 1..Len(past), NEW u \in q..Len(past),
           NEW m \in u..Len(past),
           ListsSince(rows, q, u, {}), ListsSince(rows, m, Len(past), {})
    PROVE  rows.lists = past[m].lists /\ rows.items = past[m].items
<1>0. /\ Len(past) \in Nat /\ m \in 1..Len(past) /\ NoReturn /\ past \in Seq(Contents)
      /\ past[m] \in Contents /\ ItemsOnlyGo /\ ItemsAreListed
  BY LenProperties, ElementOfSeq DEF AccountInv, AccountTyped
<1>1. rows.lists = past[m].lists /\ rows.lists = past[q].lists
  BY DEF ListsSince
<1>2. ASSUME NEW y \in rows.lists, NEW r \in Repo
      PROVE  <<y[1], r>> \in rows.items <=> <<y[1], r>> \in past[m].items
  <2>1. PICK i \in q..u : \A p \in Repo :
            <<y[1], p>> \in rows.items <=> <<y[1], p>> \in past[i].items
    BY DEF ListsSince
  <2>2. PICK k \in m..Len(past) : \A p \in Repo :
            <<y[1], p>> \in rows.items <=> <<y[1], p>> \in past[k].items
    BY DEF ListsSince
  <2>3. i \in 1..Len(past) /\ k \in 1..Len(past) /\ m \in i..k
    BY <1>0
  <2>4. ASSUME <<y[1], r>> \in rows.items PROVE <<y[1], r>> \in past[m].items
    BY <1>0, <2>1, <2>2, <2>3, <2>4 DEF NoReturn
  <2>5. ASSUME <<y[1], r>> \in past[m].items PROVE <<y[1], r>> \in rows.items
    <3>1. y[2] \in 1..q
      BY <1>1 DEF AccountInv, ItemsOnlyGo
    <3>2. i \in y[2]..m
      BY <1>0, <2>3, <3>1
    <3>3. <<y[1], r>> \in past[i].items
      BY <1>0, <1>1, <2>5, <3>2 DEF ItemsOnlyGo
    <3>4. QED
      BY <2>1, <3>3
  <2>6. QED
    BY <2>4, <2>5
<1>3. \A z \in rows.items : z \in past[m].items
  <2>1. ASSUME NEW z \in rows.items PROVE z \in past[m].items
    <3>1. z \in List \X Repo /\ \E y \in rows.lists : y[1] = z[1]
      BY DEF ListsSince
    <3>2. PICK y \in rows.lists : y[1] = z[1]
      BY <3>1
    <3>3. z = <<y[1], z[2]>> /\ z[2] \in Repo
      BY <3>1, <3>2
    <3>4. QED
      BY <1>2, <2>1, <3>3
  <2>2. QED
    BY <2>1
<1>4. \A z \in past[m].items : z \in rows.items
  <2>1. ASSUME NEW z \in past[m].items PROVE z \in rows.items
    <3>1. z \in List \X Repo
      BY <1>0 DEF Contents
    <3>2. PICK y \in past[m].lists : y[1] = z[1]
      BY <1>0 DEF ItemsAreListed
    <3>3. z = <<y[1], z[2]>> /\ z[2] \in Repo
      BY <3>1, <3>2
    <3>4. QED
      BY <1>1, <1>2, <2>1, <3>2, <3>3
  <2>2. QED
    BY <2>1
<1>5. QED
  BY <1>1, <1>3, <1>4

(* The last page of stars.  What was read before fills the pages before it, *)
(* is none of it on this page and, if it is all still there, is exactly     *)
(* what stands before this page.                                            *)
LEMMA LastPage ==
    ASSUME AccountInv, NEW S, NEW m \in Nat, Counted(S, m), S \subseteq ToSet(stars),
           Len(stars) <= m + PageSize,
           NEW found, found = {stars[i] : i \in {j \in DOMAIN stars : m < j /\ j <= m + PageSize}},
           \A x \in S : \A y \in found : x.repo # y.repo
    PROVE  S \cup found = ToSet(stars)
<1>0. /\ stars \in Seq(Star) /\ Len(stars) \in Nat /\ DOMAIN stars = 1..Len(stars)
      /\ StarsAreOrdered /\ PageSize \in Nat
  BY LenProperties, SyncAssumption DEF AccountInv, AccountTyped
<1>1. PICK f \in [1..m -> S] :
          /\ \A x \in S : \E i \in 1..m : f[i] = x
          /\ \A i, j \in 1..m : f[i].repo = f[j].repo => i = j
  BY DEF Counted
<1>2. \A i \in 1..m : \E j \in DOMAIN stars : f[i] = stars[j]
  BY <1>1 DEF ToSet
<1> DEFINE g == [i \in 1..m |-> CHOOSE j \in DOMAIN stars : f[i] = stars[j]]
<1>3. \A i \in 1..m : g[i] \in DOMAIN stars /\ f[i] = stars[g[i]]
  BY <1>2
<1>4. \A i \in 1..m : g[i] <= m
  <2>1. ASSUME NEW i \in 1..m, ~(g[i] <= m) PROVE FALSE
    <3>1. g[i] \in DOMAIN stars /\ m < g[i] /\ g[i] <= m + PageSize
      BY <1>0, <1>3, <2>1
    <3>2. stars[g[i]] \in found /\ stars[g[i]] \in S
      BY <1>1, <1>3, <3>1
    <3>3. QED
      BY <3>2
  <2>2. QED
    BY <2>1
<1>5. g \in [1..m -> 1..m]
  BY <1>0, <1>3, <1>4
<1> HIDE DEF g
<1>6. g \in Surjection(1..m, 1..m)
  <2>1. \A i, j \in 1..m : g[i] = g[j] => f[i] = f[j]
    BY <1>3
  <2>2. g \in Injection(1..m, 1..m)
    BY <1>1, <1>5, <2>1, ZenonT(60) DEF Injection, IsInjective
  <2>3. IsFiniteSet(1..m)
    <3>1. 1 \in Int /\ m \in Int
      OBVIOUS
    <3>2. QED
      BY <3>1, FS_Interval
  <2>4. QED
    BY <2>2, <2>3, FS_Injection
<1>7. \A j \in 1..m : \E i \in 1..m : g[i] = j
  BY <1>6 DEF Surjection
<1>8. ASSUME NEW j \in DOMAIN stars PROVE stars[j] \in S \cup found
  <2>1. CASE j <= m
    <3>1. j \in 1..m
      BY <1>0, <2>1
    <3>2. PICK i \in 1..m : g[i] = j
      BY <1>7, <3>1
    <3>3. f[i] \in S /\ f[i] = stars[j]
      BY <1>1, <1>3, <3>2
    <3>4. QED
      BY <3>3
  <2>2. CASE ~(j <= m)
    <3>1. m < j /\ j <= m + PageSize
      BY <1>0, <2>2
    <3>2. QED
      BY <3>1
  <2>3. QED
    BY <2>1, <2>2
<1>9. QED
  BY <1>8 DEF ToSet

(* A page that is not the last one is full, so that as many stars have been *)
(* read as there are positions up to its end.                               *)
LEMMA FullPage ==
    ASSUME AccountInv, NEW S, NEW m \in Nat, Counted(S, m), m + PageSize < Len(stars),
           NEW found, found = {stars[i] : i \in {j \in DOMAIN stars : m < j /\ j <= m + PageSize}},
           \A x \in S : \A y \in found : x.repo # y.repo
    PROVE  Counted(S \cup found, m + PageSize)
<1>0. /\ stars \in Seq(Star) /\ Len(stars) \in Nat /\ DOMAIN stars = 1..Len(stars)
      /\ StarsAreOrdered /\ PageSize \in Nat
  BY LenProperties, SyncAssumption DEF AccountInv, AccountTyped
<1>1. PICK f \in [1..m -> S] :
          /\ \A x \in S : \E i \in 1..m : f[i] = x
          /\ \A i, j \in 1..m : f[i].repo = f[j].repo => i = j
  BY DEF Counted
<1> DEFINE g == [i \in 1..(m + PageSize) |-> IF i <= m THEN f[i] ELSE stars[i]]
<1>2. \A i \in 1..(m + PageSize) :
          \/ i \in 1..m /\ g[i] = f[i] /\ g[i] \in S
          \/ ~(i <= m) /\ i \in DOMAIN stars /\ g[i] = stars[i] /\ g[i] \in found
  <2>1. ASSUME NEW i \in 1..(m + PageSize)
        PROVE  \/ i \in 1..m /\ g[i] = f[i] /\ g[i] \in S
               \/ ~(i <= m) /\ i \in DOMAIN stars /\ g[i] = stars[i] /\ g[i] \in found
    <3>1. CASE i <= m
      <4>1. i \in 1..m
        BY <1>0, <3>1
      <4>2. QED
        BY <1>1, <3>1, <4>1
    <3>2. CASE ~(i <= m)
      <4>1. m < i /\ i \in DOMAIN stars /\ i <= m + PageSize
        BY <1>0, <3>2
      <4>2. g[i] = stars[i] /\ stars[i] \in found
        BY <3>2, <4>1
      <4>3. QED
        BY <3>2, <4>1, <4>2
    <3>3. QED
      BY <3>1, <3>2
  <2>2. QED
    BY <2>1
<1>3. g \in [1..(m + PageSize) -> S \cup found]
  BY <1>2
<1>4. \A i \in 1..m : i \in 1..(m + PageSize) /\ g[i] = f[i]
  BY <1>0
<1>5. \A i \in DOMAIN stars : m < i /\ i <= m + PageSize =>
          i \in 1..(m + PageSize) /\ g[i] = stars[i]
  BY <1>0
<1> HIDE DEF g
<1>6. \A x \in S \cup found : \E i \in 1..(m + PageSize) : g[i] = x
  BY <1>1, <1>4, <1>5
<1>7. ASSUME NEW i \in 1..(m + PageSize), NEW j \in 1..(m + PageSize), g[i].repo = g[j].repo
      PROVE  i = j
  <2>1. CASE i \in 1..m /\ g[i] = f[i] /\ j \in 1..m /\ g[j] = f[j]
    BY <1>1, <1>7, <2>1
  <2>2. CASE i \in DOMAIN stars /\ g[i] = stars[i] /\ j \in DOMAIN stars /\ g[j] = stars[j]
    <3>1. i < j \/ j < i \/ i = j
      BY <1>0, <2>2
    <3>2. QED
      BY <1>0, <1>7, <2>2, <3>1 DEF StarsAreOrdered
  <2>3. QED
    BY <1>2, <1>7, <2>1, <2>2
<1>8. QED
  BY <1>3, <1>6, <1>7 DEF Counted

(* The first page holds the newest star.                                    *)
LEMMA FirstPage ==
    ASSUME AccountInv,
           NEW found, found = {stars[i] : i \in {j \in DOMAIN stars : 0 < j /\ j <= PageSize}}
    PROVE  \A x \in ToSet(stars) : \E y \in found : y.at >= x.at
<1>0. /\ stars \in Seq(Star) /\ Len(stars) \in Nat /\ DOMAIN stars = 1..Len(stars)
      /\ StarsAreOrdered /\ PageSize \in Nat \ {0}
  BY LenProperties, SyncAssumption DEF AccountInv, AccountTyped
<1>1. ASSUME NEW i \in DOMAIN stars PROVE stars[1] \in found /\ stars[1].at >= stars[i].at
  <2>1. 1 \in DOMAIN stars /\ 0 < 1 /\ 1 <= PageSize /\ (i = 1 \/ 1 < i)
    BY <1>0
  <2>2. stars[1].at \in Nat
    <3>1. stars[1] \in Star
      BY <1>0, <2>1, ElementOfSeq
    <3>2. QED
      BY <3>1 DEF Star
  <2>3. QED
    BY <2>1, <2>2, <1>0 DEF StarsAreOrdered
<1>2. QED
  BY <1>1 DEF ToSet

(* What is known of a collection stands while its call does not move.       *)
SameCall(c) ==
    /\ pc'[c] = pc[c] /\ page'[c] = page[c] /\ seen'[c] = seen[c]
    /\ todo'[c] = todo[c] /\ coverage'[c] = coverage[c] /\ since'[c] = since[c]
    /\ second'[c] = second[c] /\ attempt'[c] = attempt[c]

LEMMA FirstGoesOn ==
    ASSUME Grows, NEW c \in Call, SameCall(c), NEW rows, since[c] \in 1..Len(past),
           InFirst(c, rows)
    PROVE  InFirst(c, rows)'
<1>0. /\ WithLists(c)' = WithLists(c)
      /\ \A t \in since[c]..Len(past) : t \in 1..Len(past) /\ t \in since'[c]..Len(past')
      /\ Len(past) \in Nat /\ Len(past') \in Nat /\ Len(past) <= Len(past')
      /\ since'[c] \in 1..Len(past')
  BY DEF Grows, SameCall, WithLists
<1>1. ASSUME pc[c] = "stars" PROVE StarsInPart(c, rows.stars)' /\ NoLists(rows)'
  <2>1. StarsInPart(c, rows.stars) /\ NoLists(rows)
    BY <1>1 DEF InFirst
  <2>2. PICK k : k = (page[c] - 1) * PageSize
    OBVIOUS
  <2>5. Counted(rows.stars, k) /\ Counted(rows.stars, k)' /\ (page'[c] - 1) * PageSize = k
    BY <2>1, <2>2 DEF StarsInPart, SameCall, Counted
  <2>3. \A x \in rows.stars : x \in Star /\ x.at <= Len(past')
    BY <1>0, <2>1 DEF StarsInPart, Star
  <2>4. QED
    BY <2>1, <2>5, <2>3 DEF StarsInPart, SameCall, NoLists
<1>2. ASSUME pc[c] = "lists"
      PROVE  NoLists(rows)' /\ \E t \in since'[c]..Len(past') : StarsInWhole(rows.stars, t)'
  <2>1. NoLists(rows) /\ \E t \in since[c]..Len(past) : StarsInWhole(rows.stars, t)
    BY <1>2 DEF InFirst
  <2>2. PICK t \in since[c]..Len(past) : StarsInWhole(rows.stars, t)
    BY <2>1
  <2>3. StarsInWhole(rows.stars, t)'
    BY <1>0, <2>2, StarsStand
  <2>4. QED
    BY <1>0, <2>1, <2>3 DEF NoLists
<1>3. ASSUME pc[c] = "items"
      PROVE  \E t \in since'[c]..Len(past') :
                /\ StarsInWhole(rows.stars, t)'
                /\ \E m \in t..Len(past') : ListsSince(rows, m, Len(past), todo[c])'
  <2>1. PICK t \in since[c]..Len(past) :
                /\ StarsInWhole(rows.stars, t)
                /\ \E m \in t..Len(past) : ListsSince(rows, m, Len(past), todo[c])
    BY <1>3 DEF InFirst
  <2>2. PICK m \in t..Len(past) : ListsSince(rows, m, Len(past), todo[c])
    BY <2>1
  <2>3. m \in 1..Len(past) /\ Len(past) \in m..Len(past) /\ Len(past') \in Len(past)..Len(past')
    BY <1>0
  <2>4. PICK left, n, k : left = todo[c] /\ n = Len(past) /\ k = Len(past')
    OBVIOUS
  <2>5. ListsSince(rows, m, k, left)'
    BY <2>2, <2>3, <2>4, ListsStand
  <2>6. StarsInWhole(rows.stars, t)'
    BY <1>0, <2>1, StarsStand
  <2>7. m \in t..Len(past') /\ todo'[c] = left
    BY <1>0, <2>4 DEF SameCall
  <2>8. QED
    BY <1>0, <2>4, <2>5, <2>6, <2>7
<1>4. ASSUME pc[c] = "turning"
      PROVE  \E t \in since'[c]..Len(past') : FirstDone(WithLists(c), rows, t, Len(past))'
  <2>1. PICK full, n, k : full = WithLists(c) /\ n = Len(past) /\ k = Len(past')
    OBVIOUS
  <2>2. PICK t \in since[c]..Len(past) : FirstDone(full, rows, t, n)
    BY <1>4, <2>1 DEF InFirst
  <2>3. n \in 1..Len(past) /\ k \in n..Len(past')
    BY <1>0, <2>1
  <2>4. FirstDone(full, rows, t, k)'
    BY <1>0, <2>2, <2>3, FirstStands
  <2>5. QED
    BY <1>0, <2>1, <2>4
<1>5. QED
  BY <1>1, <1>2, <1>3, <1>4 DEF InFirst, SameCall

LEMMA SecondGoesOn ==
    ASSUME Grows, NEW c \in Call, SameCall(c), NEW rows, NEW u \in 1..Len(past),
           InSecond(c, rows, u)
    PROVE  InSecond(c, rows, u)'
<1>0. PICK n, k, left, full :
         /\ n = Len(past) /\ k = Len(past') /\ left = todo[c] /\ full = WithLists(c)
  OBVIOUS
<1>1. /\ WithLists(c)' = full /\ todo'[c] = left /\ n \in Nat /\ k \in Nat /\ n <= k
      /\ \A m \in u..n : m \in 1..n /\ n \in m..n /\ k \in n..k /\ m \in u..k
  BY <1>0 DEF Grows, SameCall, WithLists
<1>2. ASSUME pc[c] = "items"
      PROVE  rows.stars = {} /\ \E m \in u..k : ListsSince(rows, m, k, left)'
  <2>1. PICK m \in u..n : ListsSince(rows, m, n, left)
    BY <1>0, <1>2 DEF InSecond
  <2>2. ListsSince(rows, m, k, left)'
    BY <1>0, <1>1, <2>1, ListsStand
  <2>3. QED
    BY <1>1, <1>2, <2>2 DEF InSecond
<1>3. ASSUME pc[c] \in {"stars", "verifying", "publishing"}
      PROVE  \E m \in u..k :
                /\ ListsRead(full, rows, m, k, {})'
                /\ \/ pc[c] = "stars" /\ page[c] = 1 /\ rows.stars = {}
                   \/ StarsAgain(rows.stars, m)'
  <2>1. PICK m \in u..n :
                /\ ListsRead(full, rows, m, n, {})
                /\ \/ pc[c] = "stars" /\ page[c] = 1 /\ rows.stars = {}
                   \/ StarsAgain(rows.stars, m)
    BY <1>0, <1>3 DEF InSecond
  <2>2. ListsRead(full, rows, m, k, {})'
    BY <1>0, <1>1, <2>1, ReadsStand
  <2>3. StarsAgain(rows.stars, m) => StarsAgain(rows.stars, m)'
    BY <1>0, <1>1, AgainStands
  <2>4. QED
    BY <1>1, <2>1, <2>2, <2>3
<1>4. ASSUME pc'[c] = "lists" PROVE rows = Nothing
  BY <1>4 DEF InSecond, SameCall
<1>5. ASSUME pc'[c] = "items"
      PROVE  rows.stars = {} /\ \E m \in u..Len(past') :
                                   ListsSince(rows, m, Len(past), todo[c])'
  BY <1>0, <1>1, <1>2, <1>5 DEF SameCall
<1>6. ASSUME pc'[c] \in {"stars", "verifying", "publishing"}
      PROVE  \E m \in u..Len(past') :
                /\ ListsRead(WithLists(c), rows, m, Len(past), {})'
                /\ \/ pc'[c] = "stars" /\ page'[c] = 1 /\ rows.stars = {}
                   \/ StarsAgain(rows.stars, m)'
  BY <1>0, <1>1, <1>3, <1>6 DEF SameCall
<1>7. QED
  BY <1>4, <1>5, <1>6 DEF InSecond

(* The invariant, and the steps that leave a draft alone or fail it.        *)
CollectInv ==
    /\ AccountInv /\ DraftInv /\ CollectTyped
    /\ \A c \in Call : Placed(c) /\ Unused(c) /\ Collected(c)

LEMMA CollectionGoesOn ==
    ASSUME Grows, NEW c \in Call, SameCall(c), Collected(c),
           Rows(c)' = Rows(c) \/ Rows(c)'.status # "building"
    PROVE  Collected(c)'
<1> SUFFICES ASSUME pc'[c] \in Drafting, Rows(c)'.status = "building"
             PROVE  /\ since'[c] \in 1..Len(past')
                    /\ ~second'[c] => Rows(c)'.verified = Nothing
                                         /\ InFirst(c, Rows(c).staged)'
                    /\ second'[c] => \E t \in since'[c]..Len(past'), u \in since'[c]..Len(past') :
                           /\ FirstDone(WithLists(c), Rows(c).staged, t, u)'
                           /\ InSecond(c, Rows(c).verified, u)'
  BY DEF Collected
<1>1. PICK rows, full : rows = Rows(c) /\ Rows(c)' = rows /\ full = WithLists(c)
  OBVIOUS
<1>2. pc[c] \in Drafting /\ rows.status = "building"
  BY <1>1 DEF SameCall
<1>3. /\ since[c] \in 1..Len(past) /\ since'[c] = since[c]
      /\ Len(past) \in Nat /\ Len(past') \in Nat /\ Len(past) <= Len(past')
      /\ WithLists(c)' = full /\ second'[c] = second[c]
  BY <1>1, <1>2 DEF Collected, Grows, SameCall, WithLists
<1>4. ASSUME ~second[c] PROVE rows.verified = Nothing /\ InFirst(c, rows.staged)'
  <2>1. rows.verified = Nothing /\ InFirst(c, rows.staged)
    BY <1>1, <1>2, <1>4 DEF Collected
  <2>2. QED
    BY <1>3, <2>1, FirstGoesOn
<1>5. ASSUME second[c]
      PROVE  \E t \in since'[c]..Len(past'), u \in since'[c]..Len(past') :
                FirstDone(full, rows.staged, t, u)' /\ InSecond(c, rows.verified, u)'
  <2>1. PICK t \in since[c]..Len(past), u \in since[c]..Len(past) :
                FirstDone(full, rows.staged, t, u) /\ InSecond(c, rows.verified, u)
    BY <1>1, <1>2, <1>5 DEF Collected
  <2>2. t \in 1..Len(past) /\ u \in 1..Len(past) /\ u \in u..Len(past')
    BY <1>3
  <2>3. FirstDone(full, rows.staged, t, u)' /\ InSecond(c, rows.verified, u)'
    BY <2>1, <2>2, FirstStands, SecondGoesOn
  <2>4. t \in since'[c]..Len(past') /\ u \in since'[c]..Len(past')
    BY <1>3
  <2>5. QED
    BY <2>3, <2>4
<1>6. QED
  BY <1>1, <1>3, <1>4, <1>5

(* The rows of a draft after an append to it.                               *)
LEMMA Appended ==
    ASSUME Typed, NEW c \in Call, NEW batch, AppendBatch(c, batch), UNCHANGED attempt
    PROVE  /\ Rows(c)'.status = Rows(c).status
           /\ \A d \in Call \ {c} : Rows(d)' = Rows(d)
           /\ \A s \in Snapshot : s # Draft(c) => snap'[s] = snap[s]
           /\ second[c] => /\ Rows(c)'.staged = Rows(c).staged
                           /\ Rows(c)'.verified = Merged(Rows(c).verified, batch)
           /\ ~second[c] => /\ Rows(c)'.staged = Merged(Rows(c).staged, batch)
                            /\ Rows(c)'.verified = Rows(c).verified
<1>1. PICK draft \in Snapshot : draft = Draft(c) /\ draft[1] = c
  BY DraftIsOwn
<1>2. /\ Rows(c) = snap[draft] /\ Rows(c)' = snap'[draft]
      /\ \A d \in Call \ {c} : Draft(d) \in Snapshot /\ Draft(d) # draft
      /\ \A d \in Call : Rows(d) = snap[Draft(d)] /\ Rows(d)' = snap'[Draft(d)]
  BY <1>1, DraftIsOwn DEF Rows, Draft
<1>3. CASE second[c]
  <2>1. snap' = [snap EXCEPT ![draft].verified = Merged(@, batch)]
    BY <1>1, <1>3 DEF AppendBatch, AppendVerification
  <2>2. QED
    BY <1>1, <1>2, <1>3, <2>1 DEF Typed
<1>4. CASE ~second[c]
  <2>1. snap' = [snap EXCEPT ![draft].staged = Merged(@, batch)]
    BY <1>1, <1>4 DEF AppendBatch, AppendSnapshot
  <2>2. QED
    BY <1>1, <1>2, <1>4, <2>1 DEF Typed
<1>5. QED
  BY <1>3, <1>4

(* A page of stars in the first collection.                                 *)
LEMMA StarsFirst ==
    ASSUME CollectInv, NEW c \in Call, ReadStars(c), ~second[c], pc'[c] \in Drafting, Grows
    PROVE  Collected(c)'
<1>1. PICK m, found, n : /\ m = (page[c] - 1) * PageSize /\ found = StarPage(page[c])
                         /\ n = Len(past)
  OBVIOUS
<1>2. /\ pc[c] = "stars" /\ UNCHANGED <<past, attempt, second, coverage, since, todo, stars>>
      /\ AppendBatch(c, [Nothing EXCEPT !.stars = found])
      /\ {s.repo : s \in found} \cap Met(c) = {} /\ Rows(c).status = "building"
      /\ seen' = [seen EXCEPT ![c] = Met(c) \cup {s.repo : s \in found}]
      /\ page' = [page EXCEPT ![c] = IF NextPage(page[c]) THEN @ + 1 ELSE 1]
      /\ IF NextPage(page[c]) THEN UNCHANGED pc ELSE Goto(c, AfterStars(c))
  <2>1. pc \in [Call -> PC] /\ pc[c] = "stars"
    BY DEF ReadStars, CollectInv, DraftInv, Typed
  <2>2. ~Goto(c, "changed")
    BY <2>1 DEF Goto, Drafting, Reading
  <2>3. QED
    BY <1>1, <2>1, <2>2 DEF ReadStars, account, Owns
<1>3. PICK rows : rows = Rows(c)
  OBVIOUS
<1>4. /\ Rows(c)'.status = "building" /\ Rows(c)'.verified = Nothing
      /\ Rows(c)'.staged.stars = rows.staged.stars \cup found
      /\ NoLists(rows.staged) => NoLists(Rows(c)'.staged)
      /\ since[c] \in 1..n /\ InFirst(c, rows.staged)
  <2>1. /\ Rows(c)'.status = "building" /\ Rows(c)'.verified = rows.verified
        /\ Rows(c)'.staged = Merged(rows.staged, [Nothing EXCEPT !.stars = found])
    BY <1>2, <1>3, Appended DEF CollectInv, DraftInv
  <2>2. Collected(c) /\ pc[c] \in Drafting
    BY <1>2 DEF CollectInv, Drafting, Reading
  <2>3. QED
    BY <1>1, <1>2, <1>3, <2>1, <2>2 DEF Collected, Merged, Nothing, NoLists
<1>5. /\ AccountInv /\ page[c] \in Nat \ {0} /\ page \in [Call -> Nat \ {0}]
      /\ seen \in [Call -> SUBSET Repo] /\ pc \in [Call -> PC] /\ n \in Nat
      /\ past[n] = Account /\ stars \in Seq(Star) /\ Len(stars) \in Nat
      /\ DOMAIN stars = 1..Len(stars)
  BY <1>1, LenProperties DEF CollectInv, CollectTyped, DraftInv, Typed, AccountInv, AccountTyped
<1>6. /\ m \in Nat /\ page[c] * PageSize = m + PageSize
      /\ (page[c] + 1 - 1) * PageSize = m + PageSize
      /\ found = {stars[i] : i \in {j \in DOMAIN stars : m < j /\ j <= m + PageSize}}
  BY <1>1, <1>5, Positions DEF StarPage
<1>7. Counted(rows.staged.stars, m) /\ NoLists(rows.staged)
  BY <1>1, <1>2, <1>4 DEF InFirst, StarsInPart
<1>8. Met(c) = {x.repo : x \in rows.staged.stars}
  <2>1. CASE page[c] = 1
    <3>1. m = 0
      BY <1>1, <1>5, <2>1, Positions
    <3>2. rows.staged.stars = {}
      BY <1>7, <3>1 DEF Counted
    <3>3. QED
      BY <2>1, <3>2 DEF Met
  <2>2. CASE page[c] # 1
    BY <1>2, <1>4, <2>2 DEF Met, InFirst, StarsInPart
  <2>3. QED
    BY <2>1, <2>2
<1>9. \A x \in rows.staged.stars : \A y \in found : x.repo # y.repo
  BY <1>2, <1>8
<1>10. \A x \in rows.staged.stars \cup found : x \in Star /\ x.at <= n
  <2>1. \A x \in rows.staged.stars : x \in Star /\ x.at <= n
    BY <1>1, <1>2, <1>4 DEF InFirst, StarsInPart
  <2>2. \A x \in found : x \in past[n].stars /\ x \in Star
    BY <1>5, <1>6, ElementOfSeq DEF Account, ToSet
  <2>3. n \in 1..Len(past) /\ StarsStay
    BY <1>1, <1>5 DEF AccountInv, AccountTyped
  <2>4. QED
    BY <2>1, <2>2, <2>3, <1>5 DEF StarsStay
<1>11. CASE NextPage(page[c])
  <2>1. m + PageSize < Len(stars)
    BY <1>5, <1>6, <1>11, SyncAssumption DEF NextPage
  <2>2. Counted(rows.staged.stars \cup found, m + PageSize)
    BY <1>5, <1>6, <1>7, <1>9, <2>1, FullPage
  <2>3. /\ page'[c] = page[c] + 1 /\ pc'[c] = "stars" /\ second'[c] = second[c]
        /\ seen'[c] = {x.repo : x \in rows.staged.stars \cup found}
        /\ (page'[c] - 1) * PageSize = m + PageSize
    <3>1. page'[c] = page[c] + 1 /\ pc'[c] = "stars" /\ second'[c] = second[c]
      BY <1>2, <1>5, <1>11
    <3>2. PICK p : p = page[c]
      OBVIOUS
    <3>3. p * PageSize = m + PageSize /\ page'[c] - 1 = p
      BY <1>5, <1>6, <3>1, <3>2
    <3>4. seen'[c] = {x.repo : x \in rows.staged.stars} \cup {x.repo : x \in found}
      BY <1>2, <1>5, <1>8
    <3>5. seen'[c] = {x.repo : x \in rows.staged.stars \cup found}
      BY <3>4
    <3>6. (page'[c] - 1) * PageSize = m + PageSize
      BY <3>3, Zenon
    <3>7. QED
      BY <3>1, <3>5, <3>6
  <2>4. PICK S, k : S = rows.staged.stars \cup found /\ k = m + PageSize
    OBVIOUS
  <2>5. StarsInPart(c, S)'
    <3>1. Counted(S, k) /\ (page'[c] - 1) * PageSize = k /\ Len(past') = n
      BY <1>1, <1>2, <2>2, <2>3, <2>4
    <3>2. QED
      BY <1>10, <2>3, <2>4, <3>1 DEF StarsInPart
  <2>6. PICK new : new = Rows(c)'.staged
    OBVIOUS
  <2>7. InFirst(c, new)'
    BY <1>4, <1>7, <2>3, <2>4, <2>5, <2>6 DEF InFirst, NoLists
  <2>8. QED
    BY <1>1, <1>2, <1>4, <2>3, <2>6, <2>7 DEF Collected
<1>12. CASE ~NextPage(page[c])
  <2>1. Len(stars) <= m + PageSize
    BY <1>5, <1>6, <1>12, SyncAssumption DEF NextPage
  <2>2. PICK S : S = rows.staged.stars \cup found
    OBVIOUS
  <2>3. StarsInWhole(S, n)'
    <3>1. ASSUME S \subseteq ToSet(stars) PROVE S = ToSet(stars)
      <4>1. PICK T : T = rows.staged.stars
        OBVIOUS
      <4>2. T \subseteq ToSet(stars) /\ Counted(T, m) /\ \A x \in T : \A y \in found : x.repo # y.repo
        BY <1>7, <1>9, <2>2, <3>1, <4>1
      <4>3. T \cup found = ToSet(stars)
        <5>1. /\ AccountInv /\ m \in Nat
              /\ found = {stars[i] : i \in {j \in DOMAIN stars : m < j /\ j <= m + PageSize}}
          BY <1>5, <1>6
        <5>2. QED
          BY <2>1, <4>2, <5>1, LastPage, Zenon
      <4>4. QED
        BY <2>2, <4>1, <4>3
    <3>2. past'[n].stars = ToSet(stars)
      BY <1>2, <1>5 DEF Account
    <3>3. QED
      BY <1>10, <2>2, <3>1, <3>2 DEF StarsInWhole
  <2>4. /\ pc'[c] = AfterStars(c) /\ second'[c] = second[c] /\ Len(past') = n
        /\ WithLists(c)' = WithLists(c) /\ since'[c] = since[c] /\ n \in n..n
        /\ n \in since[c]..n
    BY <1>1, <1>2, <1>4, <1>5, <1>12 DEF Goto, WithLists
  <2>5. PICK new, full : new = Rows(c)'.staged /\ full = WithLists(c)
    OBVIOUS
  <2>6. new.stars = S /\ NoLists(new)
    BY <1>4, <1>7, <2>2, <2>5
  <2>7. InFirst(c, new)'
    <3>1. CASE full
      <4>1. pc'[c] = "lists"
        BY <2>4, <2>5, <3>1 DEF AfterStars
      <4>2. QED
        BY <2>3, <2>4, <2>6, <4>1 DEF InFirst, NoLists
    <3>2. CASE ~full
      <4>1. pc'[c] = "turning"
        BY <2>4, <2>5, <3>2 DEF AfterStars
      <4>2. FirstDone(full, new, n, n)'
        BY <2>3, <2>4, <2>6, <3>2 DEF FirstDone, ListsRead, NoLists
      <4>3. QED
        BY <2>4, <2>5, <4>1, <4>2 DEF InFirst
    <3>3. QED
      BY <3>1, <3>2
  <2>8. QED
    BY <1>1, <1>2, <1>4, <2>4, <2>5, <2>7 DEF Collected
<1>13. QED
  BY <1>11, <1>12

(* A page of stars in the second collection.                                *)
LEMMA StarsSecond ==
    ASSUME CollectInv, NEW c \in Call, ReadStars(c), second[c], pc'[c] \in Drafting, Grows
    PROVE  Collected(c)'
<1>1. PICK found, n, full, rows :
         /\ found = StarPage(page[c]) /\ n = Len(past) /\ full = WithLists(c)
         /\ rows = Rows(c)
  OBVIOUS
<1>2. /\ pc[c] = "stars" /\ UNCHANGED <<past, attempt, second, coverage, since>>
      /\ AppendBatch(c, [Nothing EXCEPT !.stars = found])
      /\ Rows(c).status = "building"
      /\ pc'[c] \in {"stars", "verifying"}
  <2>1. pc \in [Call -> PC] /\ pc[c] = "stars"
    BY DEF ReadStars, CollectInv, DraftInv, Typed
  <2>2. ~Goto(c, "changed")
    BY <2>1 DEF Goto, Drafting, Reading
  <2>3. QED
    BY <1>1, <2>1, <2>2 DEF ReadStars, account, Owns, AfterStars, Goto
<1>3. /\ Rows(c)'.status = "building" /\ Rows(c)'.staged = rows.staged
      /\ Rows(c)'.verified = Merged(rows.verified, [Nothing EXCEPT !.stars = found])
      /\ since[c] \in 1..n /\ since'[c] = since[c] /\ second'[c]
      /\ Len(past') = n /\ WithLists(c)' = full /\ n \in Nat
  <2>1. Collected(c) /\ pc[c] \in Drafting /\ Typed
    BY <1>2 DEF CollectInv, DraftInv, Drafting, Reading
  <2>2. QED
    BY <1>1, <1>2, <2>1, Appended DEF Collected, Grows, WithLists
<1>4. PICK t \in since[c]..n, u \in since[c]..n :
         FirstDone(full, rows.staged, t, u) /\ InSecond(c, rows.verified, u)
  BY <1>1, <1>2 DEF CollectInv, Collected, Drafting, Reading
<1>5. PICK m \in u..n :
         /\ ListsRead(full, rows.verified, m, n, {})
         /\ \/ page[c] = 1 /\ rows.verified.stars = {}
            \/ StarsAgain(rows.verified.stars, m)
  BY <1>1, <1>2, <1>4 DEF InSecond
<1>6. PICK new : new = Rows(c)'.verified
  OBVIOUS
<1>7. /\ new.stars = rows.verified.stars \cup found
      /\ \A full2, i, j, left : ListsRead(full2, rows.verified, i, j, left)
                                   => ListsRead(full2, new, i, j, left)
  <2>1. /\ new.stars = rows.verified.stars \cup found
        /\ new.lists = rows.verified.lists /\ new.items = rows.verified.items
    BY <1>3, <1>6 DEF Merged, Nothing
  <2>2. QED
    BY <2>1 DEF ListsRead, ListsSince, NoLists
<1>8. /\ AccountInv /\ stars \in Seq(Star) /\ past[n] = Account /\ n \in m..n
      /\ DOMAIN stars = 1..Len(stars) /\ Len(stars) \in Nat
      /\ page[c] \in Nat \ {0} /\ PageSize \in Nat \ {0}
  BY <1>1, <1>3, <1>5, LenProperties, SyncAssumption
     DEF CollectInv, AccountInv, AccountTyped, CollectTyped
<1>9. past[n].stars = ToSet(stars) /\ found \subseteq ToSet(stars)
  BY <1>1, <1>8 DEF Account, ToSet, StarPage
<1>10. StarsAgain(new.stars, m)
  <2>1. \A x \in found : \E k \in m..n : x \in past[k].stars
    BY <1>8, <1>9
  <2>2. CASE page[c] = 1 /\ rows.verified.stars = {}
    <3>1. found = {stars[i] : i \in {j \in DOMAIN stars : 0 < j /\ j <= PageSize}}
      <4>1. (page[c] - 1) * PageSize = 0 /\ page[c] * PageSize = PageSize
        BY <1>8, <2>2
      <4>2. QED
        BY <1>1, <4>1 DEF StarPage
    <3>2. \A x \in past[n].stars : \E y \in found : y.at >= x.at
      BY <1>8, <1>9, <3>1, FirstPage
    <3>3. new.stars = found
      BY <1>7, <2>2
    <3>4. QED
      BY <1>1, <1>8, <2>1, <3>2, <3>3 DEF StarsAgain
  <2>3. CASE StarsAgain(rows.verified.stars, m)
    BY <1>1, <1>7, <2>1, <2>3 DEF StarsAgain
  <2>4. QED
    BY <1>5, <2>2, <2>3
<1>11. StarsAgain(new.stars, m)' /\ ListsRead(full, new, m, n, {})'
  <2>1. /\ m \in 1..Len(past) /\ n \in m..Len(past) /\ n \in n..Len(past')
        /\ ListsRead(full, new, m, n, {})
    BY <1>1, <1>3, <1>4, <1>5, <1>7
  <2>2. QED
    BY <1>10, <2>1, AgainStands, ReadsStand
<1>12. FirstDone(full, rows.staged, t, u)'
  <2>1. t \in 1..Len(past) /\ u \in 1..Len(past) /\ u \in u..Len(past')
    BY <1>1, <1>3, <1>4
  <2>2. QED
    BY <1>4, <2>1, FirstStands
<1>13. InSecond(c, new, u)'
  BY <1>2, <1>3, <1>5, <1>11 DEF InSecond
<1>14. QED
  BY <1>3, <1>4, <1>6, <1>12, <1>13 DEF Collected

(* The lists that are read are those of this moment, and none of their items *)
(* has been read yet.                                                       *)
LEMMA ListsNow ==
    ASSUME AccountInv, NEW n, n = Len(past), NEW new,
           new.lists = ListsPage, new.items = {}
    PROVE  ListsSince(new, n, n, {y[1] : y \in new.lists})
<1>1. past[n] = Account /\ new.lists = past[n].lists
  BY DEF AccountInv, ListsPage
<1>2. QED
  BY <1>1 DEF ListsSince

(* The items of one list more, in one page.                                 *)
LEMMA ItemsNow ==
    ASSUME AccountInv, NEW n, n = Len(past), NEW m \in 1..n, NEW left, NEW l \in left,
           NEW rows, ListsSince(rows, m, n, left),
           NEW new, new.lists = rows.lists, new.items = rows.items \cup ItemsPage(l)
    PROVE  ListsSince(new, m, n, left \ {l})
<1>0. /\ past[n] = Account /\ n \in Nat /\ items \in [List -> SUBSET Repo]
      /\ past \in Seq(Contents) /\ past[m] \in Contents
  BY LenProperties, ElementOfSeq DEF AccountInv, AccountTyped
<1>1. rows.lists = past[m].lists /\ left \subseteq {y[1] : y \in rows.lists} /\ l \in List
  BY <1>0 DEF ListsSince, Contents
<1>2. ASSUME NEW z \in new.items
      PROVE  /\ z \in List \X Repo /\ z[1] \notin left \ {l}
             /\ \E y \in new.lists : y[1] = z[1]
  <2>1. CASE z \in rows.items
    BY <2>1 DEF ListsSince
  <2>2. CASE z \in ItemsPage(l)
    BY <1>0, <1>1, <2>2 DEF ItemsPage
  <2>3. QED
    BY <2>1, <2>2
<1>3. ASSUME NEW y \in new.lists, y[1] \notin left \ {l}
      PROVE  \E i \in m..n : \A r \in Repo :
                <<y[1], r>> \in new.items <=> <<y[1], r>> \in past[i].items
  <2>1. CASE y[1] = l
    <3>1. \A r \in Repo : <<l, r>> \notin rows.items
      BY DEF ListsSince
    <3>2. \A r \in Repo : <<l, r>> \in new.items <=> r \in items[l]
      BY <3>1 DEF ItemsPage
    <3>3. \A r \in Repo : <<l, r>> \in past[n].items <=> r \in items[l]
      BY <1>0, <1>1 DEF Account
    <3>4. n \in m..n
      BY <1>0
    <3>5. QED
      BY <2>1, <3>2, <3>3, <3>4
  <2>2. CASE y[1] # l
    <3>1. PICK i \in m..n : \A r \in Repo :
                <<y[1], r>> \in rows.items <=> <<y[1], r>> \in past[i].items
      BY <1>3, <2>2 DEF ListsSince
    <3>2. \A r \in Repo : <<y[1], r>> \notin ItemsPage(l)
      BY <2>2 DEF ItemsPage
    <3>3. QED
      BY <3>1, <3>2
  <2>3. QED
    BY <2>1, <2>2
<1>4. new.lists = past[m].lists /\ left \ {l} \subseteq {y[1] : y \in new.lists}
  BY <1>1
<1>5. QED
  BY <1>2, <1>3, <1>4 DEF ListsSince

(* What holds of the draft of a call that goes on reading.                  *)
LEMMA ReadsOn ==
    ASSUME CollectInv, NEW c \in Call, UNCHANGED <<past, attempt, second, coverage, since>>,
           NEW batch, AppendBatch(c, batch), Owns(c), pc[c] \in Reading, Grows,
           NEW n, n = Len(past)
    PROVE  /\ Rows(c)'.status = "building" /\ Len(past') = n /\ n \in Nat
           /\ since[c] \in 1..n /\ since'[c] = since[c] /\ second'[c] = second[c]
           /\ WithLists(c)' = WithLists(c)
           /\ ~second[c] => /\ Rows(c)'.verified = Nothing
                            /\ Rows(c)'.staged = Merged(Rows(c).staged, batch)
                            /\ InFirst(c, Rows(c).staged)
           /\ second[c] => /\ Rows(c)'.staged = Rows(c).staged
                           /\ Rows(c)'.verified = Merged(Rows(c).verified, batch)
                           /\ \E t \in since[c]..n, u \in since[c]..n :
                                /\ FirstDone(WithLists(c), Rows(c).staged, t, u)
                                /\ FirstDone(WithLists(c), Rows(c).staged, t, u)'
                                /\ InSecond(c, Rows(c).verified, u)
<1>1. Collected(c) /\ pc[c] \in Drafting /\ Typed /\ Rows(c).status = "building"
  BY DEF CollectInv, DraftInv, Drafting, Owns
<1>2. /\ since[c] \in 1..n /\ since'[c] = since[c] /\ second'[c] = second[c]
      /\ WithLists(c)' = WithLists(c) /\ n \in Nat /\ Len(past') = n
  BY <1>1 DEF Collected, Grows, WithLists
<1>3. ASSUME ~second[c]
      PROVE  /\ Rows(c)'.verified = Nothing
             /\ Rows(c)'.staged = Merged(Rows(c).staged, batch)
             /\ InFirst(c, Rows(c).staged)
  BY <1>1, <1>3, Appended DEF Collected
<1>4. ASSUME second[c]
      PROVE  /\ Rows(c)'.staged = Rows(c).staged
             /\ Rows(c)'.verified = Merged(Rows(c).verified, batch)
             /\ \E t \in since[c]..n, u \in since[c]..n :
                   /\ FirstDone(WithLists(c), Rows(c).staged, t, u)
                   /\ FirstDone(WithLists(c), Rows(c).staged, t, u)'
                   /\ InSecond(c, Rows(c).verified, u)
  <2>1. /\ Rows(c)'.staged = Rows(c).staged
        /\ Rows(c)'.verified = Merged(Rows(c).verified, batch)
    BY <1>1, <1>4, Appended
  <2>2. PICK rows, full : rows = Rows(c).staged /\ full = WithLists(c)
    OBVIOUS
  <2>3. PICK t \in since[c]..n, u \in since[c]..n :
            FirstDone(full, rows, t, u) /\ InSecond(c, Rows(c).verified, u)
    BY <1>1, <1>4, <2>2 DEF Collected
  <2>4. t \in 1..Len(past) /\ u \in 1..Len(past) /\ u \in u..Len(past')
    BY <1>2
  <2>5. FirstDone(full, rows, t, u)'
    BY <2>3, <2>4, FirstStands
  <2>6. QED
    BY <1>2, <2>1, <2>2, <2>3, <2>5
<1>5. QED
  BY <1>1, <1>2, <1>3, <1>4, Appended

(* The lists, read in either collection.                                    *)
LEMMA ListsCollected ==
    ASSUME CollectInv, NEW c \in Call, ReadLists(c), Grows
    PROVE  Collected(c)'
<1>0. SUFFICES ASSUME pc'[c] # "changed" PROVE Collected(c)'
  BY DEF Collected, Drafting, Reading
<1>1. PICK n, found, left : n = Len(past) /\ found = ListsPage /\ left = {y[1] : y \in found}
  OBVIOUS
<1>2. /\ pc[c] = "lists" /\ UNCHANGED <<past, attempt, second, coverage, since, page>>
      /\ AppendBatch(c, [Nothing EXCEPT !.lists = found]) /\ Owns(c)
      /\ todo'[c] = left
      /\ pc'[c] = IF found = {} THEN AfterLists(c) ELSE "items"
      /\ WithLists(c) /\ page[c] = 1 /\ pc[c] \in Reading
  <2>1. pc \in [Call -> PC] /\ todo \in [Call -> SUBSET List] /\ Placed(c) /\ pc[c] = "lists"
    BY DEF ReadLists, CollectInv, DraftInv, Typed, CollectTyped
  <2>2. WithLists(c) /\ page[c] = 1
    BY <2>1 DEF Placed, Drafting, Reading
  <2>3. QED
    BY <1>0, <1>1, <2>1, <2>2 DEF ReadLists, account, Goto, Reading
<1>3. /\ Rows(c)'.status = "building" /\ Len(past') = n /\ n \in Nat
      /\ since[c] \in 1..n /\ since'[c] = since[c] /\ second'[c] = second[c]
      /\ WithLists(c)' = TRUE
  BY <1>1, <1>2, ReadsOn DEF WithLists
<1>4. found = {} => left = {}
  BY <1>1
<1>5. /\ AccountInv /\ WithLists(c) = TRUE
  BY <1>2 DEF CollectInv, WithLists
<1>6. CASE ~second[c]
  <2>1. /\ Rows(c)'.verified = Nothing /\ InFirst(c, Rows(c).staged)
        /\ Rows(c)'.staged = Merged(Rows(c).staged, [Nothing EXCEPT !.lists = found])
    BY <1>1, <1>2, <1>6, ReadsOn
  <2>2. PICK t \in since[c]..n : StarsInWhole(Rows(c).staged.stars, t)
    BY <1>1, <1>2, <2>1 DEF InFirst
  <2>3. PICK new : new = Rows(c)'.staged
    OBVIOUS
  <2>4. new.stars = Rows(c).staged.stars /\ new.lists = found /\ new.items = {}
    BY <1>2, <2>1, <2>3 DEF InFirst, NoLists, Merged, Nothing
  <2>5. ListsSince(new, n, n, left)
    BY <1>1, <1>5, <2>4, ListsNow
  <2>6. ListsSince(new, n, n, left)' /\ StarsInWhole(new.stars, t)'
    BY <1>2, <2>2, <2>4, <2>5 DEF ListsSince, StarsInWhole
  <2>7. InFirst(c, new)'
    <3>1. CASE found = {}
      <4>1. pc'[c] = "turning"
        BY <1>2, <1>6, <3>1 DEF AfterLists
      <4>2. FirstDone(TRUE, new, t, n)'
        <5>1. n \in t..n /\ n \in t..Len(past')
          BY <1>3
        <5>2. ListsSince(new, n, n, {})'
          BY <1>4, <2>6, <3>1
        <5>3. ListsRead(TRUE, new, n, n, {})'
          BY <5>2 DEF ListsRead
        <5>4. QED
          BY <2>6, <5>1, <5>3 DEF FirstDone
      <4>3. QED
        BY <1>3, <4>1, <4>2 DEF InFirst
    <3>2. CASE found # {}
      <4>1. pc'[c] = "items" /\ n \in t..n
        BY <1>2, <1>3, <3>2
      <4>2. QED
        BY <1>2, <1>3, <2>6, <4>1 DEF InFirst
    <3>3. QED
      BY <3>1, <3>2
  <2>8. QED
    BY <1>3, <1>6, <2>1, <2>3, <2>7 DEF Collected
<1>7. CASE second[c]
  <2>1. /\ Rows(c)'.staged = Rows(c).staged
        /\ Rows(c)'.verified = Merged(Rows(c).verified, [Nothing EXCEPT !.lists = found])
    BY <1>1, <1>2, <1>7, ReadsOn
  <2>2. PICK t \in since[c]..n, u \in since[c]..n :
            FirstDone(TRUE, Rows(c).staged, t, u)' /\ InSecond(c, Rows(c).verified, u)
    BY <1>1, <1>2, <1>5, <1>7, ReadsOn
  <2>3. PICK new : new = Rows(c)'.verified
    OBVIOUS
  <2>4. new.stars = {} /\ new.lists = found /\ new.items = {}
    BY <1>2, <2>1, <2>2, <2>3 DEF InSecond, Merged, Nothing
  <2>5. ListsSince(new, n, n, left)
    BY <1>1, <1>5, <2>4, ListsNow
  <2>6. ListsSince(new, n, n, left)'
    BY <1>2, <2>5 DEF ListsSince
  <2>7. n \in u..n
    BY <1>3
  <2>8. InSecond(c, new, u)'
    <3>1. CASE found = {}
      <4>1. pc'[c] = "stars" /\ page'[c] = 1
        BY <1>2, <1>7, <3>1 DEF AfterLists
      <4>2. ListsRead(TRUE, new, n, n, {})'
        BY <1>4, <2>6, <3>1 DEF ListsRead
      <4>3. QED
        BY <1>3, <2>4, <2>7, <4>1, <4>2 DEF InSecond
    <3>2. CASE found # {}
      <4>1. pc'[c] = "items"
        BY <1>2, <3>2
      <4>2. QED
        BY <1>2, <1>3, <2>4, <2>6, <2>7, <4>1 DEF InSecond
    <3>3. QED
      BY <3>1, <3>2
  <2>9. QED
    BY <1>3, <1>7, <2>1, <2>2, <2>3, <2>8 DEF Collected
<1>8. QED
  BY <1>6, <1>7

(* The items of one list, read in either collection.                        *)
LEMMA ItemsCollected ==
    ASSUME CollectInv, NEW c \in Call, ReadItems(c), pc'[c] \in Drafting, Grows
    PROVE  Collected(c)'
<1>1. PICK n, left : n = Len(past) /\ left = todo[c]
  OBVIOUS
<1>2. PICK l \in left :
         /\ AppendBatch(c, [Nothing EXCEPT !.items = ItemsPage(l)])
         /\ todo' = [todo EXCEPT ![c] = @ \ {l}]
         /\ IF left = {l} THEN Goto(c, AfterLists(c)) ELSE UNCHANGED pc
  <2>1. pc \in [Call -> PC]
    BY DEF CollectInv, DraftInv, Typed
  <2>2. ~Goto(c, "changed")
    BY <2>1 DEF Goto, Drafting, Reading
  <2>3. QED
    BY <1>1, <2>2 DEF ReadItems
<1>3. /\ pc[c] = "items" /\ UNCHANGED <<past, attempt, second, coverage, since, page>>
      /\ Owns(c) /\ todo'[c] = left \ {l} /\ pc[c] \in Reading
      /\ pc'[c] = IF left = {l} THEN AfterLists(c) ELSE "items"
      /\ WithLists(c) /\ page[c] = 1
  <2>1. pc \in [Call -> PC] /\ todo \in [Call -> SUBSET List] /\ Placed(c) /\ pc[c] = "items"
    BY DEF ReadItems, CollectInv, DraftInv, Typed, CollectTyped
  <2>2. WithLists(c) /\ page[c] = 1
    BY <2>1 DEF Placed, Drafting, Reading
  <2>3. QED
    BY <1>1, <1>2, <2>1, <2>2 DEF ReadItems, account, Goto, Reading
<1>4. /\ Rows(c)'.status = "building" /\ Len(past') = n /\ n \in Nat
      /\ since[c] \in 1..n /\ since'[c] = since[c] /\ second'[c] = second[c]
      /\ WithLists(c)' = TRUE
  BY <1>1, <1>2, <1>3, ReadsOn DEF WithLists
<1>5. /\ AccountInv /\ WithLists(c) = TRUE
  BY <1>3 DEF CollectInv, WithLists
<1>6. CASE ~second[c]
  <2>1. /\ Rows(c)'.verified = Nothing /\ InFirst(c, Rows(c).staged)
        /\ Rows(c)'.staged = Merged(Rows(c).staged, [Nothing EXCEPT !.items = ItemsPage(l)])
    BY <1>1, <1>2, <1>3, <1>6, ReadsOn
  <2>2. PICK old, new : old = Rows(c).staged /\ new = Rows(c)'.staged
    OBVIOUS
  <2>3. PICK t \in since[c]..n :
            StarsInWhole(old.stars, t) /\ \E m \in t..n : ListsSince(old, m, n, left)
    BY <1>1, <1>3, <2>1, <2>2 DEF InFirst
  <2>4. PICK m \in t..n : ListsSince(old, m, n, left)
    BY <2>3
  <2>5. new.stars = old.stars /\ new.lists = old.lists /\ new.items = old.items \cup ItemsPage(l)
    BY <2>1, <2>2 DEF Merged, Nothing
  <2>6. m \in 1..n
    BY <1>4
  <2>7. ListsSince(new, m, n, left \ {l})
    BY <1>1, <1>5, <2>4, <2>5, <2>6, ItemsNow
  <2>8. ListsSince(new, m, n, left \ {l})' /\ StarsInWhole(new.stars, t)'
    BY <1>3, <2>3, <2>5, <2>7 DEF ListsSince, StarsInWhole
  <2>9. InFirst(c, new)'
    <3>1. CASE left = {l}
      <4>1. pc'[c] = "turning"
        BY <1>3, <1>6, <3>1 DEF AfterLists
      <4>2. FirstDone(TRUE, new, t, n)'
        <5>1. n \in t..Len(past') /\ left \ {l} = {}
          BY <1>4, <3>1
        <5>2. ListsSince(new, m, n, {})'
          BY <2>8, <5>1
        <5>3. ListsRead(TRUE, new, m, n, {})'
          BY <5>2 DEF ListsRead
        <5>4. QED
          BY <2>8, <5>1, <5>3 DEF FirstDone
      <4>3. QED
        BY <1>4, <4>1, <4>2 DEF InFirst
    <3>2. CASE left # {l}
      <4>1. pc'[c] = "items"
        BY <1>3, <3>2
      <4>2. QED
        BY <1>3, <1>4, <2>8, <4>1 DEF InFirst
    <3>3. QED
      BY <3>1, <3>2
  <2>10. QED
    BY <1>4, <1>6, <2>1, <2>2, <2>9 DEF Collected
<1>7. CASE second[c]
  <2>1. /\ Rows(c)'.staged = Rows(c).staged
        /\ Rows(c)'.verified = Merged(Rows(c).verified, [Nothing EXCEPT !.items = ItemsPage(l)])
    BY <1>1, <1>2, <1>3, <1>7, ReadsOn
  <2>2. PICK t \in since[c]..n, u \in since[c]..n :
            FirstDone(TRUE, Rows(c).staged, t, u)' /\ InSecond(c, Rows(c).verified, u)
    BY <1>1, <1>2, <1>3, <1>5, <1>7, ReadsOn
  <2>3. PICK old, new : old = Rows(c).verified /\ new = Rows(c)'.verified
    OBVIOUS
  <2>4. PICK m \in u..n : old.stars = {} /\ ListsSince(old, m, n, left)
    BY <1>1, <1>3, <2>2, <2>3 DEF InSecond
  <2>5. new.stars = {} /\ new.lists = old.lists /\ new.items = old.items \cup ItemsPage(l)
    BY <2>1, <2>3, <2>4 DEF Merged, Nothing
  <2>6. m \in 1..n
    BY <1>4
  <2>7. ListsSince(new, m, n, left \ {l})
    BY <1>1, <1>5, <2>4, <2>5, <2>6, ItemsNow
  <2>8. ListsSince(new, m, n, left \ {l})'
    BY <1>3, <2>7 DEF ListsSince
  <2>9. InSecond(c, new, u)'
    <3>1. CASE left = {l}
      <4>1. pc'[c] = "stars" /\ page'[c] = 1
        BY <1>3, <1>7, <3>1 DEF AfterLists
      <4>2. ListsRead(TRUE, new, m, n, {})'
        <5>1. left \ {l} = {}
          BY <3>1
        <5>2. ListsSince(new, m, n, {})'
          BY <2>8, <5>1
        <5>3. QED
          BY <5>2 DEF ListsRead
      <4>3. QED
        BY <1>4, <2>5, <4>1, <4>2 DEF InSecond
    <3>2. CASE left # {l}
      <4>1. pc'[c] = "items"
        BY <1>3, <3>2
      <4>2. QED
        BY <1>3, <1>4, <2>5, <2>8, <4>1 DEF InSecond
    <3>3. QED
      BY <3>1, <3>2
  <2>10. QED
    BY <1>4, <1>7, <2>1, <2>2, <2>3, <2>9 DEF Collected
<1>8. QED
  BY <1>6, <1>7

(* A draft begins empty, at this moment.                                    *)
LEMMA CreateCollected ==
    ASSUME CollectInv, NEW c \in Call, Create(c), Grows
    PROVE  Collected(c)'
<1>1. PICK draft \in Snapshot : draft = Draft(c) /\ draft[1] = c /\ draft[2] = attempt[c]
  BY DraftIsOwn DEF CollectInv, DraftInv, Draft
<1>2. /\ pc[c] = "creating" /\ UNCHANGED <<past, attempt>>
      /\ pc'[c] = "stars" /\ second'[c] = FALSE /\ page'[c] = 1
      /\ since'[c] = Len(past) /\ Len(past) \in Nat /\ Len(past) > 0
      /\ snap' = [snap EXCEPT ![draft].status = "building",
                              ![draft].coverage = DraftCoverage(c)]
  BY <1>1, LenProperties DEF Create, account, Goto, CollectInv, DraftInv, Typed,
     CollectTyped, AccountInv, AccountTyped
<1>3. snap[draft] = NoRows
  BY <1>1, <1>2 DEF CollectInv, Unused
<1>4. Rows(c)' = snap'[draft]
  BY <1>1, <1>2 DEF Rows, Draft
<1>5. /\ Rows(c)'.staged = Nothing /\ Rows(c)'.verified = Nothing
  BY <1>2, <1>3, <1>4 DEF NoRows, CollectInv, DraftInv, Typed
<1>6. PICK new : new = Rows(c)'.staged /\ new = Nothing
  BY <1>5
<1>7. InFirst(c, new)'
  <2>1. (page'[c] - 1) * PageSize = 0
    BY <1>2, SyncAssumption
  <2>2. Counted({}, 0)
    <3>1. [i \in 1..0 |-> 0] \in [1..0 -> {}]
      OBVIOUS
    <3>2. QED
      BY <3>1 DEF Counted
  <2>3. PICK k : k = (page'[c] - 1) * PageSize
    OBVIOUS
  <2>4. Counted(new.stars, k)
    BY <1>6, <2>1, <2>2, <2>3 DEF Nothing
  <2>5. StarsInPart(c, new.stars)'
    BY <1>2, <1>6, <2>3, <2>4 DEF StarsInPart, Nothing
  <2>6. QED
    BY <1>2, <1>6, <2>5 DEF InFirst, NoLists, Nothing
<1>8. since'[c] \in 1..Len(past')
  BY <1>2
<1>9. QED
  BY <1>2, <1>5, <1>6, <1>7, <1>8 DEF Collected

(* The turn from the first collection to the second.                        *)
LEMMA TurnCollected ==
    ASSUME CollectInv, NEW c \in Call, BeginVerification(c), Grows
    PROVE  Collected(c)'
<1>1. PICK draft \in Snapshot : draft = Draft(c) /\ draft[1] = c
  BY DraftIsOwn DEF CollectInv, DraftInv
<1>2. PICK n, full, rows : n = Len(past) /\ full = WithLists(c) /\ rows = Rows(c)
  OBVIOUS
<1>3. /\ pc[c] = "turning" /\ UNCHANGED <<past, attempt, coverage, since, page>>
      /\ second'[c] = TRUE /\ pc'[c] = IF full THEN "lists" ELSE "stars"
      /\ snap' = [snap EXCEPT ![draft].marker = "collecting"] /\ rows.status = "building"
  BY <1>1, <1>2 DEF BeginVerification, account, reader, Goto, CollectInv, DraftInv, Typed,
     CollectTyped, Owns
<1>4. /\ Rows(c)'.staged = rows.staged /\ Rows(c)'.verified = rows.verified
  <2>1. Rows(c)' = snap'[draft] /\ rows = snap[draft]
    BY <1>1, <1>2, <1>3 DEF Rows, Draft
  <2>2. QED
    BY <1>3, <2>1 DEF CollectInv, DraftInv, Typed
<1>5. /\ Collected(c) /\ ~second[c] /\ page[c] = 1
  BY <1>3 DEF CollectInv, Placed, Drafting, Reading
<1>6. /\ rows.verified = Nothing /\ since[c] \in 1..n /\ InFirst(c, rows.staged)
      /\ n \in Nat /\ Len(past') = n /\ WithLists(c)' = full /\ since'[c] = since[c]
      /\ page'[c] = 1
  BY <1>2, <1>3, <1>5 DEF Collected, Drafting, Grows, WithLists
<1>7. PICK t \in since[c]..n : FirstDone(full, rows.staged, t, n)
  BY <1>2, <1>3, <1>6 DEF InFirst
<1>8. FirstDone(full, rows.staged, t, n)'
  <2>1. t \in 1..Len(past) /\ n \in 1..Len(past) /\ n \in n..Len(past')
    BY <1>2, <1>6
  <2>2. QED
    BY <1>7, <2>1, FirstStands
<1>9. InSecond(c, Nothing, n)'
  <2>1. CASE full
    BY <1>3, <2>1 DEF InSecond
  <2>2. CASE ~full
    <3>1. ListsRead(full, Nothing, n, n, {})'
      BY <2>2 DEF ListsRead, NoLists, Nothing
    <3>2. pc'[c] = "stars" /\ Nothing.stars = {} /\ n \in n..n
      BY <1>3, <1>6, <2>2 DEF Nothing
    <3>3. QED
      BY <1>6, <3>1, <3>2 DEF InSecond
  <2>3. QED
    BY <2>1, <2>2
<1>10. n \in since[c]..n
  BY <1>6
<1>11. QED
  BY <1>3, <1>4, <1>6, <1>8, <1>9, <1>10 DEF Collected

(* The second collection is done.                                           *)
LEMMA FinishCollected ==
    ASSUME CollectInv, NEW c \in Call, FinishVerification(c), Grows
    PROVE  Collected(c)'
<1>1. PICK draft \in Snapshot : draft = Draft(c) /\ draft[1] = c
  BY DraftIsOwn DEF CollectInv, DraftInv
<1>2. PICK n, full, rows : n = Len(past) /\ full = WithLists(c) /\ rows = Rows(c)
  OBVIOUS
<1>3. /\ pc[c] = "verifying" /\ UNCHANGED <<past, attempt, coverage, since, second>>
      /\ pc'[c] = "publishing"
      /\ snap' = [snap EXCEPT ![draft].marker = "verified"] /\ rows.status = "building"
  BY <1>1, <1>2 DEF FinishVerification, account, reader, Goto, CollectInv, DraftInv, Typed, Owns
<1>4. /\ Rows(c)'.staged = rows.staged /\ Rows(c)'.verified = rows.verified
  <2>1. Rows(c)' = snap'[draft] /\ rows = snap[draft]
    BY <1>1, <1>2, <1>3 DEF Rows, Draft
  <2>2. QED
    BY <1>3, <2>1 DEF CollectInv, DraftInv, Typed
<1>5. /\ Collected(c) /\ second[c]
  BY <1>3 DEF CollectInv, Placed
<1>6. PICK t \in since[c]..n, u \in since[c]..n :
         FirstDone(full, rows.staged, t, u) /\ InSecond(c, rows.verified, u)
  BY <1>2, <1>3, <1>5 DEF Collected, Drafting
<1>7. /\ since[c] \in 1..n /\ n \in Nat /\ Len(past') = n /\ WithLists(c)' = full
      /\ since'[c] = since[c] /\ second'[c]
  BY <1>2, <1>3, <1>5 DEF Collected, Drafting, Grows, WithLists
<1>8. FirstDone(full, rows.staged, t, u)'
  <2>1. t \in 1..Len(past) /\ u \in 1..Len(past) /\ u \in u..Len(past')
    BY <1>2, <1>6, <1>7
  <2>2. QED
    BY <1>6, <2>1, FirstStands
<1>9. PICK m \in u..n : ListsRead(full, rows.verified, m, n, {}) /\ StarsAgain(rows.verified.stars, m)
  BY <1>2, <1>3, <1>6 DEF InSecond
<1>10. ListsRead(full, rows.verified, m, n, {})' /\ StarsAgain(rows.verified.stars, m)'
  <2>1. m \in 1..Len(past) /\ n \in m..Len(past) /\ n \in n..Len(past')
    BY <1>2, <1>6, <1>7, <1>9
  <2>2. QED
    BY <1>9, <2>1, AgainStands, ReadsStand
<1>11. PICK new : new = rows.verified
  OBVIOUS
<1>12. InSecond(c, new, u)'
  BY <1>3, <1>7, <1>10, <1>11, SMTT(30) DEF InSecond
<1>13. QED
  BY <1>3, <1>4, <1>6, <1>7, <1>8, <1>11, <1>12 DEF Collected

(* What the calls remember keeps its type.                                  *)
LEMMA CollectTypes == AccountInv /\ DraftInv /\ CollectTyped /\ [Next]_vars => CollectTyped'
<1> SUFFICES ASSUME AccountInv, DraftInv, CollectTyped, [Next]_vars PROVE CollectTyped'
  OBVIOUS
<1>0. /\ stars \in Seq(Star) /\ past \in Seq(Contents) /\ Len(past) \in Nat
      /\ \A p : {s.repo : s \in StarPage(p)} \subseteq Repo
      /\ {x[1] : x \in ListsPage} \subseteq List
  <2>1. stars \in Seq(Star) /\ past \in Seq(Contents) /\ Len(past) \in Nat
    BY LenProperties DEF AccountInv, AccountTyped
  <2>2. \A p : StarPage(p) \subseteq Star
    BY <2>1, ElementOfSeq DEF StarPage
  <2>3. QED
    BY <2>1, <2>2 DEF Star, ListsPage, Account
<1>1. ASSUME NEW c \in Call, Acquire(c) PROVE CollectTyped'
  BY <1>1 DEF Acquire, FinalCoverage, CollectTyped, ListCoverage, account, reader
<1>2. ASSUME NEW c \in Call, Create(c) PROVE CollectTyped'
  BY <1>0, <1>2 DEF Create, CollectTyped, account
<1>3. ASSUME NEW c \in Call, ReadStars(c) PROVE CollectTyped'
  <2>1. UNCHANGED <<coverage, second, todo, since>>
    BY <1>3 DEF ReadStars
  <2>2. \/ UNCHANGED <<page, seen>>
        \/ /\ seen' = [seen EXCEPT ![c] = Met(c) \cup {s.repo : s \in StarPage(page[c])}]
           /\ page' = [page EXCEPT ![c] = IF NextPage(page[c]) THEN @ + 1 ELSE 1]
    BY <1>3 DEF ReadStars
  <2>3. Met(c) \subseteq Repo
    BY DEF Met, CollectTyped
  <2>4. seen' \in [Call -> SUBSET Repo] /\ page' \in [Call -> Nat \ {0}]
    <3>1. PICK ids, next : /\ ids = Met(c) \cup {s.repo : s \in StarPage(page[c])}
                           /\ next = IF NextPage(page[c]) THEN page[c] + 1 ELSE 1
      OBVIOUS
    <3>2. ids \in SUBSET Repo
      BY <1>0, <2>3, <3>1
    <3>3. next \in Nat \ {0}
      BY <3>1 DEF CollectTyped
    <3>4. \/ UNCHANGED <<page, seen>>
          \/ seen' = [seen EXCEPT ![c] = ids] /\ page' = [page EXCEPT ![c] = next]
      BY <2>2, <3>1
    <3>5. QED
      BY <3>2, <3>3, <3>4 DEF CollectTyped
  <2>5. QED
    BY <2>1, <2>4 DEF CollectTyped
<1>4. ASSUME NEW c \in Call, ReadLists(c) PROVE CollectTyped'
  BY <1>0, <1>4 DEF ReadLists, CollectTyped
<1>5. ASSUME NEW c \in Call, ReadItems(c) PROVE CollectTyped'
  BY <1>5 DEF ReadItems, CollectTyped
<1>6. ASSUME NEW c \in Call, BeginVerification(c) PROVE CollectTyped'
  BY <1>6 DEF BeginVerification, CollectTyped, reader
<1>7. CASE UNCHANGED <<coverage, second, page, seen, todo, since>>
  BY <1>7 DEF CollectTyped
<1>8. QED
  BY <1>1, <1>2, <1>3, <1>4, <1>5, <1>6, <1>7, ZenonT(60) DEF Next, Step, RecoverAbandoned,
     RefusePage, FinishVerification, Publish, BreakOff, FailDraft, AbandonDraft,
     Leave, Abort, Crash, Expire, Startup, Edit, Edited, StarIt, Unstar, AddItem,
     RemoveItem, DeleteList, reader, vars

\* What a step of a call leaves alone of the others: what they remember, and the
\* rows of their drafts, but those whose lease has ended may be failed.
Elsewhere(c) ==
    /\ \A d \in Call \ {c} : SameCall(d)
    /\ \A s \in Snapshot : s[1] # c =>
          \/ snap'[s] = snap[s]
          \/ Building(s) /\ snap'[s].status = "failed"

LEMMA StepsElsewhere ==
    ASSUME CollectInv, NEW c \in Call, Step(c) \/ Crash(c)
    PROVE  Elsewhere(c)
<1>0. /\ Typed /\ CollectTyped
      /\ pc \in [Call -> PC] /\ attempt \in [Call -> 1..MaxAttempts]
      /\ coverage \in [Call -> ListCoverage \ {"collecting"}]
      /\ second \in [Call -> BOOLEAN] /\ page \in [Call -> Nat \ {0}]
      /\ seen \in [Call -> SUBSET Repo] /\ todo \in [Call -> SUBSET List]
      /\ since \in [Call -> Nat] /\ DOMAIN snap = Snapshot
  BY DEF CollectInv, DraftInv, Typed, CollectTyped
<1>a. PICK draft \in Snapshot : draft = Draft(c) /\ draft[1] = c
  BY <1>0, DraftIsOwn
<1> USE DEF account, reader
<1>1. CASE Acquire(c)
  BY <1>0, <1>1 DEF Acquire, Goto, Elsewhere, SameCall
<1>2. CASE RecoverAbandoned(c)
  BY <1>0, <1>2 DEF RecoverAbandoned, Goto, Elsewhere, SameCall, Abandoned, FailedRows,
     Building, Typed
<1>3. CASE Create(c)
  BY <1>0, <1>a, <1>3 DEF Create, Goto, Elsewhere, SameCall
<1>4. ASSUME ReadStars(c) \/ ReadLists(c) \/ ReadItems(c) PROVE Elsewhere(c)
  <2>1. \A s \in Snapshot : s # draft => snap'[s] = snap[s]
    <3>1. UNCHANGED snap \/ \E batch : AppendBatch(c, batch)
      BY <1>4 DEF ReadStars, ReadLists, ReadItems
    <3>2. UNCHANGED attempt
      BY <1>4 DEF ReadStars, ReadLists, ReadItems
    <3>3. QED
      BY <1>0, <1>a, <3>1, <3>2, Appended
  <2>2. \A d \in Call \ {c} : pc'[d] = pc[d] /\ page'[d] = page[d] /\ seen'[d] = seen[d]
                              /\ todo'[d] = todo[d]
    BY <1>0, <1>4 DEF ReadStars, ReadLists, ReadItems, Goto
  <2>3. UNCHANGED <<coverage, since, second, attempt>>
    BY <1>4 DEF ReadStars, ReadLists, ReadItems
  <2>4. QED
    BY <1>a, <2>1, <2>2, <2>3 DEF Elsewhere, SameCall
<1>5. CASE BeginVerification(c)
  BY <1>0, <1>a, <1>5 DEF BeginVerification, Goto, Elsewhere, SameCall
<1>6. CASE FinishVerification(c)
  BY <1>0, <1>a, <1>6 DEF FinishVerification, Goto, Elsewhere, SameCall
<1>7. CASE Publish(c)
  BY <1>0, <1>a, <1>7 DEF Publish, Goto, Elsewhere, SameCall
<1>8. CASE FailDraft(c)
  BY <1>0, <1>a, <1>8 DEF FailDraft, Goto, Elsewhere, SameCall
<1>9. CASE RefusePage(c) \/ BreakOff(c) \/ AbandonDraft(c) \/ Leave(c) \/ Crash(c)
  BY <1>0, <1>9 DEF RefusePage, BreakOff, AbandonDraft, Leave, Crash, Goto, Elsewhere, SameCall
<1>10. QED
  BY <1>1, <1>2, <1>3, <1>4, <1>5, <1>6, <1>7, <1>8, <1>9 DEF Step

(* A call that does not move, whatever else is done.                        *)
LEMMA OthersUnmoved ==
    ASSUME CollectInv, NEW d \in Call, SameCall(d), Grows,
           \A s \in Snapshot : s[1] = d =>
              \/ snap'[s] = snap[s]
              \/ Building(s) /\ snap'[s].status = "failed"
    PROVE  Placed(d)' /\ Unused(d)' /\ Collected(d)'
<1>1. Placed(d)'
  BY DEF CollectInv, Placed, SameCall, WithLists
<1>2. Unused(d)'
  BY DEF CollectInv, Unused, SameCall, Building, NoRows
<1>3. Collected(d)'
  <2>1. Draft(d) \in Snapshot /\ Draft(d)[1] = d /\ Collected(d)
    BY DraftIsOwn DEF CollectInv, DraftInv
  <2>2. Rows(d) = snap[Draft(d)] /\ Rows(d)' = snap'[Draft(d)]
    BY DEF Rows, Draft, SameCall
  <2>3. Rows(d)' = Rows(d) \/ Rows(d)'.status # "building"
    BY <2>1, <2>2
  <2>4. QED
    BY <2>1, <2>3, CollectionGoesOn
<1>4. QED
  BY <1>1, <1>2, <1>3

(* The step of a call, as the call sees it.                                 *)
LEMMA OwnPlaced ==
    ASSUME CollectInv, NEW c \in Call, Step(c) \/ Crash(c), CollectTyped'
    PROVE  Placed(c)'
<1>0. /\ pc \in [Call -> PC] /\ coverage \in [Call -> ListCoverage \ {"collecting"}]
      /\ second \in [Call -> BOOLEAN] /\ page \in [Call -> Nat \ {0}] /\ Placed(c)
      /\ coverage' \in [Call -> ListCoverage \ {"collecting"}]
  BY DEF CollectInv, DraftInv, Typed, CollectTyped
<1> USE DEF account, reader, Goto, Placed, WithLists, Drafting, Reading
<1>1. CASE Acquire(c)
  BY <1>0, <1>1 DEF Acquire, FinalCoverage
<1>2. CASE RecoverAbandoned(c) \/ Create(c)
  BY <1>0, <1>2 DEF RecoverAbandoned, Create
<1>3. CASE ReadStars(c)
  BY <1>0, <1>3 DEF ReadStars, AfterStars
<1>4. CASE ReadLists(c)
  BY <1>0, <1>4 DEF ReadLists, AfterLists
<1>5. CASE ReadItems(c)
  BY <1>0, <1>5 DEF ReadItems, AfterLists
<1>6. CASE BeginVerification(c) \/ FinishVerification(c)
  BY <1>0, <1>6 DEF BeginVerification, FinishVerification
<1>7. CASE Publish(c)
  BY <1>0, <1>7 DEF Publish
<1>8. CASE FailDraft(c)
  BY <1>0, <1>8 DEF FailDraft
<1>9. CASE RefusePage(c) \/ BreakOff(c) \/ AbandonDraft(c) \/ Leave(c) \/ Crash(c)
  BY <1>0, <1>9 DEF RefusePage, BreakOff, AbandonDraft, Leave, Crash
<1>10. QED
  BY <1>1, <1>2, <1>3, <1>4, <1>5, <1>6, <1>7, <1>8, <1>9 DEF Step

(* No rows are left where the next draft will be created.                   *)
LEMMA OwnUnused ==
    ASSUME CollectInv, NEW c \in Call, Step(c) \/ Crash(c)
    PROVE  Unused(c)'
<1>0. /\ pc \in [Call -> PC] /\ attempt \in [Call -> 1..MaxAttempts] /\ Typed
      /\ DOMAIN snap = Snapshot /\ Unused(c) /\ attempt[c] \in Nat
  BY DEF CollectInv, DraftInv, Typed
<1>a. PICK draft \in Snapshot : draft = Draft(c) /\ draft[1] = c /\ draft[2] = attempt[c]
  BY <1>0, DraftIsOwn DEF Draft
<1>b. \A s \in Snapshot : s[1] = c /\ s[2] = attempt[c] => s = draft
  BY <1>a DEF Snapshot
<1> USE DEF account, reader, Goto, Unused
<1>1. CASE Acquire(c)
  BY <1>0, <1>1 DEF Acquire
<1>2. CASE RecoverAbandoned(c)
  BY <1>0, <1>2 DEF RecoverAbandoned, Abandoned, NoRows
<1>3. ASSUME \A s \in Snapshot : s # draft => snap'[s] = snap[s],
             UNCHANGED attempt, pc'[c] \notin {"idle", "recovering", "creating"}
      PROVE  Unused(c)'
  BY <1>0, <1>a, <1>3
<1>4. CASE Create(c)
  BY <1>0, <1>a, <1>3, <1>4 DEF Create
<1>5. CASE ReadStars(c) \/ ReadLists(c) \/ ReadItems(c)
  <2>1. UNCHANGED snap \/ \E batch : AppendBatch(c, batch)
    BY <1>5 DEF ReadStars, ReadLists, ReadItems
  <2>2. UNCHANGED attempt
    BY <1>5 DEF ReadStars, ReadLists, ReadItems
  <2>3. \A s \in Snapshot : s # draft => snap'[s] = snap[s]
    BY <1>0, <1>a, <2>1, <2>2, Appended
  <2>4. pc'[c] \notin {"idle", "recovering", "creating"}
    BY <1>0, <1>5 DEF ReadStars, ReadLists, ReadItems, AfterStars, AfterLists
  <2>5. QED
    BY <1>3, <2>2, <2>3, <2>4
<1>6. CASE BeginVerification(c)
  BY <1>0, <1>a, <1>3, <1>6 DEF BeginVerification
<1>7. CASE FinishVerification(c)
  BY <1>0, <1>a, <1>3, <1>7 DEF FinishVerification
<1>8. CASE Publish(c)
  BY <1>0, <1>a, <1>3, <1>8 DEF Publish
<1>9. CASE FailDraft(c)
  <2>1. \A s \in Snapshot : s # draft => snap'[s] = snap[s]
    BY <1>0, <1>a, <1>9 DEF FailDraft
  <2>2. CASE Again(c)
    <3>1. attempt'[c] = attempt[c] + 1
      BY <1>0, <1>9, <2>2 DEF FailDraft
    <3>2. ASSUME NEW s \in Snapshot, s[1] = c, s[2] >= attempt[c] + 1
          PROVE  snap'[s] = NoRows
      <4>1. s[2] > attempt[c] /\ s # draft
        BY <1>0, <1>a, <3>2 DEF Snapshot
      <4>2. QED
        BY <1>0, <2>1, <3>2, <4>1
    <3>3. \A s \in Snapshot : s[2] > attempt[c] + 1 \/ s[2] = attempt[c] + 1
                               => s[2] >= attempt[c] + 1
      BY <1>0 DEF Snapshot
    <3>4. QED
      BY <3>1, <3>2, <3>3
  <2>3. CASE ~Again(c)
    BY <1>0, <1>3, <1>9, <2>1, <2>3 DEF FailDraft
  <2>4. QED
    BY <2>2, <2>3
<1>10. CASE RefusePage(c) \/ BreakOff(c) \/ AbandonDraft(c) \/ Leave(c) \/ Crash(c)
  BY <1>0, <1>a, <1>3, <1>10 DEF RefusePage, BreakOff, AbandonDraft, Leave, Crash
<1>11. QED
  BY <1>1, <1>2, <1>4, <1>5, <1>6, <1>7, <1>8, <1>9, <1>10 DEF Step

(* Each step of a call keeps what is known of its own draft.                *)
LEMMA OwnCollected ==
    ASSUME CollectInv, NEW c \in Call, Step(c) \/ Crash(c), Grows
    PROVE  Collected(c)'
<1>0. pc \in [Call -> PC]
  BY DEF CollectInv, DraftInv, Typed
<1>1. CASE pc'[c] \notin Drafting
  BY <1>1 DEF Collected
<1>2. CASE ReadStars(c) /\ pc'[c] \in Drafting
  BY <1>2, StarsFirst, StarsSecond
<1>3. CASE ReadLists(c)
  BY <1>3, ListsCollected
<1>4. CASE ReadItems(c) /\ pc'[c] \in Drafting
  BY <1>4, ItemsCollected
<1>5. CASE Create(c)
  BY <1>5, CreateCollected
<1>6. CASE BeginVerification(c)
  BY <1>6, TurnCollected
<1>7. CASE FinishVerification(c)
  BY <1>7, FinishCollected
<1>8. CASE \/ Acquire(c) \/ RecoverAbandoned(c) \/ Publish(c) \/ FailDraft(c)
           \/ RefusePage(c) \/ BreakOff(c) \/ AbandonDraft(c) \/ Leave(c) \/ Crash(c)
  <2>1. pc'[c] \notin Drafting
    BY <1>0, <1>8 DEF Acquire, RecoverAbandoned, Publish, FailDraft, RefusePage,
       BreakOff, AbandonDraft, Leave, Crash, Goto, Drafting, Reading
  <2>2. QED
    BY <1>1, <2>1
<1>9. QED
  BY <1>1, <1>2, <1>3, <1>4, <1>5, <1>6, <1>7, <1>8 DEF Step

(* The invariant is inductive.                                              *)
LEMMA Collections == CollectInv /\ [Next]_vars => CollectInv'
<1> SUFFICES ASSUME CollectInv, [Next]_vars PROVE CollectInv'
  OBVIOUS
<1>1. AccountInv' /\ DraftInv' /\ CollectTyped' /\ Grows
  BY Accounts, Drafts, CollectTypes, PastGrows DEF CollectInv
<1>2. ASSUME NEW c \in Call, Step(c) \/ Crash(c), NEW d \in Call
      PROVE  Placed(d)' /\ Unused(d)' /\ Collected(d)'
  <2>1. CASE d = c
    BY <1>1, <1>2, <2>1, OwnPlaced, OwnUnused, OwnCollected
  <2>2. CASE d # c
    <3>1. SameCall(d) /\ \A s \in Snapshot : s[1] = d =>
              snap'[s] = snap[s] \/ (Building(s) /\ snap'[s].status = "failed")
      BY <1>2, <2>2, StepsElsewhere DEF Elsewhere
    <3>2. QED
      BY <1>1, <3>1, OthersUnmoved
  <2>3. QED
    BY <2>1, <2>2
<1>3. ASSUME NEW d \in Call,
             (\E c \in Call : Abort(c)) \/ Edit \/ Expire \/ Startup \/ UNCHANGED vars
      PROVE  Placed(d)' /\ Unused(d)' /\ Collected(d)'
  <2>1. SameCall(d)
    BY <1>3 DEF Abort, Edit, Edited, StarIt, Unstar, AddItem, RemoveItem, DeleteList,
       Expire, Startup, vars, reader, SameCall
  <2>2. \A s \in Snapshot : snap'[s] = snap[s]
                              \/ (Building(s) /\ snap'[s].status = "failed")
    <3>1. CASE Startup
      BY <3>1 DEF Startup, Abandoned, FailedRows, Building, CollectInv, DraftInv, Typed
    <3>2. CASE UNCHANGED snap
      BY <3>2
    <3>3. QED
      BY <1>3, <3>1, <3>2 DEF Abort, Edit, Edited, StarIt, Unstar, AddItem, RemoveItem,
         DeleteList, Expire, vars
  <2>3. QED
    BY <1>1, <2>1, <2>2, OthersUnmoved
<1>4. \A d \in Call : Placed(d)' /\ Unused(d)' /\ Collected(d)'
  BY <1>2, <1>3 DEF Next
<1>5. QED
  BY <1>1, <1>4 DEF CollectInv

(* At first nothing has been collected.                                     *)
LEMMA InitCollections == Init => CollectInv
<1> SUFFICES ASSUME Init PROVE CollectInv
  OBVIOUS
<1>1. AccountInv /\ DraftInv
  BY InitAccount, InitDrafts
<1>2. CollectTyped
  BY DEF Init, CollectTyped, ListCoverage
<1>3. ASSUME NEW c \in Call PROVE Placed(c) /\ Unused(c) /\ Collected(c)
  BY DEF Init, Placed, Unused, Collected, Drafting, Reading
<1>4. QED
  BY <1>1, <1>2, <1>3 DEF CollectInv

(* Only its own call makes a draft complete.                                *)
LEMMA WhoPublishes ==
    ASSUME CollectInv, [Next]_vars, NEW s \in Snapshot, Publishes(s)
    PROVE  \E c \in Call : Publish(c) /\ s = Draft(c)
<1>0. Typed /\ DOMAIN snap = Snapshot
  BY DEF CollectInv, DraftInv, Typed
<1>1. CASE Startup
  BY <1>0, <1>1 DEF Startup, FailedRows, Publishes, Typed
<1>2. CASE UNCHANGED snap
  BY <1>2 DEF Publishes
<1>3. ASSUME NEW c \in Call, Step(c), ~UNCHANGED snap PROVE Publish(c) /\ s = Draft(c)
  <2>1. PICK draft \in Snapshot : draft = Draft(c)
    BY <1>0, DraftIsOwn
  <2>2. CASE RecoverAbandoned(c)
    BY <1>0, <2>2 DEF RecoverAbandoned, FailedRows, Publishes, Typed
  <2>3. CASE Create(c)
    BY <1>0, <2>1, <2>3 DEF Create, Publishes, Typed
  <2>4. CASE ReadStars(c) \/ ReadLists(c) \/ ReadItems(c)
    <3>1. (\E batch : AppendBatch(c, batch)) /\ UNCHANGED attempt
      BY <1>3, <2>4 DEF ReadStars, ReadLists, ReadItems
    <3>2. snap'[draft].status = snap[draft].status
          /\ \A d \in Snapshot : d # draft => snap'[d] = snap[d]
      BY <1>0, <2>1, <3>1, Appended DEF Rows, Draft
    <3>3. QED
      BY <3>2 DEF Publishes
  <2>5. CASE BeginVerification(c)
    BY <1>0, <2>1, <2>5 DEF BeginVerification, Publishes, Typed
  <2>6. CASE FinishVerification(c)
    BY <1>0, <2>1, <2>6 DEF FinishVerification, Publishes, Typed
  <2>7. CASE Publish(c)
    <3>1. \A d \in Snapshot : d # draft => snap'[d] = snap[d]
      BY <1>0, <1>3, <2>1, <2>7 DEF Publish
    <3>2. QED
      BY <2>1, <2>7, <3>1 DEF Publishes
  <2>8. CASE FailDraft(c)
    BY <1>0, <2>1, <2>8 DEF FailDraft, FailedRows, Publishes, Typed
  <2>9. QED
    BY <1>3, <2>2, <2>3, <2>4, <2>5, <2>6, <2>7, <2>8 DEF Step, Acquire, RefusePage,
       BreakOff, AbandonDraft, Leave
<1>4. QED
  BY <1>1, <1>2, <1>3 DEF Next, Abort, Crash, Edit, Edited, StarIt, Unstar, AddItem,
     RemoveItem, DeleteList, Expire, vars

(* What is published was so: StarsAgree and ListsAgree, for two collections *)
(* that are equal.                                                          *)
LEMMA PublishedWasSo ==
    ASSUME ~Returns, CollectInv, NEW c \in Call, Publish(c), NEW s \in Snapshot,
           s = Draft(c), Publishes(s)
    PROVE  WasSo(snap'[s], since[c])
<1>1. PICK n, full, rows : n = Len(past) /\ full = WithLists(c) /\ rows = Rows(c)
  OBVIOUS
<1>2. /\ pc[c] = "publishing" /\ rows.status = "building" /\ ~Differs(rows)
      /\ snap'[s].staged = rows.staged /\ snap'[s].coverage = coverage[c]
  <2>1. ~(Orphans(Rows(c)) # {} \/ Differs(Rows(c)))
    BY DEF Publish, Publishes
  <2>2. snap' = [snap EXCEPT ![s].status = "complete", ![s].coverage = coverage[c],
                             ![s].marker = "none", ![s].verified = Nothing]
    BY <2>1 DEF Publish
  <2>3. rows = snap[s]
    BY <1>1 DEF Rows
  <2>4. QED
    BY <1>1, <2>1, <2>2, <2>3 DEF Publish, Owns, CollectInv, DraftInv, Typed
<1>3. /\ rows.staged = rows.verified /\ second[c] /\ AccountInv /\ n \in Nat
      /\ since[c] \in 1..n /\ coverage[c] \in {"complete", "unavailable", "omitted"}
      /\ past[n].stars = ToSet(stars)
  <2>1. Placed(c) /\ Collected(c) /\ AccountInv /\ n \in Nat
        /\ coverage[c] \in ListCoverage \ {"collecting"}
    BY <1>1, LenProperties DEF CollectInv, AccountInv, AccountTyped, CollectTyped
  <2>2. past[n].stars = ToSet(stars)
    BY <1>1, <2>1 DEF AccountInv, Account
  <2>3. second[c] /\ since[c] \in 1..n /\ coverage[c] \in {"complete", "unavailable", "omitted"}
    BY <1>1, <1>2, <2>1 DEF Placed, Collected, Drafting, ListCoverage
  <2>4. QED
    BY <1>2, <2>1, <2>2, <2>3 DEF Differs
<1>4. PICK t \in since[c]..n, u \in since[c]..n :
         FirstDone(full, rows.staged, t, u) /\ InSecond(c, rows.verified, u)
  BY <1>1, <1>2, <1>3 DEF CollectInv, Collected, Drafting
<1>5. PICK m \in u..n : ListsRead(full, rows.staged, m, n, {}) /\ StarsAgain(rows.staged.stars, m)
  BY <1>1, <1>2, <1>3, <1>4 DEF InSecond
<1>6. /\ rows.staged.stars = past[t].stars
      /\ rows.staged.stars \subseteq past[m].stars
      /\ (past[m].stars \ rows.staged.stars) \cap ToSet(stars) = {}
  <2>1. t \in 1..Len(past) /\ u \in 1..Len(past) /\ m \in u..Len(past)
    BY <1>1, <1>3, <1>4, <1>5
  <2>2. FirstDone(full, rows.staged, t, u) /\ StarsAgain(rows.staged.stars, m) /\ AccountInv
    BY <1>3, <1>4, <1>5
  <2>3. /\ rows.staged.stars = past[t].stars
        /\ rows.staged.stars \subseteq past[m].stars
        /\ (past[m].stars \ rows.staged.stars) \cap past[Len(past)].stars = {}
    BY <2>1, <2>2, StarsAgree, Zenon
  <2>4. QED
    BY <1>1, <1>3, <2>3
<1>7. PICK q \in t..u : ListsRead(full, rows.staged, q, u, {})
  BY <1>4 DEF FirstDone
<1>8. t \in since[c]..Len(past) /\ m \in t..Len(past)
  BY <1>1, <1>3, <1>4, <1>5, <1>7
<1>9. CASE full
  <2>1. ListsSince(rows.staged, q, u, {}) /\ ListsSince(rows.staged, m, Len(past), {})
    BY <1>1, <1>5, <1>7, <1>9 DEF ListsRead
  <2>2. q \in 1..Len(past) /\ u \in q..Len(past) /\ m \in u..Len(past)
    BY <1>1, <1>3, <1>4, <1>5, <1>7
  <2>3. rows.staged.lists = past[m].lists /\ rows.staged.items = past[m].items
    BY <1>3, <2>1, <2>2, ListsAgree
  <2>4. coverage[c] = "complete"
    BY <1>1, <1>9 DEF WithLists
  <2>5. QED
    BY <1>2, <1>6, <1>8, <2>3, <2>4 DEF WasSo
<1>10. CASE ~full
  <2>1. coverage[c] \in {"unavailable", "omitted"}
    BY <1>1, <1>3, <1>10 DEF WithLists
  <2>2. rows.staged.lists = {} /\ rows.staged.items = {}
    BY <1>5, <1>10 DEF ListsRead, NoLists
  <2>3. QED
    BY <1>2, <1>6, <1>8, <2>1, <2>2 DEF WasSo
<1>11. QED
  BY <1>9, <1>10

(* A published snapshot says nothing that was not so (completeSnapshot, with *)
(* the second collection of SYNC-04): whatever other calls and the owner of  *)
(* the account do meanwhile, if no item returns to a list it has left.       *)
THEOREM SnapshotsAreReal == ~Returns => (Spec => PublishedIsReal)
<1> SUFFICES ASSUME ~Returns PROVE Spec => PublishedIsReal
  OBVIOUS
<1>1. CollectInv /\ [Next]_vars =>
         [\A s \in Snapshot : Publishes(s) => WasSo(snap'[s], since[s[1]])]_vars
  <2>1. SUFFICES ASSUME CollectInv, [Next]_vars, NEW s \in Snapshot, Publishes(s)
                 PROVE  WasSo(snap'[s], since[s[1]])
    OBVIOUS
  <2>2. PICK c \in Call : Publish(c) /\ s = Draft(c)
    BY <2>1, WhoPublishes
  <2>3. s[1] = c
    BY <2>2 DEF Draft
  <2>4. QED
    BY <2>1, <2>2, <2>3, PublishedWasSo
<1>2. QED
  BY <1>1, InitCollections, Collections, PTL DEF Spec, PublishedIsReal

----------------------------------------------------------------------------
(* An account at rest: a draft that began in the present state of the       *)
(* account holds exactly what has been read of it.                          *)

\* All that a collection reads, the stars up to a position, and the items of the
\* lists that have been read.
WholeLists(c) == IF WithLists(c) THEN Account.lists ELSE {}
WholeItems(c) == IF WithLists(c) THEN Account.items ELSE {}
Before(k) == {stars[i] : i \in {j \in DOMAIN stars : j <= k}}
PageAt(k) == {stars[i] : i \in {j \in DOMAIN stars : k < j /\ j <= k + PageSize}}
Without(left) == {z \in Account.items : z[1] \notin left}

\* What a collection has read.
HasRead(c, rows) ==
    /\ pc[c] = "stars" =>
          /\ rows.stars = Before((page[c] - 1) * PageSize)
          /\ rows.lists = IF second[c] THEN WholeLists(c) ELSE {}
          /\ rows.items = IF second[c] THEN WholeItems(c) ELSE {}
          /\ page[c] # 1 => seen[c] = {x.repo : x \in rows.stars}
    /\ pc[c] \in {"lists", "items"} =>
          rows.stars = IF second[c] THEN {} ELSE Account.stars
    /\ pc[c] = "lists" => NoLists(rows)
    /\ pc[c] = "items" =>
          /\ rows.lists = Account.lists /\ rows.items = Without(todo[c])
          /\ \A l \in todo[c] : lists[l] > 0
    /\ pc[c] \in {"turning", "verifying", "publishing"} =>
          /\ rows.stars = Account.stars
          /\ rows.lists = WholeLists(c) /\ rows.items = WholeItems(c)

HoldsAll(c, rows) ==
    rows.stars = Account.stars /\ rows.lists = WholeLists(c) /\ rows.items = WholeItems(c)

AtRest(c) ==
    pc[c] \in Drafting /\ Rows(c).status = "building" /\ since[c] = Len(past) =>
        IF second[c] THEN HoldsAll(c, Rows(c).staged) /\ HasRead(c, Rows(c).verified)
                     ELSE HasRead(c, Rows(c).staged)

IsContents(rows) == rows = [stars |-> rows.stars, lists |-> rows.lists, items |-> rows.items]

RestInv ==
    /\ CollectInv
    /\ \A s \in Snapshot : IsContents(snap[s].staged) /\ IsContents(snap[s].verified)
    /\ \A c \in Call : AtRest(c)

(* One page after the other.                                                *)
LEMMA PageAfterPage ==
    ASSUME AccountInv, NEW m \in Nat
    PROVE  /\ Before(m) \cup PageAt(m) = Before(m + PageSize)
           /\ Len(stars) <= m + PageSize => Before(m + PageSize) = Account.stars
           /\ \A x \in Before(m) : \A y \in PageAt(m) : x.repo # y.repo
           /\ Before(0) = {}
<1>0. /\ stars \in Seq(Star) /\ Len(stars) \in Nat /\ DOMAIN stars = 1..Len(stars)
      /\ StarsAreOrdered /\ PageSize \in Nat \ {0}
  BY LenProperties, SyncAssumption DEF AccountInv, AccountTyped
<1>1. Before(m) \cup PageAt(m) = Before(m + PageSize)
  BY <1>0 DEF Before, PageAt
<1>2. Len(stars) <= m + PageSize => Before(m + PageSize) = Account.stars
  BY <1>0 DEF Before, Account, ToSet
<1>3. \A x \in Before(m) : \A y \in PageAt(m) : x.repo # y.repo
  <2>1. ASSUME NEW i \in DOMAIN stars, NEW j \in DOMAIN stars, i <= m, m < j
        PROVE  stars[i].repo # stars[j].repo
    <3>1. i < j
      BY <1>0, <2>1
    <3>2. QED
      BY <1>0, <3>1 DEF StarsAreOrdered
  <2>2. QED
    BY <2>1 DEF Before, PageAt
<1>4. Before(0) = {}
  BY <1>0 DEF Before
<1>5. QED
  BY <1>1, <1>2, <1>3, <1>4

(* The lists that the items of the account are on.                          *)
LEMMA ItemsOnLists ==
    ASSUME AccountInv
    PROVE  /\ Without({y[1] : y \in Account.lists}) = {}
           /\ Without({}) = Account.items
           /\ \A y \in Account.lists : lists[y[1]] > 0
           /\ \A left, l : l \in left /\ left \subseteq List =>
                 Without(left) \cup ItemsPage(l) = Without(left \ {l})
<1>0. /\ ItemsAreStarred /\ items \in [List -> SUBSET Repo]
      /\ \A z : z \in Account.items <=> z \in List \X Repo /\ z[2] \in items[z[1]]
      /\ \A y : y \in Account.lists <=> \E l \in List : y = <<l, lists[l]>> /\ lists[l] > 0
  BY DEF AccountInv, AccountTyped, Account
<1>1. ASSUME NEW z \in Account.items PROVE \E y \in Account.lists : y[1] = z[1]
  <2>1. z[1] \in List /\ lists[z[1]] > 0
    BY <1>0 DEF ItemsAreStarred
  <2>2. <<z[1], lists[z[1]]>> \in Account.lists
    BY <1>0, <2>1
  <2>3. QED
    BY <2>2
<1>2. Without({y[1] : y \in Account.lists}) = {} /\ Without({}) = Account.items
  BY <1>1 DEF Without
<1>3. \A y \in Account.lists : lists[y[1]] > 0
  BY <1>0
<1>4. ASSUME NEW left, NEW l \in left, left \subseteq List
      PROVE  Without(left) \cup ItemsPage(l) = Without(left \ {l})
  <2>1. \A z : z \in Without(left) \cup ItemsPage(l) => z \in Without(left \ {l})
    BY <1>0, <1>4 DEF Without, ItemsPage
  <2>2. \A z : z \in Without(left \ {l}) => z \in Without(left) \cup ItemsPage(l)
    <3>1. ASSUME NEW z \in Account.items, z[1] = l PROVE z \in ItemsPage(l)
      <4>1. z \in List \X Repo /\ z[2] \in items[z[1]]
        BY <1>0
      <4>2. z = <<l, z[2]>>
        BY <3>1, <4>1
      <4>3. QED
        BY <3>1, <4>1, <4>2 DEF ItemsPage
    <3>2. QED
      BY <3>1 DEF Without
  <2>3. QED
    BY <2>1, <2>2
<1>5. QED
  BY <1>2, <1>3, <1>4

(* In an account at rest no cursor is named twice.                          *)
LEMMA NoCursorRepeats ==
    ASSUME NEW c \in Call, since[c] = Len(past), Len(past) \in Nat
    PROVE  CursorRepeats(c) = {FALSE}
<1>1. ~(since[c] < Len(past))
  OBVIOUS
<1>2. QED
  BY <1>1 DEF CursorRepeats

(* A page of stars is not met a second time, and there is one page more.    *)
LEMMA StarsAtRest ==
    ASSUME RestInv, NEW c \in Call, ReadStars(c), Grows, since[c] = Len(past)
    PROVE  pc'[c] # "changed" /\ AtRest(c)'
<1>1. PICK m, found, n : /\ m = (page[c] - 1) * PageSize /\ found = StarPage(page[c])
                         /\ n = Len(past)
  OBVIOUS
<1>2. /\ pc[c] = "stars" /\ Owns(c) /\ Rows(c).status = "building"
      /\ UNCHANGED <<past, attempt, second, coverage, since, todo, stars, lists, items>>
      /\ AccountInv /\ Typed /\ CollectInv /\ CollectTyped /\ AtRest(c) /\ Placed(c)
      /\ page[c] \in Nat \ {0} /\ pc \in [Call -> PC] /\ page \in [Call -> Nat \ {0}]
      /\ seen \in [Call -> SUBSET Repo]
  BY DEF ReadStars, Owns, account, RestInv, CollectInv, DraftInv, Typed, CollectTyped
<1>3. /\ m \in Nat /\ page[c] * PageSize = m + PageSize
      /\ (page[c] + 1 - 1) * PageSize = m + PageSize
      /\ found = PageAt(m)
      /\ page[c] = 1 => m = 0
  BY <1>1, <1>2, Positions DEF StarPage, PageAt
<1>4. PICK old : old = IF second[c] THEN Rows(c).verified ELSE Rows(c).staged
  OBVIOUS
<1>5. /\ old.stars = Before(m)
      /\ old.lists = IF second[c] THEN WholeLists(c) ELSE {}
      /\ old.items = IF second[c] THEN WholeItems(c) ELSE {}
      /\ page[c] # 1 => seen[c] = {x.repo : x \in old.stars}
      /\ second[c] => HoldsAll(c, Rows(c).staged)
  <2>1. HasRead(c, old) /\ (second[c] => HoldsAll(c, Rows(c).staged))
    BY <1>2, <1>4 DEF AtRest, Drafting, Reading
  <2>2. QED
    BY <1>1, <1>2, <2>1 DEF HasRead
<1>6. /\ Before(m) \cup found = Before(m + PageSize)
      /\ Len(stars) <= m + PageSize => Before(m + PageSize) = Account.stars
      /\ \A x \in Before(m) : \A y \in found : x.repo # y.repo
      /\ Before(0) = {}
  <2>1. AccountInv /\ m \in Nat /\ found = PageAt(m)
    BY <1>2, <1>3
  <2>2. QED
    BY <2>1, PageAfterPage
<1>7. Met(c) = {x.repo : x \in old.stars}
  BY <1>3, <1>5, <1>6 DEF Met
<1>8. {s.repo : s \in found} \cap Met(c) = {}
  BY <1>5, <1>6, <1>7
<1>9. /\ AppendBatch(c, [Nothing EXCEPT !.stars = found])
      /\ seen' = [seen EXCEPT ![c] = Met(c) \cup {s.repo : s \in found}]
      /\ page' = [page EXCEPT ![c] = IF NextPage(page[c]) THEN @ + 1 ELSE 1]
      /\ IF NextPage(page[c]) THEN UNCHANGED pc ELSE Goto(c, AfterStars(c))
  <2>1. CursorRepeats(c) = {FALSE}
    BY <1>2, NoCursorRepeats, LenProperties DEF AccountInv, AccountTyped
  <2>2. QED
    BY <1>1, <1>8, <2>1 DEF ReadStars
<1>10. PICK new : new = IF second[c] THEN Rows(c)'.verified ELSE Rows(c)'.staged
  OBVIOUS
<1>11. /\ new.stars = Before(m + PageSize) /\ new.lists = old.lists /\ new.items = old.items
       /\ second[c] => Rows(c)'.staged = Rows(c).staged
       /\ second'[c] = second[c] /\ Len(past') = n
  <2>1. /\ second[c] => /\ Rows(c)'.staged = Rows(c).staged
                        /\ Rows(c)'.verified = Merged(Rows(c).verified, [Nothing EXCEPT !.stars = found])
        /\ ~second[c] => Rows(c)'.staged = Merged(Rows(c).staged, [Nothing EXCEPT !.stars = found])
    BY <1>2, <1>9, Appended
  <2>2. new = Merged(old, [Nothing EXCEPT !.stars = found])
    BY <1>4, <1>10, <2>1
  <2>3. QED
    BY <1>1, <1>2, <1>5, <1>6, <2>1, <2>2 DEF Merged, Nothing
<1>12. /\ Account' = Account /\ WholeLists(c)' = WholeLists(c) /\ WholeItems(c)' = WholeItems(c)
       /\ WithLists(c)' = WithLists(c)
       /\ \A k : Before(k)' = Before(k)
  BY <1>2 DEF Account, WholeLists, WholeItems, WithLists, Before
<1>13. second[c] => HoldsAll(c, Rows(c).staged)'
  BY <1>5, <1>11, <1>12 DEF HoldsAll
<1>14. CASE NextPage(page[c])
  <2>1. page'[c] = page[c] + 1 /\ pc'[c] = "stars"
    BY <1>2, <1>9, <1>14
  <2>2. seen'[c] = {x.repo : x \in new.stars}
    <3>1. seen'[c] = {x.repo : x \in Before(m)} \cup {x.repo : x \in found}
      BY <1>2, <1>5, <1>7, <1>9
    <3>2. QED
      BY <1>6, <1>11, <3>1
  <2>3. PICK k : k = (page'[c] - 1) * PageSize
    OBVIOUS
  <2>4. k = m + PageSize
    <3>1. page'[c] - 1 = page[c]
      BY <1>2, <2>1
    <3>2. QED
      BY <1>3, <2>3, <3>1
  <2>5. new.stars = Before(k)'
    BY <1>11, <1>12, <2>4
  <2>6. new.stars = Before((page[c] - 1) * PageSize)'
    BY <2>3, <2>5 DEF Before
  <2>7. HasRead(c, new)'
    BY <1>5, <1>11, <1>12, <2>1, <2>2, <2>6 DEF HasRead
  <2>8. QED
    BY <1>10, <1>11, <1>13, <2>1, <2>7 DEF AtRest
<1>15. CASE ~NextPage(page[c])
  <2>1. new.stars = Account.stars
    <3>1. Len(stars) <= m + PageSize
      <4>1. Len(stars) \in Nat /\ PageSize \in Nat
        BY <1>2, LenProperties, SyncAssumption DEF AccountInv, AccountTyped
      <4>2. QED
        BY <1>3, <1>15, <4>1 DEF NextPage
    <3>2. QED
      BY <1>6, <1>11, <3>1
  <2>2. pc'[c] = AfterStars(c)
    BY <1>2, <1>9, <1>15 DEF Goto
  <2>3. \/ new.lists = WholeLists(c) /\ new.items = WholeItems(c)
        \/ WithLists(c) /\ ~second[c]
    BY <1>5, <1>11 DEF WholeLists, WholeItems
  <2>4. HasRead(c, new)'
    <3>1. CASE second[c]
      BY <1>5, <1>11, <1>12, <2>1, <2>2, <3>1 DEF HasRead, AfterStars
    <3>2. CASE ~second[c]
      BY <1>5, <1>11, <1>12, <2>1, <2>2, <2>3, <3>2 DEF HasRead, AfterStars, NoLists
    <3>3. QED
      BY <3>1, <3>2
  <2>5. pc'[c] # "changed"
    BY <2>2 DEF AfterStars
  <2>6. QED
    BY <1>10, <1>11, <1>13, <2>4, <2>5 DEF AtRest
<1>16. QED
  BY <1>14, <1>15

(* What an append leaves at rest, when the account has not changed.         *)
LEMMA RestGoesOn ==
    ASSUME RestInv, NEW c \in Call, Owns(c), pc[c] \in Reading, since[c] = Len(past),
           UNCHANGED <<account, attempt, second, coverage, since>>,
           NEW batch, AppendBatch(c, batch), pc'[c] \in Drafting,
           NEW old, old = IF second[c] THEN Rows(c).verified ELSE Rows(c).staged,
           HasRead(c, Merged(old, batch))'
    PROVE  AtRest(c)'
<1>1. /\ Typed /\ AtRest(c) /\ pc[c] \in Drafting
  BY DEF RestInv, CollectInv, DraftInv, Drafting
<1>2. /\ Account' = Account /\ WholeLists(c)' = WholeLists(c) /\ WholeItems(c)' = WholeItems(c)
      /\ second'[c] = second[c]
  BY DEF account, Account, WholeLists, WholeItems, WithLists
<1>3. CASE second[c]
  <2>1. Rows(c)'.staged = Rows(c).staged /\ Rows(c)'.verified = Merged(old, batch)
    BY <1>1, <1>3, Appended
  <2>2. HoldsAll(c, Rows(c).staged)
    BY <1>1, <1>3 DEF AtRest, Owns
  <2>3. PICK st, vf : st = Rows(c).staged /\ vf = Merged(old, batch)
    OBVIOUS
  <2>4. HoldsAll(c, st)' /\ HasRead(c, vf)'
    <3>1. HoldsAll(c, st)'
      BY <1>2, <2>2, <2>3 DEF HoldsAll
    <3>2. vf = Merged(old, batch)'
      BY <2>3 DEF Merged
    <3>3. HasRead(c, vf)'
      BY <2>3 DEF Merged
    <3>4. QED
      BY <3>1, <3>3
  <2>5. QED
    BY <1>2, <1>3, <2>1, <2>3, <2>4 DEF AtRest
<1>4. CASE ~second[c]
  <2>1. Rows(c)'.staged = Merged(old, batch)
    BY <1>1, <1>4, Appended
  <2>2. PICK st : st = Merged(old, batch)
    OBVIOUS
  <2>3. HasRead(c, st)'
    BY <2>2 DEF Merged
  <2>4. QED
    BY <1>2, <1>4, <2>1, <2>2, <2>3 DEF AtRest
<1>5. QED
  BY <1>3, <1>4

(* What has been read when a list is to be read next.                       *)
LEMMA ReadAtRest ==
    ASSUME RestInv, NEW c \in Call, Owns(c), pc[c] \in Reading, since[c] = Len(past)
    PROVE  HasRead(c, IF second[c] THEN Rows(c).verified ELSE Rows(c).staged)
BY DEF RestInv, AtRest, Owns, Drafting

(* The lists of an account at rest.                                         *)
LEMMA ListsAtRest ==
    ASSUME RestInv, NEW c \in Call, ReadLists(c), Grows, since[c] = Len(past)
    PROVE  pc'[c] # "changed" /\ AtRest(c)'
<1>1. PICK found, left, old, batch : 
         /\ found = Account.lists /\ left = {y[1] : y \in found}
         /\ old = IF second[c] THEN Rows(c).verified ELSE Rows(c).staged
         /\ batch = [Nothing EXCEPT !.lists = found]
  OBVIOUS
<1>2. /\ pc[c] = "lists" /\ pc[c] \in Reading /\ Owns(c)
      /\ UNCHANGED <<account, attempt, second, coverage, since, page>>
      /\ AppendBatch(c, batch) /\ todo'[c] = left
      /\ pc'[c] = IF found = {} THEN AfterLists(c) ELSE "items"
      /\ AccountInv /\ WithLists(c) /\ page[c] = 1
  <2>1. /\ pc \in [Call -> PC] /\ todo \in [Call -> SUBSET List] /\ Placed(c)
        /\ AccountInv
    BY DEF RestInv, CollectInv, DraftInv, Typed, CollectTyped
  <2>2. pc[c] = "lists" /\ pc[c] \in Reading
    BY DEF ReadLists, Reading
  <2>3. WithLists(c) /\ page[c] = 1
    BY <2>1, <2>2 DEF Placed, Drafting, Reading
  <2>4. CursorRepeats(c) = {FALSE}
    BY <2>1, NoCursorRepeats, LenProperties DEF AccountInv, AccountTyped
  <2>5. QED
    BY <1>1, <2>1, <2>2, <2>3, <2>4 DEF ReadLists, ListsPage, Goto
<1>3. HasRead(c, old)
  BY <1>1, <1>2, ReadAtRest
<1>4. /\ old.stars = IF second[c] THEN {} ELSE Account.stars
      /\ old.lists = {} /\ old.items = {}
  BY <1>2, <1>3 DEF HasRead, NoLists
<1>5. PICK new : new = Merged(old, batch)
  OBVIOUS
<1>6. new.stars = old.stars /\ new.lists = found /\ new.items = {}
  BY <1>1, <1>4, <1>5 DEF Merged, Nothing
<1>7. /\ Without(left) = {} /\ \A l \in left : lists[l] > 0
      /\ left = {} => Account.items = {}
      /\ found = {} => left = {}
  BY <1>1, <1>2, ItemsOnLists
<1>8. /\ Account' = Account /\ Without(left)' = Without(left)
      /\ WholeLists(c)' = Account.lists /\ WholeItems(c)' = Account.items
      /\ second'[c] = second[c] /\ lists' = lists
  BY <1>2 DEF account, Account, Without, WholeLists, WholeItems, WithLists
<1>9. HasRead(c, new)'
  <2>1. CASE found = {}
    <3>1. CASE second[c]
      <4>1. pc'[c] = "stars" /\ page'[c] = 1
        BY <1>2, <2>1, <3>1 DEF AfterLists
      <4>2. Before((page[c] - 1) * PageSize)' = {}
        <5>1. PICK k : k = (page'[c] - 1) * PageSize
          OBVIOUS
        <5>2. k = 0
          BY <4>1, <5>1, SyncAssumption
        <5>3. Before(0) = {}
          <6>1. 0 \in Nat
            OBVIOUS
          <6>2. QED
            BY <1>2, <6>1, PageAfterPage
        <5>4. Before(0)' = Before(0)
          BY <1>2 DEF Before, account
        <5>5. QED
          BY <5>1, <5>2, <5>3, <5>4 DEF Before
      <4>3. QED
        BY <1>1, <1>4, <1>6, <1>7, <1>8, <2>1, <3>1, <4>1, <4>2 DEF HasRead
    <3>2. CASE ~second[c]
      <4>1. pc'[c] = "turning"
        BY <1>2, <2>1, <3>2 DEF AfterLists
      <4>2. QED
        BY <1>1, <1>4, <1>6, <1>7, <1>8, <2>1, <3>2, <4>1 DEF HasRead
    <3>3. QED
      BY <3>1, <3>2
  <2>2. CASE found # {}
    <3>1. pc'[c] = "items"
      BY <1>2, <2>2
    <3>2. Without(todo[c])' = {}
      BY <1>2, <1>7, <1>8 DEF Without
    <3>3. QED
      BY <1>1, <1>2, <1>4, <1>6, <1>7, <1>8, <3>1, <3>2 DEF HasRead
  <2>3. QED
    BY <2>1, <2>2
<1>10. pc'[c] \in Drafting
  BY <1>2 DEF AfterLists, Drafting, Reading
<1>11. HasRead(c, Merged(old, batch))'
  <2>1. Merged(old, batch)' = new
    BY <1>5 DEF Merged
  <2>2. QED
    BY <1>5, <1>9 DEF Merged
<1>12. AtRest(c)'
  BY <1>1, <1>2, <1>10, <1>11, RestGoesOn
<1>13. QED
  BY <1>10, <1>12 DEF Drafting, Reading

(* The items of a list, which is still found.                               *)
LEMMA ItemsAtRest ==
    ASSUME RestInv, NEW c \in Call, ReadItems(c), Grows, since[c] = Len(past)
    PROVE  pc'[c] # "changed" /\ AtRest(c)'
<1>1. PICK left, old : 
         /\ left = todo[c]
         /\ old = IF second[c] THEN Rows(c).verified ELSE Rows(c).staged
  OBVIOUS
<1>2. /\ pc[c] = "items" /\ pc[c] \in Reading /\ Owns(c) /\ pc \in [Call -> PC]
      /\ UNCHANGED <<account, attempt, second, coverage, since, page>>
      /\ AccountInv /\ WithLists(c) /\ page[c] = 1
      /\ left \subseteq List /\ todo \in [Call -> SUBSET List]
  <2>1. /\ pc \in [Call -> PC] /\ todo \in [Call -> SUBSET List] /\ Placed(c)
        /\ AccountInv
    BY DEF RestInv, CollectInv, DraftInv, Typed, CollectTyped
  <2>2. pc[c] = "items" /\ pc[c] \in Reading
    BY DEF ReadItems, Reading
  <2>3. WithLists(c) /\ page[c] = 1
    BY <2>1, <2>2 DEF Placed, Drafting, Reading
  <2>4. QED
    BY <1>1, <2>1, <2>2, <2>3 DEF ReadItems
<1>3. HasRead(c, old)
  BY <1>1, <1>2, ReadAtRest
<1>4. /\ old.stars = IF second[c] THEN {} ELSE Account.stars
      /\ old.lists = Account.lists /\ old.items = Without(left)
      /\ \A l \in left : lists[l] > 0
  BY <1>1, <1>2, <1>3 DEF HasRead
<1>5. PICK l \in left :
         /\ AppendBatch(c, [Nothing EXCEPT !.items = ItemsPage(l)])
         /\ todo' = [todo EXCEPT ![c] = @ \ {l}]
         /\ IF left = {l} THEN Goto(c, AfterLists(c)) ELSE UNCHANGED pc
  <2>1. \A l \in left : ~NotFound(l)
    BY <1>4 DEF NotFound
  <2>2. CursorRepeats(c) = {FALSE}
    BY <1>2, NoCursorRepeats, LenProperties DEF AccountInv, AccountTyped
  <2>3. QED
    BY <1>1, <2>1, <2>2 DEF ReadItems
<1>6. /\ todo'[c] = left \ {l} /\ pc'[c] = IF left = {l} THEN AfterLists(c) ELSE "items"
  BY <1>1, <1>2, <1>5 DEF Goto
<1>7. PICK batch, rest : batch = [Nothing EXCEPT !.items = ItemsPage(l)] /\ rest = left \ {l}
  OBVIOUS
<1>8. PICK new : new = Merged(old, batch)
  OBVIOUS
<1>9. new.stars = old.stars /\ new.lists = Account.lists /\ new.items = Without(rest)
  <2>1. Without(left) \cup ItemsPage(l) = Without(rest)
    BY <1>2, <1>5, <1>7, ItemsOnLists
  <2>2. QED
    BY <1>4, <1>7, <1>8, <2>1 DEF Merged, Nothing
<1>10. rest = {} => Without(rest) = Account.items
  BY <1>2, ItemsOnLists
<1>11. /\ Account' = Account /\ Without(rest)' = Without(rest)
       /\ WholeLists(c)' = Account.lists /\ WholeItems(c)' = Account.items
       /\ second'[c] = second[c] /\ lists' = lists
  BY <1>2 DEF account, Account, Without, WholeLists, WholeItems, WithLists
<1>12. HasRead(c, new)'
  <2>1. CASE left = {l}
    <3>0. rest = {}
      BY <1>7, <2>1
    <3>1. CASE second[c]
      <4>1. pc'[c] = "stars" /\ page'[c] = 1
        BY <1>2, <1>6, <2>1, <3>1 DEF AfterLists
      <4>2. Before((page[c] - 1) * PageSize)' = {}
        <5>1. PICK k : k = (page'[c] - 1) * PageSize
          OBVIOUS
        <5>2. k = 0
          BY <4>1, <5>1, SyncAssumption
        <5>3. Before(0) = {}
          <6>1. 0 \in Nat
            OBVIOUS
          <6>2. QED
            BY <1>2, <6>1, PageAfterPage
        <5>4. Before(0)' = Before(0)
          BY <1>2 DEF Before, account
        <5>5. QED
          BY <5>1, <5>2, <5>3, <5>4 DEF Before
      <4>3. QED
        BY <1>4, <1>9, <1>10, <1>11, <3>0, <3>1, <4>1, <4>2 DEF HasRead
    <3>2. CASE ~second[c]
      <4>1. pc'[c] = "turning"
        BY <1>6, <2>1, <3>2 DEF AfterLists
      <4>2. QED
        BY <1>4, <1>9, <1>10, <1>11, <3>0, <3>2, <4>1 DEF HasRead
    <3>3. QED
      BY <3>1, <3>2
  <2>2. CASE left # {l}
    <3>1. pc'[c] = "items"
      BY <1>6, <2>2
    <3>2. Without(todo[c])' = new.items
      BY <1>6, <1>7, <1>9, <1>11 DEF Without
    <3>3. QED
      BY <1>4, <1>6, <1>9, <1>11, <3>1, <3>2 DEF HasRead
  <2>3. QED
    BY <2>1, <2>2
<1>13. pc'[c] \in Drafting
  BY <1>6 DEF AfterLists, Drafting, Reading
<1>14. HasRead(c, Merged(old, batch))'
  BY <1>8, <1>12 DEF Merged
<1>15. AtRest(c)'
  BY <1>1, <1>2, <1>5, <1>7, <1>13, <1>14, RestGoesOn
<1>16. QED
  BY <1>13, <1>15 DEF Drafting, Reading

(* The beginning, the turn and the end of the collections.                  *)
LEMMA CreateAtRest ==
    ASSUME RestInv, NEW c \in Call, Create(c), Grows
    PROVE  AtRest(c)'
<1>1. PICK draft \in Snapshot : draft = Draft(c) /\ draft[1] = c /\ draft[2] = attempt[c]
  BY DraftIsOwn DEF RestInv, CollectInv, DraftInv, Draft
<1>2. /\ pc[c] = "creating" /\ UNCHANGED <<account, attempt>>
      /\ pc'[c] = "stars" /\ second'[c] = FALSE /\ page'[c] = 1
      /\ snap' = [snap EXCEPT ![draft].status = "building",
                              ![draft].coverage = DraftCoverage(c)]
      /\ AccountInv
  BY <1>1 DEF Create, Goto, RestInv, CollectInv, DraftInv, Typed, CollectTyped
<1>3. snap[draft] = NoRows
  BY <1>1, <1>2 DEF RestInv, CollectInv, Unused
<1>4. Rows(c)' = snap'[draft]
  BY <1>1, <1>2 DEF Rows, Draft
<1>5. Rows(c)'.staged = Nothing
  BY <1>2, <1>3, <1>4 DEF NoRows, RestInv, CollectInv, DraftInv, Typed
<1>6. Before((page[c] - 1) * PageSize)' = {}
  <2>1. PICK k : k = (page'[c] - 1) * PageSize
    OBVIOUS
  <2>2. k = 0
    BY <1>2, <2>1, SyncAssumption
  <2>3. Before(0) = {}
    <3>1. 0 \in Nat
      OBVIOUS
    <3>2. QED
      BY <1>2, <3>1, PageAfterPage
  <2>4. Before(0)' = Before(0)
    BY <1>2 DEF Before, account
  <2>5. QED
    BY <2>1, <2>2, <2>3, <2>4 DEF Before
<1>7. PICK new : new = Rows(c)'.staged /\ new = Nothing
  BY <1>5
<1>8. HasRead(c, new)'
  BY <1>2, <1>6, <1>7 DEF HasRead, Nothing
<1>9. QED
  BY <1>2, <1>7, <1>8 DEF AtRest

LEMMA TurnAtRest ==
    ASSUME RestInv, NEW c \in Call, BeginVerification(c), since[c] = Len(past)
    PROVE  AtRest(c)'
<1>1. PICK draft \in Snapshot : draft = Draft(c) /\ draft[1] = c
  BY DraftIsOwn DEF RestInv, CollectInv, DraftInv
<1>2. PICK full, rows : full = WithLists(c) /\ rows = Rows(c)
  OBVIOUS
<1>3. /\ pc[c] = "turning" /\ UNCHANGED <<account, attempt, coverage, since, page>>
      /\ second'[c] = TRUE /\ pc'[c] = IF full THEN "lists" ELSE "stars"
      /\ snap' = [snap EXCEPT ![draft].marker = "collecting"] /\ rows.status = "building"
      /\ Typed /\ AccountInv /\ Placed(c) /\ Collected(c) /\ AtRest(c)
  BY <1>1, <1>2 DEF BeginVerification, reader, Goto, RestInv, CollectInv, DraftInv, Typed,
     CollectTyped, Owns
<1>4. /\ Rows(c)'.staged = rows.staged /\ Rows(c)'.verified = rows.verified
  <2>1. Rows(c)' = snap'[draft] /\ rows = snap[draft]
    BY <1>1, <1>2, <1>3 DEF Rows, Draft
  <2>2. QED
    BY <1>3, <2>1 DEF Typed
<1>5. ~second[c] /\ page[c] = 1 /\ rows.verified = Nothing
  BY <1>2, <1>3 DEF Placed, Collected, Drafting, Reading
<1>6. HoldsAll(c, rows.staged)
  BY <1>2, <1>3, <1>5 DEF AtRest, HasRead, HoldsAll, Drafting
<1>7. /\ Account' = Account /\ WholeLists(c)' = WholeLists(c) /\ WholeItems(c)' = WholeItems(c)
      /\ WithLists(c)' = full
  BY <1>2, <1>3 DEF account, Account, WholeLists, WholeItems, WithLists
<1>8. PICK st : st = rows.staged /\ HoldsAll(c, st)'
  BY <1>6, <1>7 DEF HoldsAll
<1>9. HasRead(c, Nothing)'
  <2>1. CASE full
    BY <1>3, <2>1 DEF HasRead, NoLists, Nothing
  <2>2. CASE ~full
    <3>1. pc'[c] = "stars" /\ page'[c] = 1
      BY <1>3, <1>5, <2>2
    <3>2. Before((page[c] - 1) * PageSize)' = {}
      <4>1. PICK k : k = (page'[c] - 1) * PageSize
        OBVIOUS
      <4>2. k = 0
        BY <3>1, <4>1, SyncAssumption
      <4>3. Before(0) = {}
        <5>1. 0 \in Nat
          OBVIOUS
        <5>2. QED
          BY <1>3, <5>1, PageAfterPage
      <4>4. Before(0)' = Before(0)
        BY <1>3 DEF Before, account
      <4>5. QED
        BY <4>1, <4>2, <4>3, <4>4 DEF Before
    <3>3. WholeLists(c)' = {} /\ WholeItems(c)' = {}
      BY <1>7, <2>2 DEF WholeLists, WholeItems
    <3>4. QED
      BY <1>3, <3>1, <3>2, <3>3 DEF HasRead, Nothing
  <2>3. QED
    BY <2>1, <2>2
<1>10. QED
  BY <1>3, <1>4, <1>5, <1>8, <1>9 DEF AtRest

LEMMA FinishAtRest ==
    ASSUME RestInv, NEW c \in Call, FinishVerification(c), since[c] = Len(past)
    PROVE  AtRest(c)'
<1>1. PICK draft \in Snapshot : draft = Draft(c) /\ draft[1] = c
  BY DraftIsOwn DEF RestInv, CollectInv, DraftInv
<1>2. PICK rows : rows = Rows(c)
  OBVIOUS
<1>3. /\ pc[c] = "verifying" /\ UNCHANGED <<account, attempt, coverage, since, second>>
      /\ pc'[c] = "publishing"
      /\ snap' = [snap EXCEPT ![draft].marker = "verified"] /\ rows.status = "building"
      /\ Typed /\ Placed(c) /\ AtRest(c)
  BY <1>1, <1>2 DEF FinishVerification, Goto, RestInv, CollectInv, DraftInv, Typed, Owns
<1>4. /\ Rows(c)'.staged = rows.staged /\ Rows(c)'.verified = rows.verified
  <2>1. Rows(c)' = snap'[draft] /\ rows = snap[draft]
    BY <1>1, <1>2, <1>3 DEF Rows, Draft
  <2>2. QED
    BY <1>3, <2>1 DEF Typed
<1>5. second[c] /\ HoldsAll(c, rows.staged) /\ HoldsAll(c, rows.verified)
  BY <1>2, <1>3 DEF Placed, AtRest, HasRead, HoldsAll, Drafting
<1>6. /\ Account' = Account /\ WholeLists(c)' = WholeLists(c) /\ WholeItems(c)' = WholeItems(c)
  BY <1>3 DEF account, Account, WholeLists, WholeItems, WithLists
<1>7. PICK st, vf : st = rows.staged /\ vf = rows.verified /\ HoldsAll(c, st)' /\ HasRead(c, vf)'
  <2>1. PICK st, vf : st = rows.staged /\ vf = rows.verified
    OBVIOUS
  <2>2. HoldsAll(c, st)' /\ HasRead(c, vf)'
    BY <1>3, <1>5, <1>6, <2>1 DEF HoldsAll, HasRead
  <2>3. QED
    BY <2>1, <2>2
<1>8. QED
  BY <1>3, <1>4, <1>5, <1>7 DEF AtRest

(* Nothing is wrong with two collections of the same account.               *)
LEMMA PublishAtRest ==
    ASSUME RestInv, NEW c \in Call, Publish(c), since[c] = Len(past)
    PROVE  pc'[c] # "changed"
<1>1. PICK rows : rows = Rows(c)
  OBVIOUS
<1>2. /\ pc[c] = "publishing" /\ rows.status = "building" /\ AtRest(c) /\ Placed(c)
      /\ IsContents(rows.staged) /\ IsContents(rows.verified) /\ AccountInv
      /\ pc \in [Call -> PC]
  <2>1. Draft(c) \in Snapshot
    BY DraftIsOwn DEF RestInv, CollectInv, DraftInv
  <2>2. QED
    BY <1>1, <2>1 DEF Publish, Owns, RestInv, CollectInv, DraftInv, Typed, Rows
<1>3. HoldsAll(c, rows.staged) /\ HoldsAll(c, rows.verified)
  BY <1>1, <1>2 DEF Placed, AtRest, HasRead, HoldsAll, Drafting
<1>4. rows.staged = rows.verified
  BY <1>2, <1>3 DEF IsContents, HoldsAll
<1>5. Orphans(rows) = {}
  <2>1. ASSUME NEW y \in rows.staged.items
        PROVE  /\ \E l \in rows.staged.lists : l[1] = y[1]
               /\ \E s \in rows.staged.stars : s.repo = y[2]
    <3>1. y \in Account.items /\ rows.staged.lists = Account.lists
          /\ rows.staged.stars = ToSet(stars)
      BY <1>3, <2>1 DEF HoldsAll, WholeLists, WholeItems, Account
    <3>2. y \in List \X Repo /\ y[2] \in items[y[1]]
      BY <3>1 DEF Account
    <3>3. lists[y[1]] > 0 /\ \E i \in DOMAIN stars : stars[i].repo = y[2]
      BY <1>2, <3>2 DEF AccountInv, ItemsAreStarred
    <3>4. <<y[1], lists[y[1]]>> \in Account.lists
      BY <3>2, <3>3 DEF Account
    <3>5. \E s \in ToSet(stars) : s.repo = y[2]
      BY <3>3 DEF ToSet
    <3>6. QED
      BY <3>1, <3>4, <3>5
  <2>2. QED
    BY <2>1 DEF Orphans
<1>6. pc'[c] = "leaving"
  BY <1>1, <1>2, <1>4, <1>5 DEF Publish, Differs, Goto
<1>7. QED
  BY <1>6

(* The rows of every draft are contents.                                    *)
LEMMA Shapes ==
    ASSUME RestInv, [Next]_vars
    PROVE  \A s \in Snapshot : IsContents(snap[s].staged)' /\ IsContents(snap[s].verified)'
<1>0. Typed /\ DOMAIN snap = Snapshot
      /\ \A s \in Snapshot : IsContents(snap[s].staged) /\ IsContents(snap[s].verified)
  BY DEF RestInv, CollectInv, DraftInv, Typed
<1>1. IsContents(Nothing) /\ \A old, batch : IsContents(Merged(old, batch))
  BY DEF IsContents, Nothing, Merged
<1>2. \A s \in Snapshot : /\ snap'[s].staged \in {snap[s].staged, Nothing}
                              \/ \E batch : snap'[s].staged = Merged(snap[s].staged, batch)
                          /\ snap'[s].verified \in {snap[s].verified, Nothing}
                              \/ \E batch : snap'[s].verified = Merged(snap[s].verified, batch)
  <2> TAKE s \in Snapshot
  <2>1. CASE UNCHANGED snap
    BY <2>1
  <2>2. CASE Startup
    BY <1>0, <2>2 DEF Startup, FailedRows, Typed
  <2>3. ASSUME NEW c \in Call, Step(c), ~UNCHANGED snap
        PROVE  /\ snap'[s].staged \in {snap[s].staged, Nothing}
                   \/ \E batch : snap'[s].staged = Merged(snap[s].staged, batch)
               /\ snap'[s].verified \in {snap[s].verified, Nothing}
                   \/ \E batch : snap'[s].verified = Merged(snap[s].verified, batch)
    <3>1. PICK draft \in Snapshot : draft = Draft(c)
      BY <1>0, DraftIsOwn
    <3>2. CASE RecoverAbandoned(c)
      BY <1>0, <3>2 DEF RecoverAbandoned, FailedRows, Typed
    <3>3. CASE Create(c)
      BY <1>0, <3>1, <3>3 DEF Create, Typed
    <3>4. CASE ReadStars(c) \/ ReadLists(c) \/ ReadItems(c)
      <4>1. PICK batch : AppendBatch(c, batch) /\ UNCHANGED attempt
        BY <2>3, <3>4 DEF ReadStars, ReadLists, ReadItems
      <4>2. Rows(c) = snap[draft] /\ Rows(c)' = snap'[draft]
        BY <3>1, <4>1 DEF Rows, Draft
      <4>3. second[c] \in BOOLEAN
        BY DEF RestInv, CollectInv, CollectTyped
      <4>4. QED
        BY <1>0, <3>1, <4>1, <4>2, <4>3, Appended
    <3>5. CASE BeginVerification(c)
      BY <1>0, <3>1, <3>5 DEF BeginVerification, Typed
    <3>6. CASE FinishVerification(c)
      BY <1>0, <3>1, <3>6 DEF FinishVerification, Typed
    <3>7. CASE Publish(c)
      BY <1>0, <3>1, <3>7 DEF Publish, Typed
    <3>8. CASE FailDraft(c)
      BY <1>0, <3>1, <3>8 DEF FailDraft, FailedRows, Typed
    <3>9. QED
      BY <2>3, <3>2, <3>3, <3>4, <3>5, <3>6, <3>7, <3>8 DEF Step, Acquire, RefusePage,
         BreakOff, AbandonDraft, Leave
  <2>4. QED
    BY <2>1, <2>2, <2>3 DEF Next, Abort, Crash, Edit, Edited, StarIt, Unstar, AddItem,
       RemoveItem, DeleteList, Expire, vars
<1>3. ASSUME NEW s \in Snapshot
      PROVE  IsContents(snap'[s].staged) /\ IsContents(snap'[s].verified)
  BY <1>0, <1>1, <1>2
<1>4. QED
  BY <1>3

(* A call that does not move, while the account does not change.            *)
LEMMA RestStands ==
    ASSUME RestInv, NEW d \in Call, SameCall(d), UNCHANGED account,
           Rows(d)' = Rows(d) \/ Rows(d)'.status # "building"
    PROVE  AtRest(d)'
<1>1. PICK rows : rows = Rows(d)
  OBVIOUS
<1>2. AtRest(d)
  BY DEF RestInv
<1>3. /\ Account' = Account /\ WholeLists(d)' = WholeLists(d) /\ WholeItems(d)' = WholeItems(d)
      /\ past' = past /\ stars' = stars /\ lists' = lists
  BY DEF account, Account, WholeLists, WholeItems, WithLists, SameCall
<1>4. PICK st, vf : st = rows.staged /\ vf = rows.verified
  OBVIOUS
<1>5. ASSUME NEW x, HasRead(d, x) PROVE HasRead(d, x)'
  BY <1>3, <1>5 DEF HasRead, SameCall, Before, Without, NoLists
<1>6. ASSUME NEW x, HoldsAll(d, x) PROVE HoldsAll(d, x)'
  BY <1>3, <1>6 DEF HoldsAll
<1>7. CASE Rows(d)' = rows
  <2>1. ASSUME pc[d] \in Drafting, rows.status = "building", since[d] = Len(past)
        PROVE  IF second[d] THEN HoldsAll(d, st)' /\ HasRead(d, vf)' ELSE HasRead(d, st)'
    BY <1>1, <1>2, <1>4, <1>5, <1>6, <2>1 DEF AtRest
  <2>2. QED
    BY <1>3, <1>4, <1>7, <2>1 DEF AtRest, SameCall
<1>8. QED
  BY <1>1, <1>7 DEF AtRest

(* The invariant is inductive.                                              *)
LEMMA AllAtRest == RestInv /\ [Next]_vars => RestInv'
<1> SUFFICES ASSUME RestInv, [Next]_vars PROVE RestInv'
  OBVIOUS
<1>0. CollectInv /\ CollectInv' /\ Grows
  BY Collections, PastGrows DEF RestInv, CollectInv
<1>1. \A s \in Snapshot : IsContents(snap[s].staged)' /\ IsContents(snap[s].verified)'
  BY Shapes
<1>2. ASSUME NEW d \in Call, SameCall(d), UNCHANGED account,
             \A s \in Snapshot : s[1] = d =>
                 snap'[s] = snap[s] \/ (Building(s) /\ snap'[s].status = "failed")
      PROVE  AtRest(d)'
  <2>1. Draft(d) \in Snapshot /\ Draft(d)[1] = d
    BY <1>0, DraftIsOwn DEF CollectInv, DraftInv
  <2>2. Rows(d) = snap[Draft(d)] /\ Rows(d)' = snap'[Draft(d)]
    BY <1>2 DEF Rows, Draft, SameCall
  <2>3. Rows(d)' = Rows(d) \/ Rows(d)'.status # "building"
    BY <1>2, <2>1, <2>2
  <2>4. QED
    BY <1>2, <2>3, RestStands
<1>3. ASSUME NEW c \in Call, Step(c) \/ Crash(c) PROVE AtRest(c)'
  <2>0. UNCHANGED account /\ pc \in [Call -> PC]
    BY <1>0, <1>3 DEF Step, Crash, Acquire, RecoverAbandoned, Create, ReadStars, ReadLists,
       ReadItems, RefusePage, BeginVerification, FinishVerification, Publish, BreakOff,
       FailDraft, AbandonDraft, Leave, CollectInv, DraftInv, Typed
  <2>1. CASE since'[c] # Len(past') \/ pc'[c] \notin Drafting
    BY <2>1 DEF AtRest
  <2>2. CASE Create(c)
    BY <1>0, <2>2, CreateAtRest
  <2>3. CASE since'[c] = Len(past') /\ ~Create(c) /\ pc'[c] \in Drafting
    <3>1. since[c] = Len(past)
      BY <1>3, <2>0, <2>3 DEF account, Step, Crash, Acquire, RecoverAbandoned, ReadStars, ReadLists,
         ReadItems, RefusePage, BeginVerification, FinishVerification, Publish, BreakOff,
         FailDraft, AbandonDraft, Leave
    <3>2. CASE ReadStars(c) \/ ReadLists(c) \/ ReadItems(c)
      BY <1>0, <3>1, <3>2, StarsAtRest, ListsAtRest, ItemsAtRest
    <3>3. CASE BeginVerification(c) \/ FinishVerification(c)
      BY <3>1, <3>3, TurnAtRest, FinishAtRest
    <3>4. CASE \/ Acquire(c) \/ RecoverAbandoned(c) \/ Publish(c) \/ FailDraft(c)
               \/ RefusePage(c) \/ BreakOff(c) \/ AbandonDraft(c) \/ Leave(c) \/ Crash(c)
      <4>1. pc'[c] \notin Drafting
        BY <2>0, <3>4 DEF Acquire, RecoverAbandoned, Publish, FailDraft, RefusePage,
           BreakOff, AbandonDraft, Leave, Crash, Goto, Drafting, Reading
      <4>2. QED
        BY <2>3, <4>1
    <3>5. QED
      BY <1>3, <2>3, <3>2, <3>3, <3>4 DEF Step
  <2>4. QED
    BY <2>1, <2>2, <2>3
<1>4. ASSUME NEW c \in Call, Step(c) \/ Crash(c), NEW d \in Call PROVE AtRest(d)'
  <2>1. CASE d = c
    BY <1>3, <1>4, <2>1
  <2>2. CASE d # c
    <3>1. UNCHANGED account
      BY <1>4 DEF Step, Crash, Acquire, RecoverAbandoned, Create, ReadStars, ReadLists,
         ReadItems, RefusePage, BeginVerification, FinishVerification, Publish, BreakOff,
         FailDraft, AbandonDraft, Leave
    <3>2. SameCall(d) /\ \A s \in Snapshot : s[1] = d =>
              snap'[s] = snap[s] \/ (Building(s) /\ snap'[s].status = "failed")
      BY <1>0, <1>4, <2>2, StepsElsewhere DEF Elsewhere
    <3>3. QED
      BY <1>2, <3>1, <3>2
  <2>3. QED
    BY <2>1, <2>2
<1>5. ASSUME NEW d \in Call,
             (\E c \in Call : Abort(c)) \/ Expire \/ Startup \/ UNCHANGED vars
      PROVE  AtRest(d)'
  <2>1. SameCall(d) /\ UNCHANGED account
    BY <1>5 DEF Abort, Expire, Startup, vars, account, reader, SameCall
  <2>2. \A s \in Snapshot : snap'[s] = snap[s]
                              \/ (Building(s) /\ snap'[s].status = "failed")
    <3>1. CASE Startup
      BY <1>0, <3>1 DEF Startup, Abandoned, FailedRows, Building, CollectInv, DraftInv, Typed
    <3>2. CASE UNCHANGED snap
      BY <3>2
    <3>3. QED
      BY <1>5, <3>1, <3>2 DEF Abort, Expire, vars
  <2>3. QED
    BY <1>2, <2>1, <2>2
<1>6. ASSUME NEW d \in Call, Edit PROVE AtRest(d)'
  <2>1. /\ past' = Append(past, Account') /\ UNCHANGED <<snap, pc, since, second, attempt>>
    BY <1>6 DEF Edit, Edited, StarIt, Unstar, AddItem, RemoveItem, DeleteList
  <2>2. Len(past') = Len(past) + 1
    <3>1. past \in Seq(Contents) /\ past' \in Seq(Contents)
      BY <1>0 DEF CollectInv, AccountInv, AccountTyped
    <3>2. QED
      BY <2>1, <3>1
  <2>3. ASSUME pc'[d] \in Drafting, Rows(d)'.status = "building", since'[d] = Len(past')
        PROVE  FALSE
    <3>1. pc[d] \in Drafting /\ Rows(d).status = "building" /\ since[d] = Len(past) + 1
      BY <2>1, <2>2, <2>3 DEF Rows, Draft
    <3>2. since[d] \in 1..Len(past) /\ Len(past) \in Nat
      BY <1>0, <3>1 DEF CollectInv, Collected, Grows
    <3>3. QED
      BY <3>1, <3>2
  <2>4. QED
    BY <2>3 DEF AtRest
<1>7. \A d \in Call : AtRest(d)'
  BY <1>4, <1>5, <1>6 DEF Next
<1>8. QED
  BY <1>0, <1>1, <1>7 DEF RestInv

(* At first nothing has been read.                                          *)
LEMMA InitAtRest == Init => RestInv
<1> SUFFICES ASSUME Init PROVE RestInv
  OBVIOUS
<1>1. CollectInv
  BY InitCollections
<1>2. \A s \in Snapshot : IsContents(snap[s].staged) /\ IsContents(snap[s].verified)
  BY DEF Init, NoRows, Nothing, IsContents
<1>3. \A c \in Call : AtRest(c)
  BY DEF Init, AtRest, Drafting, Reading
<1>4. QED
  BY <1>1, <1>2, <1>3 DEF RestInv

(* A draft is given up as changed only if the account did change since it   *)
(* was begun (collectStars, collectMemberships and completeSnapshot): the   *)
(* two collections and the ids met twice raise no false alarm.              *)
THEOREM AlarmsAreTrue == Spec => NoFalseAlarm
<1>1. RestInv /\ [Next]_vars =>
         [\A c \in Call : pc[c] # "changed" /\ pc'[c] = "changed" => since[c] < Len(past)]_vars
  <2>1. SUFFICES ASSUME RestInv, [Next]_vars, NEW c \in Call,
                        pc[c] # "changed", pc'[c] = "changed"
                 PROVE  since[c] < Len(past)
    OBVIOUS
  <2>2. CollectInv /\ Grows /\ pc \in [Call -> PC]
    BY <2>1, PastGrows DEF RestInv, CollectInv, DraftInv, Typed
  <2>3. ReadStars(c) \/ ReadLists(c) \/ ReadItems(c) \/ Publish(c)
    <3>1. PICK d \in Call : Step(d) \/ Crash(d)
      BY <2>1 DEF Next, Abort, Edit, Edited, StarIt, Unstar, AddItem, RemoveItem,
         DeleteList, Expire, Startup, vars
    <3>2. d = c
      <4>1. d # c => SameCall(c)
        BY <2>2, <3>1, StepsElsewhere DEF Elsewhere
      <4>2. QED
        BY <2>1, <4>1 DEF SameCall
    <3>3. QED
      BY <2>1, <2>2, <3>1, <3>2 DEF Step, Crash, Acquire, RecoverAbandoned, Create,
         RefusePage, BeginVerification, FinishVerification, BreakOff,
         FailDraft, AbandonDraft, Leave, Goto, AfterLists
  <2>4. since[c] # Len(past)
    BY <2>1, <2>2, <2>3, StarsAtRest, ListsAtRest, ItemsAtRest, PublishAtRest
  <2>5. since[c] \in 1..Len(past) /\ Len(past) \in Nat
    <3>1. pc[c] \in Drafting /\ Rows(c).status = "building"
      BY <2>3 DEF ReadStars, ReadLists, ReadItems, Publish, Owns, Drafting, Reading
    <3>2. QED
      BY <2>2, <3>1 DEF CollectInv, Collected, Grows
  <2>6. QED
    BY <2>4, <2>5
<1>2. QED
  BY <1>1, InitAtRest, AllAtRest, PTL DEF Spec, NoFalseAlarm
=============================================================================
