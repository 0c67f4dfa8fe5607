------------------------------ MODULE Metadata ------------------------------
(***************************************************************************)
(* The repository metadata that synchronisation and discovery share         *)
(* (storage/snapshot-repository.ts): versions by content, the current one   *)
(* of each repository, and what an incremental synchronisation reuses of it *)
(* (app/services/sync-service.ts).                                          *)
(*                                                                          *)
(* An observation is a repository's two ids, its content and the time it    *)
(* was read.  The content stands for its own hash, and < on contents for    *)
(* the order of the hashes.  Time is the wall clock: it may go back.        *)
(***************************************************************************)
EXTENDS Integers, FiniteSets, SequencesExt

\* The tables repositories and repository_versions.
NoMetadata == [current |-> << >>, versions |-> {}]
Known(t) == DOMAIN t.current

\* A node id keeps its database id, and the other way round.
Foreign(t, o) ==
    \/ o.repo \in Known(t) /\ t.current[o.repo].db # o.db
    \/ \E r \in Known(t) \ {o.repo} : t.current[r].db = o.db

\* Observations of one moment are ordered by their hashes.
Later(o, row) == o.at > row.at \/ (o.at = row.at /\ o.content > row.content)

Row(o) == [db |-> o.db, content |-> o.content, at |-> o.at]
Replaces(t, o) == o.repo \in Known(t) => Later(o, t.current[o.repo])

\* #saveRepositoryMetadata; the transaction of a foreign one is rolled back.
Save(t, o) ==
    IF Foreign(t, o) THEN t
    ELSE [current |-> [r \in Known(t) \cup {o.repo} |->
                          IF r = o.repo /\ Replaces(t, o) THEN Row(o)
                                                          ELSE t.current[r]],
          versions |-> t.versions \cup {<<o.repo, o.content>>}]

\* getRepositoryMetadata
Stored(t, repo) ==
    [repo |-> repo, db |-> t.current[repo].db,
     content |-> t.current[repo].content, at |-> t.current[repo].at]

\* observationFor: the stored metadata if it is not too old, and not newer
\* than the synchronisation.
Reusable(t, repo, started, incremental, maxAge) ==
    /\ incremental
    /\ repo \in Known(t)
    /\ started - t.current[repo].at \in 0..maxAge

ObservationFor(t, remote, started, incremental, maxAge) ==
    IF Reusable(t, remote.repo, started, incremental, maxAge)
    THEN Stored(t, remote.repo)
    ELSE [remote EXCEPT !.at = started]

----------------------------------------------------------------------------
(* What it is for.  Obs is a finite set of observations.                    *)

SavedAll(observations) ==
    FoldLeft(LAMBDA t, o : Save(t, o), NoMetadata, observations)
UpTo(n, Obs) == UNION {[1..k -> Obs] : k \in 0..n}

\* Whatever the order in which synchronisations and discoveries write: the
\* current metadata is the latest that was taken, every version a snapshot
\* refers to is kept, and no two repositories share a database id.
CurrentIsLatest(Obs, n) ==
    \A s \in UpTo(n, Obs) :
        LET t == SavedAll(s)
            taken == {s[i] : i \in {j \in DOMAIN s :
                        ~Foreign(SavedAll(SubSeq(s, 1, j - 1)), s[j])}}
        IN  /\ Known(t) = {o.repo : o \in taken}
            /\ \A o \in taken :
                /\ <<o.repo, o.content>> \in t.versions
                /\ o.db = t.current[o.repo].db
                /\ ~Later(o, t.current[o.repo])
            /\ \A r \in Known(t) : Stored(t, r) \in taken
            /\ \A p, q \in Known(t) : t.current[p].db = t.current[q].db => p = q

\* Two writers of the same repositories reach the same tables in either order.
OrderIsIrrelevant(Obs, n) ==
    \A s \in UpTo(n, Obs) : \A o, p \in Obs :
        LET t == SavedAll(s)
        IN  ~Foreign(Save(t, p), o) /\ ~Foreign(Save(t, o), p)
                => Save(Save(t, o), p) = Save(Save(t, p), o)

\* What a snapshot shows of a repository was read at most maxAge before its
\* synchronisation began and not after it, however often metadata was reused:
\* a reused observation keeps its own time.  Saving it changes no current row.
ReuseDoesNotAge(Obs, n, maxAge) ==
    \A s \in UpTo(n, Obs) : \A remote \in Obs : \A inc \in BOOLEAN :
        LET t == SavedAll(s)
            o == ObservationFor(t, remote, remote.at, inc, maxAge)
        IN  /\ remote.at - o.at \in 0..maxAge
            /\ ~inc => o = remote
            /\ o # remote => Save(t, o) = t
=============================================================================
