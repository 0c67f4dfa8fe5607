------------------------------ MODULE MCStore -------------------------------
(* The database file: its transactions (two processes; an old version, its   *)
(* successor and one of another line) and its lease row (three operations, a *)
(* lease of two clock steps).  The two machines share no variable, so no     *)
(* property tells their interleavings from one of them alone: half says      *)
(* which of the two a behaviour is about.                                    *)
EXTENDS Store, Lease, TLC

CONSTANTS p1, p2, s1, s2, s3
TwoProcesses == {p1, p2}
MCBinaries == {<<1, 2>>, <<1, 2, 3>>, <<1, 4, 3>>}
Three == {s1, s2, s3}
Symmetry == Permutations(Three) \cup Permutations(TwoProcesses)

VARIABLE half

FileInit ==
    /\ Init /\ LeaseInit
    /\ half \in {"store", "lease"}
    /\ half = "lease" => binary = [p \in Process |-> <<1, 2>>]

FileNext ==
    \/ half = "store" /\ Next /\ UNCHANGED <<leaseVars, half>>
    \/ half = "lease" /\ LeaseNext /\ UNCHANGED <<vars, half>>

FileSpec == FileInit /\ [][FileNext]_<<vars, leaseVars, half>>

\* The tables those migrations create and the parsers of what they hold accept
\* the same rows: all with at most one attempt and times of three instants.
Records == INSTANCE RunRecords
ASSUME SameRows ==
    /\ \A x \in Records!Entries(0..1, 0..2, 0..1) :
          /\ Records!ParsedRow(x) <=> Records!TableRow(x)
          /\ Records!ParsedAttempt(x) <=> Records!TableAttempt(x)
    /\ \A x \in Records!Events(0..1, 0..1, 0..1) :
          Records!ParsedEvent(x) <=> Records!TableEvent(x)
    /\ \A x \in Records!Runs(0..2) : Records!ParsedRun(x) <=> Records!TableRun(x)
=============================================================================
