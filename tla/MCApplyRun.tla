----------------------------- MODULE MCApplyRun -----------------------------
(* Instances of ApplyRun: a plan that creates a list and then assigns to it, *)
(* and a plan of one operation.                                              *)
EXTENDS ApplyRun, TLC

CONSTANTS create, assign, r1, r2

TwoOps == {create, assign}
OneAfterTheOther == <<create, assign>>
AssignAfterCreate == [o \in TwoOps |-> IF o = assign THEN {create} ELSE {}]
CreateOnly == {create}
NoCreates == {}
OneOp == {create}
JustCreate == <<create>>
NoDeps == [o \in OneOp |-> {}]
TwoRequests == {r1, r2}
RequestSymmetry == Permutations(Request)
=============================================================================
