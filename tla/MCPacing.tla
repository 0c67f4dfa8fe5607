------------------------------ MODULE MCPacing ------------------------------
(* Small instances of Pacing: two calls at a time in two processes.          *)
EXTENDS Pacing, TLC

CONSTANTS p1, p2, c1, c2

TwoProcesses == {p1, p2}
TwoCalls == {c1, c2}
============================================================================
