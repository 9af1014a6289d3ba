------------------------------- MODULE MCTools ------------------------------
EXTENDS Tools

(* The stream, less than a call asks for, several calls with a cut last    *)
(* one, and more hex digits than the line buffer holds.                    *)
SomeTotals == {-1, 1, 4, 9}
Shortest   == {1}
=============================================================================
