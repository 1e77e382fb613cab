--------------------------- MODULE MCTickReports ---------------------------
(* TickReports for TLC: the calls of Process are interchangeable.            *)
EXTENDS TickReports, TLC

Symmetry == Permutations(Handler)
=============================================================================
