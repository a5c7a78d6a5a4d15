---- MODULE MCLibraryScan ----
EXTENDS LibraryScan
CONSTANTS r1, r2, a, b
Homes == [f \in Files |-> IF f = a THEN r1 ELSE r2]
====
