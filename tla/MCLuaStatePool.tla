--------------------------- MODULE MCLuaStatePool ---------------------------
(* Small instances of LuaStatePool. *)
EXTENDS LuaStatePool

CONSTANTS w1, w2, f1, f2, f3, s1, s2, s3, s4

\* One handler fiber on each of two workers ...
OneEach == [f \in Fibers |-> IF f = f1 THEN w1 ELSE w2]

\* ... or two on the first and one on the second.
TwoAndOne == [f \in Fibers |-> IF f = f3 THEN w2 ELSE w1]

\* The states are interchangeable.
Symmetry == Permutations(States)

=============================================================================
