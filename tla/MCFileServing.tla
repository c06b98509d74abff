--------------------------- MODULE MCFileServing ---------------------------
(* Instances of FileServing for TLC: paths, getters and uploaders are each *)
(* interchangeable.  At first there is nothing; files come from uploads,   *)
(* and other programs make of one path anything else.                      *)
EXTENDS FileServing, TLC

Symmetry == Permutations(Paths) \cup Permutations(Getters) \cup Permutations(Uploaders)

MCInit == Init /\ \A p \in Paths : fs[p] = "absent"
MCSpec == MCInit /\ [][Next]_vars
=============================================================================
