------------------------------ MODULE MCWsHub ------------------------------
(* Instances of WsHub for TLC: the callers of each kind are               *)
(* interchangeable in the run that checks no liveness.                     *)
EXTENDS WsHub, TLC

Symmetry == Permutations(Upgraders)
=============================================================================
