----------------------------- MODULE MCWsClient -----------------------------
(* Instances of WsClient for TLC: connections and senders are             *)
(* interchangeable.                                                        *)
EXTENDS WsClient, TLC

Symmetry == Permutations(Conns) \cup Permutations(Senders)
=============================================================================
