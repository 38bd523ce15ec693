--------------------------- MODULE MCRelayServer ---------------------------
(***************************************************************************)
(* RelayServer for TLC: connections, SIGUSR1 tasks and stop() calls are    *)
(* each interchangeable (the liveness run does not use the symmetry).      *)
(***************************************************************************)
EXTENDS RelayServer, TLC

ServerSymmetry == Permutations(Conns) \cup Permutations(Signals) \cup Permutations(Stops)

=============================================================================
