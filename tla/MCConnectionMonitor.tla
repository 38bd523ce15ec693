------------------------ MODULE MCConnectionMonitor ------------------------
(***************************************************************************)
(* ConnectionMonitor for TLC: the callers are interchangeable, and the     *)
(* clock stops after MaxRecords records.                                   *)
(***************************************************************************)
EXTENDS ConnectionMonitor, TLC

CONSTANT MaxRecords    \* bound: records made in one behaviour

ASSUME MaxRecords \in Nat

CallerSymmetry == Permutations(Callers)

BoundedNext == MonitorNext /\ now' <= MaxRecords

BoundedSpec == MonitorInit /\ [][BoundedNext]_monitorVars

=============================================================================
