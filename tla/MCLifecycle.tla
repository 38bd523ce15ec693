----------------------------- MODULE MCLifecycle -----------------------------
(***************************************************************************)
(* Lifecycle for TLC.  Each process of an instance runs at most once, so   *)
(* the state space is finite; what grows it is commands that overlap.      *)
(***************************************************************************)
EXTENDS Lifecycle, Integers, FiniteSets, TLC

CONSTANTS
    OverlapStarts,    \* starts, and status commands, that are given when
    OverlapStatuses   \* commands overlap or there is a stop

LifecycleSymmetry ==
    Permutations(Servers) \cup Permutations(Statuses) \cup Permutations(Stops)

Begun(P) == Cardinality({p \in P : at[p] # "none"})

WithinBounds ==
    \/ OneByOne
    \/ Begun(Servers) <= OverlapStarts /\ Begun(Statuses) <= OverlapStatuses

MCSpec == Init /\ [][Next /\ WithinBounds']_vars

=============================================================================
