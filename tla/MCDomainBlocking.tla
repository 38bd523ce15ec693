--------------------------- MODULE MCDomainBlocking ---------------------------
(***************************************************************************)
(* DomainBlocking for TLC.  Each command of an instance runs at most once; *)
(* servers start and end without a bound.                                  *)
(***************************************************************************)
EXTENDS DomainBlocking, TLC

CommandSymmetry == Permutations(Commands)

===============================================================================
