--------------------------- MODULE MCAuthSession ---------------------------
(***************************************************************************)
(* AuthSession for TLC: the calls of a tab differ only by name, so a run   *)
(* without liveness properties may take them up to a permutation.          *)
(***************************************************************************)
EXTENDS AuthSession, TLC

CallSymmetry == Permutations(Calls)

=============================================================================
