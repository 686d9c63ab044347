---------------------------- MODULE MCWalletHandle ----------------------------
(***************************************************************************)
(* WalletHandle for model checking: the callers are alike, so states that  *)
(* differ only in their names are checked once.  Sound for the invariants  *)
(* and the action property of the run, none of which names a caller; the   *)
(* runs of the liveness properties do without.                             *)
(***************************************************************************)
EXTENDS WalletHandle, TLC

Alike == Permutations(Callers)

=============================================================================
