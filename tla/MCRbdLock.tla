----------------------------- MODULE MCRbdLock ------------------------------
(* RbdLock for TLC. The bounds are the constants of RbdLock.                  *)
EXTENDS RbdLock, TLC

Symmetry == Permutations(Client)
=============================================================================
