-------------------------- MODULE MCWorkspaceLock --------------------------
(* Model values for checking WorkspaceLock.                                *)
EXTENDS WorkspaceLock, TLC

Symmetry == Permutations(Proc)

=============================================================================
