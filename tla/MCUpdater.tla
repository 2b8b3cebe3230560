------------------------------- MODULE MCUpdater -------------------------------
(* Model checking of Updater: job identifiers are random and interchangeable. *)
EXTENDS Updater, TLC

Perms == Permutations(Jobs)

=============================================================================
