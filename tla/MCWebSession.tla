---------------------------- MODULE MCWebSession ----------------------------
(* Model checking of WebSession: identifiers are interchangeable. *)
EXTENDS WebSessionStore, TLC

Perms == Permutations(Ids)

=============================================================================
