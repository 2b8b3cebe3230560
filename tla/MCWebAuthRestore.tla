--------------------------- MODULE MCWebAuthRestore ---------------------------
(* Model checking of WebAuthRestore: sessions and passwords are                *)
(* interchangeable.                                                            *)
EXTENDS WebAuthRestore, TLC

Perms == Permutations(Ids) \cup Permutations(Passwords)

=============================================================================
