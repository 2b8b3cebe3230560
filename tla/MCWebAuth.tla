------------------------------ MODULE MCWebAuth ------------------------------
(* Model checking of WebAuth: everything but the accounts is interchangeable. *)
EXTENDS WebAuthAccess, TLC

Perms == Permutations(Ids) \cup Permutations(Requests)
         \cup Permutations(Passwords) \cup Permutations(Secrets)

=============================================================================
