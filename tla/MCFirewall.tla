----------------------------- MODULE MCFirewall -----------------------------
(* Model checking of Firewall by itself: what a page showed against what is  *)
(* removed.  The requests are interchangeable.                               *)
EXTENDS Firewall, TLC

Perms == Permutations(FwSlots)
=============================================================================
