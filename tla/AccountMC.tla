------------------------------ MODULE AccountMC -----------------------------
(* Two requests at once and one payment into the virtual account.          *)
EXTENDS Account, TLC

Symmetry == Permutations(Requests)
=============================================================================
