------------------------------- MODULE TrustMC -------------------------------
(* One member who pays or not, whose contributions are recorded as missed   *)
(* by two payouts at once, and who is rated by two participants.            *)
EXTENDS Trust, TLC
Symmetry == Permutations(Recordings)
=============================================================================
