----------------------------- MODULE FundingMC ------------------------------
(* One funding, paid by either of two methods. *)
EXTENDS Funding
=============================================================================
