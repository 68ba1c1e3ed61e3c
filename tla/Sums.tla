-------------------------------- MODULE Sums --------------------------------
(***************************************************************************)
(* Sums of amounts kept per key: of the balances of some wallets, of what  *)
(* some members have paid in.                                              *)
(***************************************************************************)
EXTENDS Integers, FiniteSets, Functions

Total(f, S) == FoldFunctionOnSet(+, 0, f, S)
=============================================================================
