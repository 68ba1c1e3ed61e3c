---------------------------- MODULE WithdrawalMC ----------------------------
(* Two withdrawals of two units each from a wallet that holds four, one of *)
(* which may get reserved.                                                 *)
EXTENDS Withdrawal
AmountDef == [w \in Withdrawals |-> 2]
=============================================================================
