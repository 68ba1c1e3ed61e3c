------------------------------ MODULE CyclesMC ------------------------------
(* Two members, two cycles. *)
EXTENDS Cycles, TLC
CONSTANTS m1, m2
RecipientDef == 1 :> m1 @@ 2 :> m2
=============================================================================
