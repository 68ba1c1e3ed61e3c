------------------------------ MODULE CircleMC ------------------------------
(* Small instances of Circle.                                              *)
EXTENDS Circle, TLC

Symmetry == Permutations(Users)

TermsDef == [max : {2}, contribution : {10, 20}]
Created == [max : {2}, contribution : {10}]

\* The admin raises the contribution.
Raised == [max : {2}, contribution : {20}]

\* The admin moves one user to the first position.
OneMove == {[v \in {u} |-> 1] : u \in Users}
=============================================================================
