----------------------------- MODULE WalletBank -----------------------------
(***************************************************************************)
(* What the wallet ledger promises its callers, without locks, snapshots   *)
(* or running totals: every request is posted at most once, as a whole, in *)
(* some serial order, and each of its operations is checked against the    *)
(* balance that order gives.                                               *)
(*                                                                         *)
(* The promise has one gap: a request may overlook earlier ones of certain *)
(* jobs in a wallet that both write to.  Such a wallet has gone astray:    *)
(* from then on nothing is said about its total.                           *)
(***************************************************************************)
EXTENDS Integers, Sequences

CONSTANTS Wallets, Jobs, Ops, Requires,
          Overlooked    \* [Jobs -> SUBSET Jobs]: what each may overlook

VARIABLES total, reserved, applied, astray

bankVars == <<total, reserved, applied, astray>>

Init ==
    /\ total = [w \in Wallets |-> 0]
    /\ reserved = [w \in Wallets |-> 0]
    /\ applied = [j \in Jobs |-> 0]
    /\ astray = {}

Signed(op, up, down) ==
    IF op.entryType = up THEN op.amount
    ELSE IF op.entryType = down THEN -op.amount ELSE 0

\* The accounts after one more operation of a request, and whether it, like
\* those before it, is covered by the available balance, if its wallet is not
\* one of those that are off.
After(p, op, off) ==
    [ok |-> /\ p.ok /\ op.amount > 0
            /\ op.entryType \in {"DEBIT", "RESERVE"} /\ op.wallet \notin off =>
                 op.amount <= p.total[op.wallet] - p.reserved[op.wallet],
     total |-> [p.total EXCEPT ![op.wallet] = @ + Signed(op, "CREDIT", "DEBIT")],
     reserved |-> [p.reserved EXCEPT ![op.wallet] = @ + Signed(op, "RESERVE", "RELEASE")]]

\* The accounts after all operations of request j.
Posting(j, off) ==
    LET run[n \in 0..Len(Ops[j])] ==
          IF n = 0 THEN [ok |-> TRUE, total |-> total, reserved |-> reserved]
          ELSE After(run[n - 1], Ops[j][n], off)
    IN  run[Len(Ops[j])]

WritesTo(j, w) == \E i \in 1..Len(Ops[j]) : Ops[j][i].wallet = w

\* The wallets that request j may leave astray.
AtRisk(j) == {w \in Wallets : /\ WritesTo(j, w)
                              /\ \E k \in Overlooked[j] : applied[k] > 0 /\ WritesTo(k, w)}

Post(j) ==
    /\ \A k \in Jobs : Ops[k] = Ops[j] => applied[k] = 0
    /\ \A k \in Requires[j] : applied[k] > 0
    /\ \E lost \in SUBSET AtRisk(j) :
          LET off == astray \cup lost
              posting == Posting(j, off)
          IN  /\ posting.ok
              /\ total' \in [Wallets -> Int]
              /\ \A w \in Wallets \ off : total'[w] = posting.total[w]
              /\ reserved' = posting.reserved
              /\ astray' = off
    /\ applied' = [applied EXCEPT ![j] = 1]

Next == \E j \in Jobs : Post(j)

Spec == Init /\ [][Next]_bankVars
=============================================================================
