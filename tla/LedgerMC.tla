------------------------------ MODULE LedgerMC ------------------------------
(***************************************************************************)
(* Small instances of Ledger.  Each job below is the ledger part of one    *)
(* transaction of the code, with the isolation level its caller passes:    *)
(*   Serializable    contribution.service makeContribution, payout.service *)
(*                   processPayout, membership.service requestToJoin and   *)
(*                   cancelJoinRequest, loans.service applyLoan            *)
(*   ReadCommitted   webhooks.service and funding-reconciliation credits,  *)
(*                   withdrawal.service debit and reversal, invite.service *)
(*                   joinByInvite, payout.service reversePayout            *)
(***************************************************************************)
EXTENDS Ledger

CONSTANTS JobSet   \* names of the jobs of this instance

\* Contributions, payouts, loans and requests to join are Serializable and
\* share the user's and the pool's wallet with READ COMMITTED jobs: credits of a
\* virtual account or a card, and a withdrawal, which adds all rows up itself.
\* The first contribution fills the pool; the second may meet the payout, which
\* locks the two wallets in the other order.
Catalogue == [
    loan       |-> <<"Serializable", {}, <<Entry("user", "CREDIT", 3, "m", "LOAN")>>>>,
    contribute |-> <<"Serializable", {}, <<Entry("user", "DEBIT", 2, "m", "CONTRIB"),
                                           Entry("pool", "CREDIT", 2, "m", "CONTRIB-IN")>>>>,
    again      |-> <<"Serializable", {"contribute"}, <<Entry("user", "DEBIT", 1, "m", "CONTRIB2"),
                                           Entry("pool", "CREDIT", 1, "m", "CONTRIB2-IN")>>>>,
    payout     |-> <<"Serializable", {"contribute"}, <<Entry("pool", "DEBIT", 2, "m", "PAYOUT"),
                                           Entry("user", "CREDIT", 1, "m", "PAYOUT-IN"),
                                           Entry("pool", "CREDIT", 1, "m", "FEE")>>>>,
    join       |-> <<"Serializable", {}, <<Entry("user", "RESERVE", 2, "m", "COLLATERAL")>>>>,
    cancelJoin |-> <<"Serializable", {"join", "payout"}, <<Entry("user", "RELEASE", 2, "m", "COLLATERAL-BACK")>>>>,
    fund       |-> <<"ReadCommitted", {}, <<Entry("user", "CREDIT", 2, "m", "VA")>>>>,
    card       |-> <<"ReadCommitted", {}, <<Entry("user", "CREDIT", 1, "m", "CARD")>>>>,
    withdraw   |-> <<"ReadCommitted", {"contribute"},
                     <<[Entry("user", "DEBIT", 1, "m", "WD") EXCEPT !.balanceFrom = "sum"]>>>>]

WalletsDef == {"user", "pool"}
SourcesDef == {"m"}
IsolationDef == [j \in JobSet |-> Catalogue[j][1]]
RequiresDef == [j \in JobSet |-> Catalogue[j][2] \cap JobSet]
OpsDef == [j \in JobSet |-> Catalogue[j][3]]
RefsDef == UNION {{Catalogue[j][3][i].ref : i \in DOMAIN Catalogue[j][3]} : j \in JobSet}
=============================================================================
