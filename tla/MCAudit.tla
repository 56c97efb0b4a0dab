------------------------------ MODULE MCAudit ------------------------------
(***************************************************************************)
(* Small instances of Auditor.  The coin c1 has denomination d1 (value 7), *)
(* c2 and f1, what c1 is refreshed into, have denomination d2 (value 2).    *)
(***************************************************************************)
EXTENDS Auditor, TLC

MCDenomOf == [c \in Coins |-> IF c = "c1" THEN "d1" ELSE "d2"]
MCDenom ==
    [d1 |-> [value |-> 7, withdraw |-> 1, deposit |-> 1, refresh |-> 1, refund |-> 1,
             expire_deposit |-> 0],
     d2 |-> [value |-> 2, withdraw |-> 0, deposit |-> 1, refresh |-> 1, refund |-> 1,
             expire_deposit |-> 1]]

Of_(kind) == [kind |-> kind, honest |-> TRUE]
CreditTo(r, x, a) == Of_("credit") @@ [reserve |-> r, amount |-> x, account |-> a]
Withdrawal(r, c) == Of_("withdraw") @@ [reserve |-> r, coin |-> c]
DepositOf(c, x) == Of_("deposit") @@ [coin |-> c, amount |-> x, deadline |-> 0]
Dishonest(p) == [p EXCEPT !.honest = FALSE]

MCOp ==
    [in1 |-> CreditTo("r1", 10, "a1"), in2 |-> CreditTo("r2", 5, "a1"),
     wd1 |-> Withdrawal("r1", "c1"), wd2 |-> Dishonest(Withdrawal("r1", "c2")),
     dep1 |-> DepositOf("c1", 3),
     dep3 |-> Dishonest(DepositOf("c1", 5)), dep4 |-> DepositOf("f1", 2),
     dep5 |-> DepositOf("c1", 7), dep6 |-> DepositOf("c1", 7),
     ref1 |-> Of_("refund") @@ [deposit |-> "dep5", amount |-> 3],
     ref5 |-> Of_("refund") @@ [deposit |-> "dep5", amount |-> 7],
     melt1 |-> Of_("melt") @@ [coin |-> "c1", fresh |-> "f1", amount |-> 3],
     reveal1 |-> Of_("reveal") @@ [melt |-> "melt1"],
     revoke1 |-> Of_("revoke") @@ [denom |-> "d1"],
     revoke2 |-> Of_("revoke") @@ [denom |-> "d2"],
     recoup1 |-> Of_("recoup") @@ [coin |-> "c1"],
     recoup2 |-> Of_("recoup_refresh") @@ [coin |-> "f1"],
     close1 |-> Of_("close") @@ [reserve |-> "r1", account |-> "a1"],
     close2 |-> Of_("close") @@ [reserve |-> "r2", account |-> "a1"],
     wire1 |-> Of_("wire") @@ [deposits |-> {"dep5"}, account |-> "a1"],
     wire6 |-> Of_("wire") @@ [deposits |-> {"dep6"}, account |-> "a1"],
     wire3 |-> Dishonest(Of_("wire") @@ [deposits |-> {"dep1"}, account |-> "a1"]),
     steal1 |-> Dishonest(Of_("steal") @@ [amount |-> 5, account |-> "a1"]),
     tick |-> Of_("time"),
     confirm1 |-> Of_("confirm") @@ [deposit |-> "dep1"],
     confirm2 |-> Dishonest(Of_("confirm") @@ [deposit |-> "dep9"])]

MCAccountList == <<"a1">>

\* A deposit, a refund and the transfer; a refresh; recoups of a coin and of
\* a refreshed coin; two reserves that are closed; the full refund of a coin
\* that is deposited again; confirmations; fraud and theft.
AfterWithdrawal(T) ==
    [credits |-> <<"in1">>, withdrawals |-> <<"wd1">>, then |-> T]
PayPlan == AfterWithdrawal({"dep5", "ref1", "wire1"})
RefreshPlan == AfterWithdrawal({"tick", "melt1", "reveal1", "dep4"})
RecoupPlan == AfterWithdrawal({"revoke1", "recoup1", "close1", "tick"})
RecoupRefreshPlan == AfterWithdrawal({"melt1", "reveal1", "revoke2", "recoup2"})
ClosePlan == [credits |-> <<"in1", "in2">>, withdrawals |-> <<>>,
              then |-> {"close1", "close2", "tick"}]
CreditPlan == [credits |-> <<"in1">>, withdrawals |-> <<>>, then |-> {"in2", "wd1"}]
AgainPlan == AfterWithdrawal({"tick", "dep5", "ref5", "dep6", "wire6"})
ConfirmPlan == AfterWithdrawal({"dep1", "confirm1", "confirm2"})
MCRefreshOnly == {RefreshPlan}
MCConfirmOnly == {ConfirmPlan}
FraudPlans == {AfterWithdrawal({"wd2"}), AfterWithdrawal({"dep1", "dep3"}),
               AfterWithdrawal({"dep1", "wire3"}), AfterWithdrawal({"steal1", "dep1"})}
MCPlans == {PayPlan, RefreshPlan, RecoupPlan, RecoupRefreshPlan, ClosePlan,
            CreditPlan, AgainPlan, ConfirmPlan} \cup FraudPlans
=============================================================================
