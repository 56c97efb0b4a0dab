------------------------------ MODULE MCCoins ------------------------------
(***************************************************************************)
(* Small instances of CoinHistory.  Two coins c1 and c4 of value 4 can be  *)
(* withdrawn from the reserve r1; c1 can be refreshed into c2 (value 2,    *)
(* commitment rc1) and into c3 (commitment rc2).  Each instance            *)
(* is a set of requests that clients may send, again and again.            *)
(***************************************************************************)
EXTENDS CoinHistory, TLC

CONSTANTS d1, d2, c1, c2, c3, c4, r1, k1, k2, t1, t2, rc1, rc2

\* The denominations, coins and commitments (of the ones an instance has).
MCValue == [d \in Denoms |-> (d1 :> 4 @@ d2 :> 2)[d]]
MCFeeWithdraw == [d \in Denoms |-> IF d = d1 THEN 1 ELSE 0]
MCNoFee == [d \in Denoms |-> 0]
MCOneFee == [d \in Denoms |-> 1]
MCDenomOf == [c \in Coins |-> (c1 :> d1 @@ c2 :> d2 @@ c3 :> d2 @@ c4 :> d1)[c]]
MCReserveOf == [c \in Coins |-> r1]
MCOldCoinOf == [rc \in Rcs |-> c1]
MCFreshOf == [rc \in Rcs |-> (rc1 :> {c2} @@ rc2 :> {c3})[rc]]
MCBalance == [r \in Reserves |-> 5]
MCAmounts == 0..5
\* How many of the dates of the denominations pass.
MCNoDates == [d \in Denoms |-> 0]
MCOneDate == [d \in Denoms |-> 1]
MCOldDates == [d \in Denoms |-> IF d = d1 THEN 2 ELSE 0]

\* The requests.  The field "copy" tells apart two sendings of the same one.
WithdrawOf(c) == [op |-> "withdraw", coin |-> c]
DepositOf(c, k, a, n) ==
    [op |-> "deposit", coin |-> c, contract |-> k, terms |-> t1, amt |-> a,
     copy |-> n]
MeltOf(rc, a, n) ==
    [op |-> "melt", coin |-> c1, rc |-> rc, amt |-> a, copy |-> n]
RevealOf(rc, n) == [op |-> "reveal", rc |-> rc, copy |-> n]
RefundOf(c, k, n, a) ==
    [op |-> "refund", coin |-> c, contract |-> k, rtid |-> n, amt |-> a,
     fee |-> 1]
RecoupOf(c, b, n) ==
    [op |-> "recoup", coin |-> c, refreshed |-> b, copy |-> n]

\* Deposits that do not fit on the coin together, one of them sent twice,
\* with refunds and a recoup.
SpendRequests ==
    {WithdrawOf(c1), WithdrawOf(c4),
     DepositOf(c1, k1, 3, 1), DepositOf(c1, k1, 3, 2), DepositOf(c1, k2, 2, 1),
     RefundOf(c1, k1, 1, 2), RefundOf(c1, k1, 2, 3), RecoupOf(c1, FALSE, 1)}

\* A refresh that competes with a deposit and with a recoup, and the recoup
\* of the fresh coin that refills the old one.  The old coin is then melted
\* again, perhaps when its denomination is no longer valid (a zombie), for
\* less than the new fresh coin costs.
RefreshRequests ==
    {WithdrawOf(c1), MeltOf(rc1, 3, 1), RevealOf(rc1, 1),
     RecoupOf(c2, TRUE, 1), MeltOf(rc2, 2, 1), RevealOf(rc2, 1),
     DepositOf(c1, k1, 2, 1), RecoupOf(c1, FALSE, 1)}

\* A deposit that is refused after another one was refunded in part.
UnprovenRequests ==
    {WithdrawOf(c1), DepositOf(c1, k1, 3, 1), RefundOf(c1, k1, 1, 2),
     DepositOf(c1, k2, 4, 1)}

\* Two deposits of one coin for one contract that differ in their terms.
ConflictRequests ==
    {WithdrawOf(c1), DepositOf(c1, k1, 2, 1),
     [DepositOf(c1, k1, 2, 1) EXCEPT !.terms = t2]}
=============================================================================
