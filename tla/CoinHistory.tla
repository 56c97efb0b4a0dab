---------------------------- MODULE CoinHistory ----------------------------
(***************************************************************************)
(* The proof of double-spending.  When the exchange refuses a deposit, a   *)
(* melt or a recoup because the coin has no money left, its reply carries  *)
(* the transaction history of the coin                                     *)
(* (taler-exchange-httpd_responses.c), and the client library believes the *)
(* refusal only if it can verify that history and if the history does not  *)
(* leave room for the request (src/lib/exchange_api_common.c and the       *)
(* handlers of exchange_api_{deposit,melt,recoup}.c).  Server and client   *)
(* add up the history with different code.                                 *)
(*                                                                         *)
(* The module adds no state to CoinSpending: the reply to a request is a   *)
(* function of the tables at the moment the transaction runs.              *)
(*                                                                         *)
(* An entry of the history has a type, an amount, a fee and the remaining  *)
(* fields ("rest"); "sig" is what the signature in the entry was made      *)
(* over.                                                                   *)
(***************************************************************************)
EXTENDS CoinSpending

Signed(amount, fee, rest) == [amount |-> amount, fee |-> fee, rest |-> rest]

HistoryEntry(type, amount, fee, rest, sig) ==
    [type |-> type, amount |-> amount, fee |-> fee, rest |-> rest, sig |-> sig]

\* An integer as it is in memory and in network byte order; of the
\* identifiers in use only zero looks the same in both.
HostOrder(n) == <<"host", n>>
Htonll(n) == IF n = 0 THEN HostOrder(0) ELSE <<"network", n>>

---------------------------------------------------------------------------
(* TEH_RESPONSE_compile_transaction_history, one operator per entry type.  *)

DepositHistory(c) ==
    LET fee == FeeDeposit[DenomOf[c]]
    IN {HistoryEntry("DEPOSIT", d.amt, fee, d, Signed(d.amt, fee, d)) :
            d \in DepositsOf(c)}

MeltHistory(c) ==
    LET fee == FeeRefresh[DenomOf[c]]
    IN {HistoryEntry("MELT", m.amt, fee, m.rc, Signed(m.amt, fee, m.rc)) :
            m \in MeltsOf(c)}

\* The fee in the refund request that the merchant signed.
SignedRefundFee(f) ==
    (CHOOSE r \in Requests : /\ r.op = "refund" /\ r.coin = f.coin
                             /\ r.contract = f.contract /\ r.rtid = f.rtid
                             /\ r.amt = f.amt).fee

\* The entry shows the refund without its fee; the merchant signed the
\* amount with the fee, and the identifier in network byte order.
RefundHistory(c) ==
    LET fee == FeeRefund[DenomOf[c]]
    IN {HistoryEntry("REFUND", f.amt - fee, fee,
                     <<f.contract, HostOrder(f.rtid)>>,
                     Signed(f.amt, SignedRefundFee(f),
                            <<f.contract, Htonll(f.rtid)>>)) :
            f \in RefundsOf(c)}

\* Recoups are signed by the exchange when the reply is made.
RecoupHistory(c, type, rows) ==
    {HistoryEntry(type, p.amt, 0, p, Signed(p.amt, 0, p)) : p \in rows}

CompileTransactionHistory(c, include_recoup) ==
    DepositHistory(c) \cup MeltHistory(c) \cup RefundHistory(c)
      \cup (IF include_recoup
            THEN RecoupHistory(c, "RECOUP", RecoupsOf(c))
                   \cup RecoupHistory(c, "RECOUP-REFRESH", RecoupRefreshesOf(c))
                   \cup RecoupHistory(c, "OLD-COIN-RECOUP", OldCoinRecoupsOf(c))
            ELSE {})

---------------------------------------------------------------------------
(* The refusals that carry a history.                                      *)

InTransaction(r, op) == r.op = op /\ phase[r] \in {"txn", "ztxn"}

DepositShort(r) ==
    /\ InTransaction(r, "deposit")
    /\ ~DepositReplay(r)
    /\ DepositSpent(r) > Value[DenomOf[r.coin]]

MeltShort(r) ==
    /\ InTransaction(r, "melt")
    /\ MeltsFor(r.rc) = {}
    /\ ZombieSatisfied(r)
    /\ MeltSpent(r) > Value[DenomOf[r.coin]]

RecoupShort(r) ==
    /\ InTransaction(r, "recoup")
    /\ RecoupTargetFound(r)
    /\ RecoupAmount(r) = 0
    /\ ~RecoupedBefore(r)

RefusedForFunds(r) == DepositShort(r) \/ MeltShort(r) \/ RecoupShort(r)

\* (Faulty: a melt shows the history that a deposit shows.)
HistoryOfReplyNoRecoups(r) == CompileTransactionHistory(r.coin, FALSE)

HistoryOfReply(r) == CompileTransactionHistory(r.coin, r.op # "deposit")

---------------------------------------------------------------------------
(* TALER_EXCHANGE_verify_coin_history of the client.                       *)

SumOfAmounts(h) == SumFunction([e \in h |-> e.amount])
Added(h)    == {e \in h : e.type \in {"DEPOSIT", "MELT", "RECOUP"}}
Refunded(h) == {e \in h : e.type = "REFUND"}
CoinHistoryTotal(h) == SumOfAmounts(Added(h)) - SumOfAmounts(Refunded(h))

\* The fee the client knows for the type of entry from its /keys.
FeeOfEntry(e, d) ==
    CASE e.type = "DEPOSIT" -> FeeDeposit[d]
      [] e.type = "MELT"    -> FeeRefresh[d]
      [] e.type = "REFUND"  -> FeeRefund[d]
      [] e.type = "RECOUP"  -> 0

EntryVerifies(e, d) ==
    /\ e.type \in {"DEPOSIT", "MELT", "REFUND", "RECOUP"}
    /\ e.sig = Signed(e.amount, e.fee, e.rest)
    /\ e.fee = FeeOfEntry(e, d)

VerifyCoinHistory(h, d) ==
    /\ h # {}
    /\ \A e \in h : EntryVerifies(e, d)
    /\ CoinHistoryTotal(h) >= 0

---------------------------------------------------------------------------
(* What the client makes of a conflict: the status it reports to the       *)
(* application is 409 if it believes the exchange and 0 if it does not.    *)

VerifyDepositForbidden(r, h) ==
    LET d == DenomOf[r.coin]
    IN VerifyCoinHistory(h, d) /\ CoinHistoryTotal(h) + r.amt > Value[d]

\* The value of the coin and the melted amount in the reply are the client's.
VerifyMeltConflict(r, h) ==
    LET d == DenomOf[r.coin]
    IN VerifyCoinHistory(h, d) /\ CoinHistoryTotal(h) + r.amt > Value[d]

VerifyRecoupConflict(r, h) == VerifyCoinHistory(h, DenomOf[r.coin])

DepositFinished(r, h) == IF VerifyDepositForbidden(r, h) THEN 409 ELSE 0
MeltFinished(r, h)    == IF VerifyMeltConflict(r, h) THEN 409 ELSE 0
RecoupFinished(r, h)  == IF VerifyRecoupConflict(r, h) THEN 409 ELSE 0

ClientStatus(r, h) ==
    CASE r.op = "deposit" -> DepositFinished(r, h)
      [] r.op = "melt"    -> MeltFinished(r, h)
      [] r.op = "recoup"  -> RecoupFinished(r, h)

---------------------------------------------------------------------------
(* An honest exchange can prove a refusal: whichever transactions          *)
(* committed before, the client accepts the history in the reply as a      *)
(* proof that the coin has no money left for the request.  Histories with  *)
(* a refund or with a recoup of a refreshed coin are left out: the client  *)
(* cannot verify those (see RefusalAlwaysProven).                          *)
RefusalProven ==
    \A r \in Requests :
        LET h == HistoryOfReply(r)
        IN /\ RefusedForFunds(r)
           /\ \A e \in h : e.type \in {"DEPOSIT", "MELT", "RECOUP"}
           => ClientStatus(r, h) = 409

(* exchange_api_deposit.c: "everything OK, proof of double-spending was    *)
(* provided": the same for every history.                                  *)
RefusalAlwaysProven ==
    \A r \in Requests :
        RefusedForFunds(r) => ClientStatus(r, HistoryOfReply(r)) = 409
=============================================================================
