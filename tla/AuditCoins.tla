---------------------------- MODULE AuditCoins -----------------------------
(***************************************************************************)
(* taler-helper-auditor-coins: per denomination, how many coins were       *)
(* issued and how much of their value is left.  When more coins, or more   *)
(* value, come back than were issued, the denomination's private key must  *)
(* have leaked, and the helper reports an emergency.                       *)
(***************************************************************************)
EXTENDS AuditLib

CONSTANT DepositGrace   \* DEPOSIT_GRACE_PERIOD

ASSUME CoinsAssumption ==
    DepositGrace \in Nat /\ \A d \in DOMAIN Denom : Denom[d].expire_deposit \in Nat

VARIABLES
    ppc,    \* auditor_progress_coin: the marks
    dinfo,  \* auditor_denomination_pending: per denomination
    csum,   \* auditor_balance_summary
    revenue, \* auditor_historic_denomination_revenue: denominations with a row
    missed  \* history: melts that were audited before they were revealed

coinAuditVars == <<ppc, dinfo, csum, revenue, missed>>

Denoms == DOMAIN Denom

NoDenomInfo ==
    [in_db |-> FALSE, issued |-> 0, balance |-> 0, loss |-> 0, risk |-> 0,
     recoup |-> 0]

AuditCoinsInit ==
    /\ ppc = [withdraw |-> 1, refund |-> 1, recoup_refresh |-> 1, recoup |-> 1,
              melt |-> 1, deposit |-> 1]
    /\ dinfo = [d \in Denoms |-> NoDenomInfo]
    /\ csum = [escrow |-> 0, risk |-> 0, fees |-> 0, recoup_loss |-> 0]
    /\ revenue = {}
    /\ missed = {}

In(d, T) == {o \in T : DenomOf[CoinOf(o)] = d}

\* check_known_coin and check_coin_history: no coin is spent beyond its value.
Overspent(T, S) ==
    {c \in {CoinOf(o) : o \in T} : Spent(c, S) > DenomOfCoin(c).value}

\* refresh_session_cb: a melt that was revealed issues its fresh coin; one
\* that was not is reported as hanging and gone for good.
Hanging(melts, S) == {m \in melts : ~ Revealed(m, S)}
FreshDenoms(melts, S) == {DenomOf[Op[m].fresh] : m \in melts \ Hanging(melts, S)}

\* refresh_session_cb: what the fresh coin costs is within the melted amount.
CostTooHigh(melts, S) ==
    {m \in melts \ Hanging(melts, S) :
        LET f == DenomOfCoin(Op[m].fresh)
        IN f.value + f.withdraw > row[m].amt - DenomOfCoin(Op[m].coin).refresh}

\* refund_cb: the refund comes back to the coin without the refund fee.
Refunded(T) ==
    SumFunctionOnSet([o \in T |-> row[o].amt - DenomOfCoin(CoinOf(o)).refund], T)

\* recoup_refresh_cb: the value comes back to the old coin.
BackTo(d, T) == {o \in T : DenomOf[OldCoinOf(Op[o].coin)] = d}

\* check_recoup: recoups of denominations that are not revoked.
IrregularCoinRecoups(T, S) == {o \in T : ~ Revoked(DenomOf[Op[o].coin], S)}

\* deposit_cb, and refresh_session_cb for the old coin: an amount that the
\* balance does not hold is a loss.
Charge(info, o) ==
    IF info.balance < row[o].amt
    THEN [info EXCEPT !.loss = @ + row[o].amt]
    ELSE [info EXCEPT !.balance = @ - row[o].amt]

\* withdraw_cb, and refresh_session_cb for the fresh coin: n coins more.
Issue(info, d, n) ==
    [info EXCEPT !.issued = @ + n, !.balance = @ + n * Denom[d].value,
                 !.risk = @ + n * Denom[d].value]

\* (Faulty: the fresh coin is not added to the coins that were issued.)
AfterMeltOldOnly(d, info, m) ==
    IF DenomOf[Op[m].coin] = d THEN Charge(info, m) ELSE info

\* refresh_session_cb: the fresh coin is issued, the old one charged.
AfterMelt(d, info, m) ==
    LET i == IF DenomOf[Op[m].fresh] = d THEN Issue(info, d, 1) ELSE info
    IN IF DenomOf[Op[m].coin] = d THEN Charge(i, m) ELSE i

\* refresh_session_cb or deposit_cb for one row.
AfterRow(d, info, o) ==
    IF Op[o].kind = "melt" THEN AfterMelt(d, info, o) ELSE Charge(info, o)

\* withdraw_cb, refund_cb, recoup_refresh_cb and recoup_cb on all their rows,
\* then melts and deposits in the order of their serial numbers.
InfoOf(d, withdrawals, refunds, back, recoups, shown, deposits) ==
    LET issued == Issue(dinfo[d], d, Cardinality(In(d, withdrawals)))
        refunded == Refunded(In(d, refunds))
        start == [issued EXCEPT !.in_db = TRUE,
                                !.balance = @ + refunded + Total(BackTo(d, back)),
                                !.risk = @ + refunded,
                                !.recoup = @ + Total(In(d, recoups))]
        after(info, o) == AfterRow(d, info, o)
    IN FoldBySerial(after, FoldBySerial(after, start, shown), In(d, deposits))

DenomExpired(d) == now > Denom[d].expire_deposit + DepositGrace

\* sync_denomination for a denomination that expired: its balance becomes
\* revenue.  del_denomination_balance, which is to remove its row, has no
\* implementation in the plugin: the helper crashes when there is a row.  A
\* second row of revenue for the denomination is an error.
NotBookable(d, info) ==
    \/ dinfo[d].in_db
    \/ info.balance # 0 /\ d \in revenue

\* sync_denomination and report_emergency_by_count: more coins are known to
\* the exchange than were issued.
EmergencyByCount(d, info, S) ==
    /\ ~ DenomExpired(d)
    /\ info.issued < Cardinality({c \in KnownCoins(S) : DenomOf[c] = d})

\* report_emergency_by_amount: a loss in this audit.
EmergencyByAmount(d, info) == ~ DenomExpired(d) /\ info.loss > dinfo[d].loss

\* total_escrow_balance, over all denominations: an amount it does not hold
\* is not subtracted.
EscrowLess(e, o) == IF e < row[o].amt THEN e ELSE e - row[o].amt
EscrowOf(withdrawals, refunds, shown, deposits) ==
    LET value(o) == DenomOfCoin(Op[o].coin).value
        fresh(o) == DenomOfCoin(Op[o].fresh).value
        start == csum.escrow + MapThenSumSet(value, withdrawals) + Refunded(refunds)
        melted == FoldBySerial(LAMBDA e, m : EscrowLess(e + fresh(m), m), start, shown)
    IN FoldBySerial(EscrowLess, melted, deposits)

\* withdraw_cb .. deposit_cb: fees of refunds, melts and deposits.
CoinFees(refunds, melts, deposits) ==
    MapThenSumSet(LAMBDA o : LET f == DenomOfCoin(CoinOf(o))
                             IN CASE Op[o].kind = "refund" -> f.refund
                                  [] Op[o].kind = "melt" -> f.refresh
                                  [] OTHER -> f.deposit,
                  refunds \cup melts \cup deposits)

\* The auditor's tables.
StoreCoinProgress(p) == ppc' = p
StoreDenominationBalances(f) ==
    dinfo' = [d \in Denoms |-> IF d \in DOMAIN f THEN f[d] ELSE dinfo[d]]
StoreDenomRevenue(D) == revenue' = revenue \cup D
StoreBalanceSummary(sum) == csum' = sum

\* analyze_coins
AuditCoins ==
    LET S == Committed
        withdrawals == WithdrawalsAbove(S, ppc.withdraw)
        refunds == RefundsAbove(S, ppc.refund)
        back == RecoupRefreshAbove(S, ppc.recoup_refresh)
        recoups == RecoupAbove(S, ppc.recoup)
        melts == RefreshesAbove(S, ppc.melt)
        deposits == DepositsAbove(S, ppc.deposit)
        shown == melts \ Hanging(melts, S)
        info == [d \in Denoms |-> InfoOf(d, withdrawals, refunds, back,
                                         recoups \cup back, shown, deposits)]
        touched == {d \in Denoms :
                       \/ In(d, withdrawals \cup refunds \cup back \cup recoups
                                \cup shown \cup deposits) # {}
                       \/ BackTo(d, back) # {} \/ d \in FreshDenoms(melts, S)}
        gone == {d \in touched : DenomExpired(d)}
        gain(d) == info[d].risk - dinfo[d].risk
        gains == MapThenSumSet(gain, Denoms)
        riskOf(d) == info[d].risk
        stuck == \E d \in gone : NotBookable(d, info[d])
    IN IF stuck
       THEN TransactFails("coins") /\ UNCHANGED <<coinAuditVars, alarms>>
       ELSE
       /\ Transact("coins")
       /\ StoreCoinProgress([withdraw |-> MarkAfter(withdrawals, ppc.withdraw),
                             refund |-> MarkAfter(refunds, ppc.refund),
                             recoup_refresh |-> MarkAfter(back, ppc.recoup_refresh),
                             recoup |-> MarkAfter(recoups, ppc.recoup),
                             melt |-> MarkAfter(melts, ppc.melt),
                             deposit |-> MarkAfter(deposits, ppc.deposit)])
       /\ StoreDenominationBalances([d \in touched \ gone |-> info[d]])
       /\ StoreDenomRevenue({d \in gone : info[d].balance # 0})
       /\ StoreBalanceSummary([
             escrow |-> EscrowOf(withdrawals, refunds, shown, deposits),
             risk |-> csum.risk + gains - MapThenSumSet(riskOf, gone),
             fees |-> csum.fees + CoinFees(refunds, shown, deposits),
             recoup_loss |-> csum.recoup_loss + Total(recoups \cup back)])
       /\ missed' = missed \cup Hanging(melts, S)
       /\ Raise(Alarm("coin history",
                      Overspent(deposits \cup melts \cup recoups \cup back, S))
                \cup Alarm("melt cost", CostTooHigh(melts, S))
                \cup Alarm("not revoked", IrregularCoinRecoups(recoups \cup back, S))
                \cup Alarm("emergency",
                           {d \in touched : \/ EmergencyByCount(d, info[d], S)
                                            \/ EmergencyByAmount(d, info[d])}))
============================================================================
