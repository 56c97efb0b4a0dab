------------------------------ MODULE Auditor ------------------------------
(***************************************************************************)
(* The exchange's books, the bank and the five helpers of the auditor,     *)
(* which taler-auditor runs one after the other, again and again, while    *)
(* the exchange goes on.                                                   *)
(***************************************************************************)
EXTENDS AuditReserves, AuditCoins, AuditAggregation, AuditWire, AuditDeposits

auditorVars == <<libVars, reserveAuditVars, coinAuditVars, aggregationAuditVars,
                 wireAuditVars, depositAuditVars>>
vars == <<bookVars, auditorVars>>

Init ==
    /\ BooksInit
    /\ LibInit
    /\ AuditReservesInit
    /\ AuditCoinsInit
    /\ AuditAggregationInit
    /\ AuditWireInit
    /\ AuditDepositsInit

Exchange == BooksNext /\ UNCHANGED auditorVars

\* The helpers that run in one step.
Reserves_ ==
    /\ AuditReserves
    /\ UNCHANGED <<bookVars, coinAuditVars, aggregationAuditVars, wireAuditVars,
                   depositAuditVars>>
Coins_ ==
    /\ AuditCoins
    /\ UNCHANGED <<bookVars, reserveAuditVars, aggregationAuditVars, wireAuditVars,
                   depositAuditVars>>
Aggregation_ ==
    /\ AuditAggregation
    /\ UNCHANGED <<bookVars, reserveAuditVars, coinAuditVars, wireAuditVars,
                   depositAuditVars>>
Deposits_ ==
    /\ AuditDeposits
    /\ UNCHANGED <<bookVars, reserveAuditVars, coinAuditVars, aggregationAuditVars,
                   wireAuditVars>>
Wire_ ==
    /\ AuditWireNext
    /\ UNCHANGED <<bookVars, reserveAuditVars, coinAuditVars, aggregationAuditVars,
                   depositAuditVars>>
Confirm(o) ==
    /\ DepositConfirmation(o)
    /\ UNCHANGED <<bookVars, libVars, reserveAuditVars, coinAuditVars,
                   aggregationAuditVars, wireAuditVars>>
Fails ==
    /\ HelperFails /\ w.phase = "idle"
    /\ UNCHANGED <<bookVars, reserveAuditVars, coinAuditVars, aggregationAuditVars,
                   wireAuditVars, depositAuditVars>>

Next ==
    \/ Exchange
    \/ \E o \in plan : Confirm(o)
    \/ Reserves_ \/ Coins_ \/ Aggregation_ \/ Deposits_ \/ Wire_
    \/ Fails

Spec == Init /\ [][Next]_vars

---------------------------------------------------------------------------
(* Properties.                                                             *)

\* Values of the right type.
AuditorTypeOK ==
    /\ BooksTypeOK
    /\ LibTypeOK
    /\ \A r \in Reserves : rinfo[r].balance \in Nat /\ rinfo[r].fees \in Nat
    /\ \A d \in Denoms : dinfo[d].balance \in Nat /\ dinfo[d].issued \in Nat
    /\ rsum.escrow \in Nat /\ csum.escrow \in Nat /\ csum.risk \in Nat
    /\ ppd \in Nat
    /\ w.phase \in {"idle", "credits", "debits", "conclude"}

Honest == \A o \in plan : Op[o].honest

\* The rows below the marks of the reserves helper.
AuditedReserveRows ==
    LET mark == [credit |-> ppr.in, withdraw |-> ppr.out, recoup |-> ppr.recoup,
                 close |-> ppr.close]
    IN {o \in plan : /\ Op[o].kind \in DOMAIN mark
                     /\ row[o].id \in 1..(mark[Op[o].kind] - 1)}

\* analyze_reserves, over any number of audits between which rows are added,
\* arrives at the balance that all the rows it passed add up to: none is
\* counted twice and none is left out.  The same holds for the escrow and the
\* fees over all reserves.
ReserveBooksAgree ==
    LET T == AuditedReserveRows
        in == {o \in T : Op[o].kind \in {"credit", "recoup"}}
        out == T \ in
    IN Honest =>
         /\ \A r \in Reserves :
               rinfo[r].balance = Total(At(r, in)) - Total(At(r, out))
         /\ rsum.escrow = Total(in) - Total(out)
         /\ rsum.fees = FeesOut(out)

\* With an honest exchange the helpers for reserves, coins and aggregation
\* raise no alarm, whenever they run: what one of them computes from the rows
\* is what the exchange computed when it wrote them.  There are two exceptions:
\* a reserve closed with less than the closing fee, and a transfer for a coin
\* that had a refund, whose deposit fee the exchange gives back to the coin
\* and the aggregation helper does not.  (An emergency has a property of its
\* own.)
BookAlarms ==
    {"irregular recoup", "closing fee", "insufficient balance", "reserve balance",
     "coin history", "melt cost", "not revoked", "wire out amount", "wire fee",
     "coin in aggregation"}
NoFalseAlarm ==
    Honest => \A a \in alarms : a[1] \in BookAlarms =>
        \/ a[1] = "closing fee" /\ row[a[2]].amt < ClosingFee
        \/ a[1] = "coin in aggregation" /\ RowsOf(a[2], Committed, {"refund"}) # {}

\* An emergency of the coins helper has a reason: a coin of the denomination
\* that was spent without having been issued or beyond its value, a fresh coin whose
\* melt was audited before the reveal, or a refund, which gives the deposit
\* fee back to the coin but not to the auditor's balance.
EmergencyHasReason ==
    \A a \in alarms : a[1] = "emergency" =>
        \E c \in Coins :
           /\ DenomOf[c] = a[2]
           /\ \/ \E o \in Committed : ~ Op[o].honest /\ CoinOf(o) = c
              \/ \E m \in missed : c \in {Op[m].fresh, Op[m].coin}
              \/ RowsOf(c, Committed, {"refund"}) # {}

\* What the comment of report_emergency_by_count says an emergency means: it
\* does not happen to an exchange whose private keys are safe.
NoFalseEmergency == Honest => \A a \in alarms : a[1] # "emergency"

\* With an honest exchange the wire helper raises an alarm about a transfer
\* only if some audit caught the transfer between the commit of the exchange
\* and the execution by the bank, or if rounding changed the amount of a
\* closed reserve, or (for the lag of a closure) an earlier closure is stuck.
WireAlarms == {"credit not at bank", "transfer not at bank", "debit not in books",
               "closure lag"}
WireAlarmExplained ==
    Honest => \A a \in alarms : a[1] \in WireAlarms =>
        \/ a[2] \in disturbed
        \/ Op[a[2]].kind = "close" /\ ClosureAmount(a[2]) # DebitAmount(a[2])

\* Fraud is found: once the helpers have passed the rows, a coin that was
\* spent beyond its value, a coin that was issued without its price, a wire
\* transfer beyond its deposits and a debit without a row have raised their
\* alarms.
SpendingAudited(c) ==
    \A o \in RowsOf(c, plan, {"deposit", "melt", "recoup", "recoup_refresh"}) :
        row[o].id < ppc[Op[o].kind]
FraudIsReported == ~ Honest =>
    /\ \A o \in Of(plan, "withdraw") :
          ~ Op[o].honest /\ row[o].id \in 1..(ppr.out - 1) =>
             \E a \in alarms : a[1] \in {"reserve balance", "insufficient balance"}
                               /\ a[2] = Op[o].reserve
    /\ \A c \in Coins :
          SpendingAudited(c) /\ Spent(c, Committed) > DenomOfCoin(c).value =>
             <<"coin history", c>> \in alarms
    /\ \A o \in Of(plan, "wire") :
          ~ Op[o].honest /\ row[o].id \in 1..(ppa - 1) =>
             <<"wire out amount", o>> \in alarms
    /\ \A i \in DOMAIN debits :
          Op[debits[i]].kind = "steal"
          /\ i <= w.pp.account[Op[debits[i]].account].out_off =>
             <<"debit not in books", debits[i]>> \in alarms

\* Every report of the deposits helper lists all the confirmed deposits that
\* the exchange does not have, those of earlier reports included.
MissingDepositsListed == dreport.listed = dreport.missing

\* The same, as long as no audit has stored the uninitialised mark.
MissingListedUnlessGuess == dreport.guess \/ MissingDepositsListed
============================================================================
