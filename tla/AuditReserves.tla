--------------------------- MODULE AuditReserves ---------------------------
(***************************************************************************)
(* taler-helper-auditor-reserves: for every reserve with new rows, the     *)
(* balance at the last audit plus what came in minus what went out has to  *)
(* be the balance that the exchange has.                                   *)
(***************************************************************************)
EXTENDS AuditLib

CONSTANT ClosingGrace   \* CLOSING_GRACE_PERIOD

VARIABLES
    ppr,     \* auditor_progress_reserve: the marks
    rinfo,   \* auditor_reserves: per reserve, what the auditor remembers
    rsum     \* auditor_reserve_balance: escrow and income from fees

reserveAuditVars == <<ppr, rinfo, rsum>>

NoInfo == [in_db |-> FALSE, balance |-> 0, fees |-> 0, expiry |-> 0]

AuditReservesInit ==
    /\ ppr = [in |-> 1, out |-> 1, recoup |-> 1, close |-> 1]
    /\ rinfo = [r \in Reserves |-> NoInfo]
    /\ rsum = [escrow |-> 0, fees |-> 0]

\* The reserves of some rows, and the rows of a reserve.
ReservesOf(T) == {ReserveOf(o) : o \in T}
At(r, T) == {o \in T : ReserveOf(o) = r}

\* handle_reserve_in and handle_recoup_by_reserve: a reserve expires the idle
\* time after its last credit.
ExpiryAfter(r, T) == Max({rinfo[r].expiry} \cup {row[o].at + Expiration : o \in At(r, T)})

\* handle_reserve_out and handle_reserve_closed: the fees in the rows.
FeeIn == [o \in plan |-> CASE Op[o].kind = "close" -> ClosingFeeOf(row[o].amt)
                            [] Op[o].kind = "withdraw" -> DenomOfCoin(Op[o].coin).withdraw
                            [] OTHER -> 0]
FeesOut(T) == SumFunctionOnSet(FeeIn, T)

\* handle_recoup_by_reserve: recoups of denominations that are not revoked.
IrregularRecoups(T, S) == {o \in T : ~ Revoked(DenomOf[Op[o].coin], S)}

\* handle_reserve_closed compares the fee in the row with the fee of the
\* account, but only for a reserve that had another row in this audit.
WrongClosingFees(T, others) ==
    {o \in T : ReserveOf(o) \in ReservesOf(others)
               /\ ClosingFeeOf(row[o].amt) # ClosingFee}

\* (Faulty: the balance of the last audit is forgotten.)
NewBalanceFromZero(r, in, out) ==
    Max({0, Total(At(r, in)) - Total(At(r, out))})

\* verify_reserve_balance: the new balance, or 0 for a negative one.
NewBalance(r, in, out) ==
    Max({0, rinfo[r].balance + Total(At(r, in)) - Total(At(r, out))})

InsufficientBalance(r, in, out) ==
    rinfo[r].balance + Total(At(r, in)) < Total(At(r, out))

\* (Faulty: not compared with the balance in the exchange's table.)
SummaryNeverWrong(r, in, out) == FALSE
SummaryWrong(r, in, out) == NewBalance(r, in, out) # reserve[r].balance

NotClosed(r, in, out, expiry) ==
    now > expiry + ClosingGrace /\ NewBalance(r, in, out) > ClosingFee

\* The row that verify_reserve_balance leaves in the auditor's table.  It is
\* dropped when nothing had been in the reserve, which is tested before the
\* outgoing amounts are subtracted.
InfoAfter(r, in, out) ==
    IF rinfo[r].balance + Total(At(r, in)) = 0 THEN NoInfo
    ELSE [in_db |-> TRUE, balance |-> NewBalance(r, in, out),
          fees |-> rinfo[r].fees + FeesOut(At(r, out)),
          expiry |-> ExpiryAfter(r, in)]

\* total_escrow_balance: one reserve after the other; a negative result
\* is reported and becomes zero.
Clipped(change, e) == Max({0, e + change})
EscrowAfter(touched, in, out) ==
    FoldFunctionOnSet(Clipped, rsum.escrow,
                      [r \in touched |-> Total(At(r, in)) - Total(At(r, out))], touched)

\* The auditor's tables.
StoreReserveProgress(p) == ppr' = p
StoreReserveInfo(f) ==
    rinfo' = [r \in Reserves |-> IF r \in DOMAIN f THEN f[r] ELSE rinfo[r]]
StoreReserveSummary(sum) == rsum' = sum

\* analyze_reserves
AuditReserves ==
    LET S == Committed
        ins == ReservesInAbove(S, ppr.in)
        outs == WithdrawalsAbove(S, ppr.out)
        recoups == RecoupAbove(S, ppr.recoup)
        closed == ReserveClosedAbove(S, ppr.close)
        in == ins \cup recoups
        out == outs \cup closed
        touched == ReservesOf(in \cup out)
    IN /\ Transact("reserves")
       /\ StoreReserveProgress([in |-> MarkAfter(ins, ppr.in),
                                out |-> MarkAfter(outs, ppr.out),
                                recoup |-> MarkAfter(recoups, ppr.recoup),
                                close |-> MarkAfter(closed, ppr.close)])
       /\ StoreReserveInfo([r \in touched |-> InfoAfter(r, in, out)])
       /\ StoreReserveSummary([escrow |-> EscrowAfter(touched, in, out),
                               fees |-> rsum.fees + FeesOut(out)])
       /\ Raise(Alarm("irregular recoup", IrregularRecoups(recoups, S))
                \cup Alarm("closing fee", WrongClosingFees(closed, in \cup outs))
                \cup Alarm("insufficient balance",
                           {r \in touched : InsufficientBalance(r, in, out)})
                \cup Alarm("reserve balance",
                           {r \in touched : SummaryWrong(r, in, out)})
                \cup Alarm("not closed",
                           {r \in touched :
                               NotClosed(r, in, out, ExpiryAfter(r, in))}))
============================================================================
