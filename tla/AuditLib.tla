----------------------------- MODULE AuditLib ------------------------------
(***************************************************************************)
(* What the helpers of the auditor have in common (report-lib.c): each     *)
(* reads the rows of the exchange's tables from its mark on, in one        *)
(* transaction on the exchange's database and one on its own, and raises   *)
(* alarms in its report.  taler-auditor runs the helpers one after the     *)
(* other and ends when one of them fails.                                  *)
(*                                                                         *)
(* The transaction on the exchange's database sees the rows that were      *)
(* committed when it began, and the one on the auditor's own database      *)
(* commits after it or not at all: a run of a helper that looks at nothing *)
(* else is one step on S == Committed.  A run that ends with an error,     *)
(* soft or hard, changes nothing and is a stuttering step of the books.    *)
(***************************************************************************)
EXTENDS Books

VARIABLES
    alarms,   \* the alarms of all reports: pairs <<kind, subject>>
    helper    \* the helper that taler-auditor runs next

libVars == <<alarms, helper>>

Helpers == <<"aggregation", "coins", "deposits", "reserves", "wire">>

LibTypeOK ==
    /\ helper \in Range(Helpers)
    /\ \A a \in alarms : Len(a) = 2

LibInit == alarms = {} /\ helper = Helpers[1]

HelperAfter(h) ==
    LET i == CHOOSE j \in DOMAIN Helpers : Helpers[j] = h
    IN IF i = Len(Helpers) THEN Helpers[1] ELSE Helpers[i + 1]

Alarm(kind, T) == {<<kind, x>> : x \in T}
Raise(A) == alarms' = alarms \cup A

\* A helper that is done makes room for the next.
Transact(h) == helper = h /\ helper' = HelperAfter(h)

\* A helper fails: taler-auditor ends ("set -e"), and is started again later.
TransactFails(h) == helper = h /\ helper' = Helpers[1]
HelperFails ==
    /\ \E h \in Range(Helpers) \ {Helpers[1]} : TransactFails(h)
    /\ UNCHANGED alarms

---------------------------------------------------------------------------
(* The select_*_above_serial_id queries: the rows from mark m on.          *)

Above(k, S, m) == {o \in Of(S, k) : row[o].id >= m}

ReservesInAbove(S, m) == Above("credit", S, m)
ReservesInAboveByAccount(S, m, a) ==
    {o \in Above("credit", S, m) : Op[o].account = a}
WithdrawalsAbove(S, m) == Above("withdraw", S, m)
RecoupAbove(S, m) == Above("recoup", S, m)
RecoupRefreshAbove(S, m) == Above("recoup_refresh", S, m)
ReserveClosedAbove(S, m) == Above("close", S, m)
RefreshesAbove(S, m) == Above("melt", S, m)
DepositsAbove(S, m) == Above("deposit", S, m)
RefundsAbove(S, m) == Above("refund", S, m)
WireOutAbove(S, m) == Above("wire", S, m)
WireOutAboveByAccount(S, m, a) == {o \in Above("wire", S, m) : Op[o].account = a}

\* Deposits whose wire deadline is in the interval, that are not aggregated
\* and whose coin has no refund.
DepositsMissingWire(S, from, to) ==
    {d \in Of(S, "deposit") :
        /\ from <= Op[d].deadline /\ Op[d].deadline < to
        /\ \A w \in Of(S, "wire") : d \notin Op[w].deposits
        /\ RowsOf(Op[d].coin, S, {"refund"}) = {}}

\* Each callback sets the mark to its row + 1.
MarkAfter(T, m) == Max({m} \cup {row[o].id + 1 : o \in T})
============================================================================
