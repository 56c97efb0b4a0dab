-------------------------- MODULE MerchantPayments --------------------------
(***************************************************************************)
(* What the exchange promises the merchants, without database, processes   *)
(* or network: deposits are settled in batches, a deposit in one batch for *)
(* ever; a batch is worth exactly what its deposits are worth after        *)
(* refunds and fees; it is paid once, and booked as paid only after it     *)
(* was.  Module Aggregation implements this.                               *)
(***************************************************************************)
EXTENDS Integers, Sequences, Functions

CONSTANTS
    Deposits, TargetOf, Amount, DepositFee, WireDeadline, RefundDeadline,
    RefundAmounts, WireFee, RoundUnit

VARIABLES
    now,        \* the time
    accepted,   \* deposits that the exchange has confirmed
    refund,     \* per deposit: what was refunded, or -1
    batches,    \* batches of deposits that the exchange has committed to
    statement,  \* the debits of the exchange's bank account, in order
    booked      \* batches that the exchange knows to be paid

payVars == <<now, accepted, refund, batches, statement, booked>>

Settled == UNION {b.rows : b \in batches}
Open == accepted \ Settled

\* A merchant pays the deposit fee unless there was a refund, never more
\* than the deposit.
Worth(d) ==
    LET off == IF refund[d] = -1 THEN DepositFee[d] ELSE refund[d]
    IN IF off <= Amount[d] THEN Amount[d] - off ELSE 0

WorthOf(S) == SumFunction([d \in S |-> Worth(d)])

\* The amount that can be wired of a total.
Wired(n, total) ==
    LET rest == total - WireFee - n
    IN IF RoundUnit = 0 THEN rest = 0
       ELSE n % RoundUnit = 0 /\ rest \in 0..(RoundUnit - 1)

PayInit ==
    /\ now = 0
    /\ accepted = {} /\ refund = [d \in Deposits |-> -1]
    /\ batches = {} /\ statement = <<>> /\ booked = {}

Accept(d) ==
    /\ d \notin accepted
    /\ accepted' = accepted \cup {d}
    /\ UNCHANGED <<now, refund, batches, statement, booked>>

GiveBack(d, a) ==
    /\ d \in Open /\ refund[d] = -1 /\ a <= Amount[d]
    /\ refund' = [refund EXCEPT ![d] = a]
    /\ UNCHANGED <<now, accepted, batches, statement, booked>>

\* Open deposits of one target are settled when one of them is due; the
\* others may be early.
Settle(S) ==
    /\ \E d \in S : WireDeadline[d] <= now /\ RefundDeadline[d] < now
    /\ \E t \in {TargetOf[d] : d \in S}, n \in 1..WorthOf(S) :
          /\ \A d \in S : TargetOf[d] = t
          /\ Wired(n, WorthOf(S))
          /\ batches' = batches \cup {[rows |-> S, target |-> t, amt |-> n]}
    /\ UNCHANGED <<now, accepted, refund, statement, booked>>

Pay(b) ==
    /\ b \notin Range(statement)
    /\ statement' = Append(statement, b)
    /\ UNCHANGED <<now, accepted, refund, batches, booked>>

Book(b) ==
    /\ b \in Range(statement)
    /\ booked' = booked \cup {b}
    /\ UNCHANGED <<now, accepted, refund, batches, statement>>

Pass == now' = now + 1 /\ UNCHANGED <<accepted, refund, batches, statement, booked>>

PayNext ==
    \/ \E d \in Deposits : Accept(d) \/ \E a \in RefundAmounts : GiveBack(d, a)
    \/ \E S \in SUBSET Open : Settle(S)
    \/ \E b \in batches : Pay(b) \/ Book(b)
    \/ Pass

PaySpec == PayInit /\ [][PayNext]_payVars
=============================================================================
