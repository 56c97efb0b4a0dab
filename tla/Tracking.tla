------------------------------ MODULE Tracking ------------------------------
(***************************************************************************)
(* How merchants and their banks find out what a wire transfer was for:    *)
(* GET /transfers/$WTID lists the deposits of a transfer and GET /deposits *)
(* says which transfer a deposit went into.  Both handlers run a           *)
(* transaction that is repeated after a soft error, with the context of    *)
(* the first attempt, and the client library checks what they answer.      *)
(*                                                                         *)
(* One client asks one question after the other.  The context keeps what   *)
(* the code does not reset between two attempts.  JSON, signatures and     *)
(* times are left out; the status of a reply is its HTTP status.           *)
(***************************************************************************)
EXTENDS Aggregation

CONSTANTS
    Asked,      \* deposits that the client asks about
    MaxRetries  \* MAX_TRANSACTION_COMMIT_RETRIES - 1

ASSUME TrackingAssumption == Asked \subseteq Deposits /\ MaxRetries \in Nat

VARIABLES
    ctx,        \* context of the request that is handled
    report,     \* the last answer that the client library delivered
    server_up   \* whether the HTTP server runs

trackVars == <<ctx, report, server_up>>
allVars == <<vars, trackVars>>

NoRequest == [op |-> "none"]

\* struct WtidTransactionContext and struct DepositWtidContext as the
\* handlers initialise them.
FreshTransfer(w) ==
    [op |-> "transfer", id |-> w, tries |-> 0, is_valid |-> "no"]
FreshDeposit(d) ==
    [op |-> "deposit", id |-> d, tries |-> 0, pending |-> FALSE]

TrackInit == Init /\ ctx = NoRequest /\ report = NoRequest /\ server_up = TRUE

---------------------------------------------------------------------------
(* GET /transfers/$WTID                                                    *)

\* What a row adds: deposit value minus deposit fee.
Delta(d) == Amount[d] - DepositFee[d]
Total(rows) == SumFunction([d \in rows |-> Delta(d)])

\* The rows of lookup_wire_transfer.
LookupWireTransfer(w) ==
    {d \in DepositsOf(w) : \E o \in wire_out : o.wtid = w}

\* handle_deposit_data found the rows to be inconsistent.
Inconsistent(rows) ==
    \/ \E d \in rows : DepositFee[d] > Amount[d]
    \/ \E d, e \in rows : TargetOf[d] # TargetOf[e]
    \/ Total(rows) > MaxAmount

\* (Faulty: the wire fee stays in the total.)
ReplyWithoutWireFee(w, rows) ==
    [op |-> "transfer", id |-> w, status |-> 200, total |-> Total(rows),
     fee |-> WireFee, rows |-> rows]

\* get_transfer_deposits and reply_transfer_details
ReplyTransferDetails(w, rows) ==
    [op |-> "transfer", id |-> w, status |-> 200, total |-> Total(rows) - WireFee,
     fee |-> WireFee, rows |-> rows]

Failure(op, x, status) == [op |-> op, id |-> x, status |-> status]

TransferReply(w, is_valid) ==
    LET rows == LookupWireTransfer(w) IN
    IF is_valid = "error" \/ Inconsistent(rows) THEN Failure("transfer", w, 500)
    ELSE IF rows = {} THEN Failure("transfer", w, 404)
    ELSE IF Total(rows) < WireFee THEN Failure("transfer", w, 500)
    ELSE ReplyTransferDetails(w, rows)

\* check_transfers_get_response_ok and handle_transfers_get_finished: the
\* client adds up the rows; a reply it cannot follow counts as no reply.
CheckTransfer(r) ==
    IF r.status = 200 /\ Total(r.rows) - r.fee # r.total
    THEN [r EXCEPT !.status = 0]
    ELSE r

\* handle_deposit_data compares the wire method of a row with the one in the
\* context.  Nothing resets is_valid when the transaction is repeated, but
\* free_ctx has freed the wire method: the comparison reads a NULL pointer.
ReadsNull ==
    /\ ctx.op = "transfer"
    /\ ctx.is_valid = "yes" /\ LookupWireTransfer(ctx.id) # {}

TransfersGet(w) ==
    /\ server_up /\ ctx = NoRequest
    /\ ctx' = FreshTransfer(w)
    /\ UNCHANGED <<vars, report, server_up>>

LookupTransfer ==
    /\ server_up /\ ctx.op = "transfer" /\ ~ReadsNull
    /\ report' = CheckTransfer(TransferReply(ctx.id, ctx.is_valid))
    /\ ctx' = NoRequest
    /\ UNCHANGED <<vars, server_up>>

\* A soft error in the lookup of the wire fee or at commit, after the rows
\* were read.
LookupTransferSoftError ==
    /\ server_up /\ ctx.op = "transfer" /\ ~ReadsNull
    /\ ctx.tries < MaxRetries
    /\ LookupWireTransfer(ctx.id) # {}
    /\ ctx' = [ctx EXCEPT !.tries = @ + 1,
                          !.is_valid = IF Inconsistent(LookupWireTransfer(ctx.id))
                                       THEN "error" ELSE "yes"]
    /\ UNCHANGED <<vars, report, server_up>>

LookupCrashes ==
    /\ server_up /\ ReadsNull
    /\ server_up' = FALSE
    /\ ctx' = NoRequest
    /\ UNCHANGED <<vars, report>>

ServerRestarts ==
    /\ ~server_up
    /\ server_up' = TRUE
    /\ UNCHANGED <<vars, ctx, report>>

---------------------------------------------------------------------------
(* GET /deposits/$H_WIRE/$MERCHANT_PUB/$H_CONTRACT_TERMS/$COIN_PUB         *)

\* (Faulty: looks at transfers that are under way only.)
DepositWtidPending(d) ==
    {t[2] : t \in {t \in TrackingOf(d) : \E p \in Pending : p.wtid = t[2]}}

\* lookup_deposit_wtid: the transfers of a deposit (at most one).
DepositWtid(d) == {t[2] : t \in TrackingOf(d)}

\* handle_wtid_data sets pending and never resets it.
Pends(d) == DepositWtid(d) = {} /\ d \in deposits

ReplyDepositDetails(d, w) ==
    [op |-> "deposit", id |-> d, status |-> 200, wtid |-> w,
     contribution |-> Delta(d)]

\* handle_track_transaction_request
DepositReply(d, pending) ==
    IF d \notin deposits THEN Failure("deposit", d, 404)
    ELSE IF pending \/ Pends(d) THEN Failure("deposit", d, 202)
    ELSE IF DepositFee[d] > Amount[d] THEN Failure("deposit", d, 500)
    ELSE ReplyDepositDetails(d, CHOOSE w \in DepositWtid(d) : TRUE)

DepositsGet(d) ==
    /\ server_up /\ ctx = NoRequest
    /\ ctx' = FreshDeposit(d)
    /\ UNCHANGED <<vars, report, server_up>>

\* deposits_get_transaction commits; the client library
\* (handle_deposit_wtid_finished) passes the answer on.
LookupDeposit ==
    /\ server_up /\ ctx.op = "deposit"
    /\ report' = DepositReply(ctx.id, ctx.pending)
    /\ ctx' = NoRequest
    /\ UNCHANGED <<vars, server_up>>

LookupDepositSoftError ==
    /\ server_up /\ ctx.op = "deposit"
    /\ ctx.tries < MaxRetries
    /\ ctx' = [ctx EXCEPT !.tries = @ + 1, !.pending = @ \/ Pends(ctx.id)]
    /\ UNCHANGED <<vars, report, server_up>>

---------------------------------------------------------------------------
TrackStep ==
    \/ \E w \in 1..next_wtid : TransfersGet(w)
    \/ LookupTransfer \/ LookupTransferSoftError
    \/ LookupCrashes \/ ServerRestarts
    \/ \E d \in Asked : DepositsGet(d)
    \/ LookupDeposit \/ LookupDepositSoftError

TrackNext == TrackStep \/ (Next /\ UNCHANGED trackVars)

TrackSpec == TrackInit /\ [][TrackNext]_allVars

---------------------------------------------------------------------------
(* What merchants are told is true and stays true, although the answer is  *)
(* computed anew from other tables than the transfer was: a list of        *)
(* deposits that the client library accepts is the complete list of the    *)
(* transfer, and without refunds its total, rounded down, is what was      *)
(* wired; the transfer that a deposit is said to be in lists the deposit;  *)
(* and no deposit of a transfer is called unknown.                         *)
TrackingTruthful ==
    /\ report.op = "transfer" =>
          /\ report.status # 0
          /\ report.status = 200 =>
                \E o \in wire_out :
                    /\ o.wtid = report.id
                    /\ report.rows = DepositsOf(o.wtid)
                    /\ (\A d \in report.rows : refund[d] = NoRefund) =>
                          RoundDown(report.total) = o.amt
    /\ report.op = "deposit" /\ report.status = 200 =>
          <<report.id, report.wtid>> \in aggregation_tracking

(* What the client was told of a deposit is never taken back: a deposit    *)
(* reported as transferred is reported with the same transfer ever after,  *)
(* and one reported as pending does not become unknown.                    *)
AnswersOnlyAdvance ==
    [][(report.op = "deposit" /\ report'.op = "deposit"
            /\ report.id = report'.id) =>
          /\ report.status = 200 => report' = report
          /\ report.status = 202 => report'.status \in {200, 202}]_allVars

(* get_transfer_deposits: "resetting to NULL/0 in case transaction was     *)
(* repeated after serialization failure".  A repeated transaction does not *)
(* end the server.                                                         *)
ServerSurvivesRetry == server_up
=============================================================================
