--------------------------- MODULE ReserveStatus ---------------------------
(***************************************************************************)
(* What the exchange tells the owner of a reserve.  GET /reserves/$PUB     *)
(* returns the history of the reserve with the balance that follows from   *)
(* it; a withdrawal that is refused for lack of funds returns the same, as *)
(* a proof (taler-exchange-httpd_{reserves_get,withdraw,responses}.c).     *)
(* The client library adds up the history itself and believes neither      *)
(* reply if its result differs (src/lib/exchange_api_{common,reserves_get, *)
(* withdraw2}.c).                                                          *)
(*                                                                         *)
(* The module adds no state to ReserveFunds: both replies are functions of *)
(* the tables.  All signatures of the entries verify: they are stored      *)
(* with the rows or made with a key of the exchange when the reply is      *)
(* built.  The rows of reserves_close of one reserve are one entry.        *)
(***************************************************************************)
EXTENDS ReserveFunds

HistoryEntry(type, amount, of) == [type |-> type, amount |-> amount, of |-> of]

---------------------------------------------------------------------------
(* postgres_get_reserve_history, one operator per table.                   *)

BankToExchange(r) ==
    {HistoryEntry("CREDIT", q.amt, <<q.account, q.ref>>) :
        q \in {p \in reserves_in : p.reserve = r}}

WithdrawCoin(r) ==
    {HistoryEntry("WITHDRAW", Cost[c], c) :
        c \in {b \in reserves_out : CoinReserve[b] = r}}

RecoupCoin(r) ==
    {HistoryEntry("RECOUP", p.amt, p.coin) :
        p \in {q \in recoup : CoinReserve[q.coin] = r}}

ExchangeToBank(r) ==
    IF closed[r] = 0 THEN {} ELSE {HistoryEntry("CLOSING", closed[r], r)}

GetReserveHistory(r) ==
    BankToExchange(r) \cup WithdrawCoin(r) \cup RecoupCoin(r)
      \cup ExchangeToBank(r)

---------------------------------------------------------------------------
(* TEH_RESPONSE_compile_reserve_history and the two replies.  A reply is   *)
(* its HTTP status with the balance and the history in it.                 *)

EntriesOf(h, type) == {e \in h : e.type = type}
EntryTotal(h, type) == SumFunction([e \in EntriesOf(h, type) |-> e.amount])

\* What the entries of each type add to credit_total and withdraw_total.
CreditTotal(h)  == EntryTotal(h, "CREDIT")
RecoupTotal(h)  == EntryTotal(h, "RECOUP")
ClosingTotal(h) == EntryTotal(h, "CLOSING")
WithdrawTotal(h) == EntryTotal(h, "WITHDRAW")

\* (Faulty: takes a recoup for a debit.)
HistoryBalanceRecoupOut(h) ==
    CreditTotal(h) - (RecoupTotal(h) + WithdrawTotal(h) + ClosingTotal(h))

\* Credits less debits; below zero is the code's failure to subtract.
HistoryBalance(h) ==
    CreditTotal(h) + RecoupTotal(h) - (WithdrawTotal(h) + ClosingTotal(h))

\* A history without a credit cannot be compiled.
Compilable(h) ==
    /\ EntriesOf(h, "CREDIT") \cup EntriesOf(h, "RECOUP") # {}
    /\ HistoryBalance(h) >= 0

Response(status, balance, h) ==
    [status |-> status, balance |-> balance, history |-> h]

ReservesGet(r) ==
    LET h == GetReserveHistory(r)
    IN IF h = {} THEN Response(404, 0, {})
       ELSE IF ~Compilable(h) THEN Response(500, 0, {})
       ELSE Response(200, HistoryBalance(h), h)

\* A withdrawal of c that the balance does not cover (withdraw_transaction).
WithdrawShort(c) ==
    /\ c \notin reserves_out
    /\ reserves[CoinReserve[c]] # NoReserve
    /\ Cost[c] > reserves[CoinReserve[c]].bal

\* reply_withdraw_insufficient_funds checks the balance of the table too.
WithdrawRefused(c) ==
    LET r == CoinReserve[c]
        h == GetReserveHistory(r)
    IN IF ~Compilable(h) \/ HistoryBalance(h) # reserves[r].bal
       THEN Response(500, 0, {})
       ELSE Response(409, HistoryBalance(h), h)

---------------------------------------------------------------------------
(* The client: TALER_EXCHANGE_parse_reserve_history with its totals, and   *)
(* the status that the handlers report (0: the reply makes no sense).      *)

ParsedCredits(h)     == EntryTotal(h, "CREDIT")
ParsedWithdrawals(h) == EntryTotal(h, "WITHDRAW")
ParsedRecoups(h)     == EntryTotal(h, "RECOUP")
ParsedClosings(h)    == EntryTotal(h, "CLOSING")

\* The check for duplicates among the withdrawals.
WithdrawalsDiffer(h) ==
    \A e, f \in EntriesOf(h, "WITHDRAW") : e.of = f.of => e = f

ParseReserveHistory(h, balance) ==
    LET total_in == ParsedCredits(h) + ParsedRecoups(h)
        total_out == ParsedWithdrawals(h) + ParsedClosings(h)
    IN /\ WithdrawalsDiffer(h)
       /\ total_out <= total_in
       /\ total_in - total_out = balance

ReservesGetFinished(reply) ==
    IF reply.status = 200 /\ ~ParseReserveHistory(reply.history, reply.balance)
    THEN 0 ELSE reply.status

\* reserve_withdraw_payment_required
WithdrawProven(c, reply) ==
    /\ ParseReserveHistory(reply.history, reply.balance)
    /\ Cost[c] > reply.balance

WithdrawFinished(c, reply) ==
    IF reply.status = 409 /\ ~WithdrawProven(c, reply) THEN 0 ELSE reply.status

---------------------------------------------------------------------------
(* The owner of a reserve hears the truth and believes it: the status      *)
(* query of a reserve in the database gets the current balance, with a     *)
(* history that the client accepts, one of a reserve that is not there     *)
(* gets a 404, and a refused withdrawal is proven to the client.  Neither  *)
(* query ever meets a balance that the history does not explain (the       *)
(* internal errors of compile_reserve_history and of                       *)
(* reply_withdraw_insufficient_funds).                                     *)
OwnerBelieves ==
    /\ \A r \in Reserves :
          IF reserves[r] = NoReserve
          THEN ReservesGetFinished(ReservesGet(r)) = 404
          ELSE /\ ReservesGetFinished(ReservesGet(r)) = 200
               /\ ReservesGet(r).balance = reserves[r].bal
    /\ \A c \in Coins :
          WithdrawShort(c) => WithdrawFinished(c, WithdrawRefused(c)) = 409
=============================================================================
