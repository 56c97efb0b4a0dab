--------------------------- MODULE ReserveFunds ---------------------------
(***************************************************************************)
(* How money gets into and out of reserves: customers wire money to the    *)
(* exchange's accounts, taler-exchange-wirewatch reads the credit history  *)
(* of the accounts and credits reserves, the HTTP server withdraws coins   *)
(* and takes them back (recoup), taler-exchange-closer wires the rest of   *)
(* an expired reserve back, and taler-exchange-dbinit collects garbage.    *)
(*                                                                         *)
(* Wirewatch keeps a transaction open while it waits for the bank and      *)
(* while it goes through the bank's reply, row by row.  The transaction    *)
(* sees the database as it was at its first query and commits only if      *)
(* nobody changed the rows that it updates.  The transactions of the other *)
(* programs are single steps.                                              *)
(*                                                                         *)
(* Each account numbers its history from 1; the number is the              *)
(* wire_reference of the row.  A reserve that is not in the database is    *)
(* one with the record NoReserve.                                          *)
(***************************************************************************)
EXTENDS Integers, Sequences, FiniteSetsExt

CONSTANTS
    Reserves,
    NumAccounts,      \* accounts of the exchange with credit enabled
    Incoming,         \* per account: the transfers that customers make
    NoMethod,         \* reserves filled from accounts whose wire method no
                      \* account of the exchange is configured for
    BatchSize,        \* rows of the history asked for at a time
    ResetModes,       \* values of the option -r that wirewatch is run with
    Coins,            \* coins that may be withdrawn
    CoinReserve,      \* the reserve a coin is withdrawn from
    Cost,             \* value of a coin with the withdraw fee
    CoinValue,        \* value of a coin
    IdleExpiration,   \* IDLE_RESERVE_EXPIRATION_TIME
    LegalExpiration,  \* LEGAL_RESERVE_EXPIRATION_TIME
    ClosingFee,
    RoundUnit,        \* CURRENCY_ROUND_UNIT
    MaxGc,            \* how often taler-exchange-dbinit -g is run
    MaxTime           \* bound on the clock

Accounts == 1..NumAccounts

ASSUME AccountsAssumption ==
    /\ NumAccounts \in Nat \ {0}
    /\ BatchSize \in Nat \ {0}
    /\ Incoming \in [Accounts -> Seq([reserve : Reserves, amt : Nat \ {0}])]
    /\ ResetModes \subseteq BOOLEAN /\ ResetModes # {}
    /\ NoMethod \subseteq Reserves

ASSUME CoinsAssumption ==
    /\ CoinReserve \in [Coins -> Reserves]
    /\ CoinValue \in [Coins -> Nat]
    /\ Cost \in [Coins -> Nat]
    /\ \A c \in Coins : CoinValue[c] <= Cost[c]

ASSUME ReservesAssumption ==
    /\ IdleExpiration \in Nat
    /\ LegalExpiration \in Nat
    /\ ClosingFee \in Nat
    /\ RoundUnit \in Nat
    /\ MaxGc \in Nat
    /\ MaxTime \in Nat

VARIABLES
    now,           \* the time
    bank,          \* per account: the dates of the transfers booked so far
    reserves,      \* table reserves
    reserves_in,   \* rows of the table reserves_in
    in_serial,     \* BIGSERIAL of reserve_in_serial_id
    reserves_out,  \* coins in the table reserves_out
    recoup,        \* rows of the table recoup
    closed,        \* per reserve: sum of its rows in reserves_close
    returned,      \* per reserve: what closing it put into prewire
    watch,         \* where wirewatch is: "ready" (find_transfers is due),
                   \* "asked" (waiting for the bank), "rows" (in the reply)
                   \* or "down"
    wa_pos,        \* the account it looks at
    last_row_off,  \* per account
    reset_mode,
    txn,           \* its open transaction
    closer_up,     \* whether the closer runs
    gcs,           \* how often garbage has been collected
    credits,       \* history: how often each transfer was credited
    withdrawn_at   \* history: when each coin was withdrawn, or Never

tableVars ==
    <<reserves, reserves_in, in_serial, reserves_out, recoup, closed>>
watchVars == <<watch, wa_pos, last_row_off, reset_mode, txn>>
historyVars == <<credits, withdrawn_at>>
world == <<now, bank, gcs>>
vars == <<world, tableVars, returned, watchVars, closer_up, historyVars>>

Never == -1
NoReserve == [bal |-> 0, expiry |-> 0, gc |-> 0]

ReserveRecord == [bal : Nat, expiry : Nat, gc : Nat]
InRow == [serial : Nat, account : Accounts, ref : Nat, reserve : Reserves,
          amt : Nat, date : Nat]

\* snap: the reserves at the transaction's first query; cur: as it changed
\* them; new, serial: rows it added to reserves_in and the next serial number;
\* row, end: the row of the history it has come to, and the last row of the
\* reply.
Transaction ==
    [snap : [Reserves -> ReserveRecord], cur : [Reserves -> ReserveRecord],
     new : SUBSET InRow, serial : Nat, row : Nat, end : Nat]

Begin(rs, row, end) ==
    [snap |-> rs, cur |-> rs, new |-> {}, serial |-> in_serial, row |-> row,
     end |-> end]

NoTransaction ==
    [snap |-> [r \in Reserves |-> NoReserve],
     cur |-> [r \in Reserves |-> NoReserve],
     new |-> {}, serial |-> 0, row |-> 0, end |-> 0]

TypeOK ==
    /\ now \in 0..MaxTime
    /\ bank \in [Accounts -> Seq(0..MaxTime)]
    /\ reserves \in [Reserves -> ReserveRecord]
    /\ reserves_in \subseteq InRow
    /\ in_serial \in Nat
    /\ reserves_out \subseteq Coins
    /\ recoup \subseteq [coin : Coins, amt : Nat]
    /\ closed \in [Reserves -> Nat]
    /\ returned \in [Reserves -> Nat]
    /\ watch \in {"ready", "asked", "rows", "down"}
    /\ wa_pos \in Accounts
    /\ last_row_off \in [Accounts -> Nat]
    /\ reset_mode \in ResetModes
    /\ txn \in Transaction
    /\ closer_up \in BOOLEAN
    /\ gcs \in 0..MaxGc
    /\ \A a \in Accounts : credits[a] \in [1..Len(Incoming[a]) -> Nat]
    /\ withdrawn_at \in [Coins -> 0..MaxTime \cup {Never}]

Init ==
    /\ now = 0
    /\ bank = [a \in Accounts |-> <<>>]
    /\ reserves = [r \in Reserves |-> NoReserve]
    /\ reserves_in = {} /\ in_serial = 1
    /\ reserves_out = {} /\ recoup = {}
    /\ closed = [r \in Reserves |-> 0]
    /\ returned = [r \in Reserves |-> 0]
    /\ watch = "ready" /\ wa_pos = 1
    /\ last_row_off = [a \in Accounts |-> 0]
    /\ reset_mode \in ResetModes
    /\ txn = NoTransaction
    /\ closer_up = TRUE /\ gcs = 0
    /\ credits = [a \in Accounts |-> [i \in 1..Len(Incoming[a]) |-> 0]]
    /\ withdrawn_at = [c \in Coins |-> Never]

---------------------------------------------------------------------------
(* The clock and the bank.                                                 *)

Tick ==
    /\ now < MaxTime
    /\ now' = now + 1
    /\ UNCHANGED <<gcs, bank, tableVars, returned, watchVars, closer_up,
                   historyVars>>

\* The next transfer of a customer is booked.
BankCredits(a) ==
    /\ Len(bank[a]) < Len(Incoming[a])
    /\ bank' = [bank EXCEPT ![a] = Append(@, now)]
    /\ UNCHANGED <<gcs, now, tableVars, returned, watchVars, closer_up,
                   historyVars>>

\* Row i of the credit history of account a, as a row of reserves_in.
CreditDetails(a, i) ==
    [serial |-> txn.serial, account |-> a, ref |-> i,
     reserve |-> Incoming[a][i].reserve, amt |-> Incoming[a][i].amt,
     date |-> bank[a][i]]

---------------------------------------------------------------------------
(* reserves_in_insert and get_latest_reserve_in_reference.                 *)

\* (Faulty: nothing guards against duplicates.)
DuplicateNever(row) == FALSE

\* ON CONFLICT DO NOTHING, with PRIMARY KEY (reserve_pub, wire_reference).
Duplicate(row) ==
    \E q \in reserves_in : q.reserve = row.reserve /\ q.ref = row.ref

Later(s, t) == IF s < t THEN t ELSE s

\* The record of a reserve after the credit of one row.
Credited(rec, row) ==
    LET expiry == Later(rec.expiry, row.date + IdleExpiration)
    IN [bal |-> rec.bal + row.amt, expiry |-> expiry,
        gc |-> Later(rec.gc, expiry)]

\* The rows of account a, and the one inserted last.
RowsOfAccount(a) == {q \in reserves_in : q.account = a}

LatestRows(a) ==
    {q \in RowsOfAccount(a) : \A p \in RowsOfAccount(a) : p.serial <= q.serial}

\* (Faulty: off by one.)
LatestReferenceNext(a) ==
    IF RowsOfAccount(a) = {} THEN {last_row_off[a]}
    ELSE {q.ref + 1 : q \in LatestRows(a)}

\* The reference of the row inserted last; without one, last_row_off stays.
LatestReference(a) ==
    IF RowsOfAccount(a) = {} THEN {last_row_off[a]}
    ELSE {q.ref : q \in LatestRows(a)}

---------------------------------------------------------------------------
(* taler-exchange-wirewatch.                                               *)

NextAccount == IF wa_pos = NumAccounts THEN 1 ELSE wa_pos + 1

\* find_transfers: begin a transaction, find out where to continue (with -r:
\* where it was) and ask the bank.
FindTransfers ==
    /\ watch = "ready"
    /\ watch' = "asked"
    /\ IF reset_mode
       THEN UNCHANGED <<last_row_off, txn>>
       ELSE /\ \E off \in LatestReference(wa_pos) :
                  last_row_off' = [last_row_off EXCEPT ![wa_pos] = off]
            /\ txn' = Begin(reserves, 0, 0)
    /\ UNCHANGED <<world, tableVars, returned, wa_pos, reset_mode,
                   closer_up, historyVars>>

\* The bank replies with at most BatchSize rows after last_row_off.  With -r
\* the first query of the transaction comes now.
HistoryReply ==
    LET off == last_row_off[wa_pos]
        len == Len(bank[wa_pos])
    IN /\ watch = "asked"
       /\ watch' = "rows"
       /\ txn' = Begin(IF reset_mode THEN reserves ELSE txn.snap, off,
                       IF len <= off THEN off
                       ELSE IF len <= off + BatchSize THEN len
                       ELSE off + BatchSize)
       /\ UNCHANGED <<world, tableVars, returned, wa_pos, last_row_off,
                      reset_mode, closer_up, historyVars>>

\* history_cb, with the details of a row.
HistoryRow ==
    LET row == CreditDetails(wa_pos, txn.row + 1)
    IN /\ watch = "rows" /\ txn.row < txn.end
       /\ txn' = IF Duplicate(row)
                 THEN [txn EXCEPT !.row = @ + 1]
                 ELSE [txn EXCEPT !.row = @ + 1,
                                  !.new = @ \cup {row},
                                  !.serial = @ + 1,
                                  !.cur[row.reserve] = Credited(@, row)]
       /\ UNCHANGED <<world, tableVars, returned, watch, wa_pos,
                      last_row_off, reset_mode, closer_up, historyVars>>

\* (Faulty: isolation level READ COMMITTED.)
CommittableAlways == TRUE

\* Nobody changed the reserves that the transaction updated.
Committable ==
    \A q \in txn.new : reserves[q.reserve] = txn.snap[q.reserve]

Updated(r) == \E q \in txn.new : q.reserve = r
Inserted(i) == \E q \in txn.new : q.ref = i

\* history_cb, at the end of the list: commit.  If there were rows the same
\* account comes again at once, otherwise the next one.  (COMMIT has no
\* results, so the code that advances last_row_off and the batch size after
\* a commit does not run.)
HistoryEnd ==
    /\ watch = "rows" /\ txn.row = txn.end
    /\ Committable
    /\ reserves_in' = reserves_in \cup txn.new
    /\ in_serial' = IF txn.new = {} THEN in_serial ELSE txn.serial
    /\ reserves' = [r \in Reserves |->
                      IF Updated(r) THEN txn.cur[r] ELSE reserves[r]]
    /\ credits' = [credits EXCEPT ![wa_pos] =
          [i \in DOMAIN @ |-> IF Inserted(i) THEN @[i] + 1 ELSE @[i]]]
    /\ wa_pos' = IF txn.end = last_row_off[wa_pos] THEN NextAccount ELSE wa_pos
    /\ watch' = "ready" /\ txn' = NoTransaction
    /\ UNCHANGED <<world, reserves_out, recoup, closed, returned,
                   last_row_off, reset_mode, closer_up, withdrawn_at>>

\* The bank cannot be reached or refuses: the end of an empty list.
HistoryError ==
    /\ watch = "asked"
    /\ watch' = "ready" /\ txn' = NoTransaction
    /\ wa_pos' = NextAccount
    /\ UNCHANGED <<world, tableVars, returned, last_row_off, reset_mode,
                   closer_up, historyVars>>

\* A statement or the commit ends in a soft error: the same account again.
WirewatchSoftError ==
    /\ watch \in {"asked", "rows"}
    /\ watch' = "ready" /\ txn' = NoTransaction
    /\ UNCHANGED <<world, tableVars, returned, wa_pos, last_row_off,
                   reset_mode, closer_up, historyVars>>

\* A hard error, a signal or a crash.
WirewatchStops ==
    /\ watch # "down"
    /\ watch' = "down" /\ txn' = NoTransaction
    /\ UNCHANGED <<world, tableVars, returned, wa_pos, last_row_off,
                   reset_mode, closer_up, historyVars>>

WirewatchStarts ==
    /\ watch = "down"
    /\ watch' = "ready" /\ wa_pos' = 1
    /\ last_row_off' = [a \in Accounts |-> 0]
    /\ reset_mode' \in ResetModes
    /\ UNCHANGED <<world, tableVars, returned, txn, closer_up,
                   historyVars>>

---------------------------------------------------------------------------
(* The HTTP server (modules CoinTables and CoinSpending have the rest of   *)
(* these transactions).                                                    *)

\* (Faulty: does not prolong the life of the reserve.)
AfterWithdrawalGcKept(rec, c) == [rec EXCEPT !.bal = @ - Cost[c]]

AfterWithdrawal(rec, c) ==
    [rec EXCEPT !.bal = @ - Cost[c],
                !.gc = Later(@, now + LegalExpiration)]

Withdraw(c) ==
    LET r == CoinReserve[c]
    IN /\ c \notin reserves_out
       /\ reserves[r] # NoReserve
       /\ Cost[c] <= reserves[r].bal
       /\ reserves_out' = reserves_out \cup {c}
       /\ reserves' = [reserves EXCEPT ![r] = AfterWithdrawal(@, c)]
       /\ withdrawn_at' = [withdrawn_at EXCEPT ![c] = now]
       /\ UNCHANGED <<world, reserves_in, in_serial, recoup, closed, returned,
                      watchVars, closer_up, credits>>

\* insert_recoup_request, for what is left of the coin (one recoup per coin).
Recoup(c, amount) ==
    /\ c \in reserves_out
    /\ \A p \in recoup : p.coin # c
    /\ recoup' = recoup \cup {[coin |-> c, amt |-> amount]}
    /\ reserves' = [reserves EXCEPT ![CoinReserve[c]] =
          [bal |-> @.bal + amount,
           expiry |-> Later(@.expiry, now + IdleExpiration),
           gc |-> Later(@.gc, now + LegalExpiration)]]
    /\ UNCHANGED <<world, reserves_in, in_serial, reserves_out, closed,
                   returned, watchVars, closer_up, historyVars>>

---------------------------------------------------------------------------
(* taler-exchange-closer.                                                  *)

RoundDown(a) == IF RoundUnit = 0 THEN a ELSE a - (a % RoundUnit)

\* (Faulty: a fee above the balance is not noticed.)
ClosingAmountUnsigned(left) == RoundDown(left - ClosingFee)

\* amount_without_fee
ClosingAmount(left) ==
    IF left <= ClosingFee THEN 0 ELSE RoundDown(left - ClosingFee)

\* (Faulty: does not skip empty reserves.)
ExpiredAll ==
    {r \in Reserves : reserves[r] # NoReserve /\ reserves[r].expiry <= now}

\* get_expired_reserves (without ORDER BY and LIMIT)
Expired == {r \in Reserves : reserves[r].expiry <= now /\ reserves[r].bal # 0}

\* Its ORDER BY and LIMIT 1: a reserve that expired first.
ExpiredFirst(r) ==
    /\ r \in Expired
    /\ \A q \in Expired : reserves[r].expiry <= reserves[q].expiry

InsertReserveClosed(r, left) ==
    /\ closed' = [closed EXCEPT ![r] = @ + left]
    /\ reserves' = [reserves EXCEPT ![r].bal = @ - left]

\* expired_reserve_cb: the reserve is emptied, and what the closing fee and
\* rounding leave is wired back.
ExpiredReserve(r, left) ==
    /\ InsertReserveClosed(r, left)
    /\ returned' = [returned EXCEPT ![r] = @ + ClosingAmount(left)]

\* run_reserve_closures
CloseReserve(r) ==
    /\ closer_up
    /\ ExpiredFirst(r)
    /\ r \notin NoMethod
    /\ ExpiredReserve(r, reserves[r].bal)
    /\ UNCHANGED <<world, reserves_in, in_serial, reserves_out, recoup,
                   watchVars, closer_up, historyVars>>

\* A hard error, also a soft one inside expired_reserve_cb, a reserve that has
\* nowhere to be wired back to, or a crash.
CloserStops ==
    /\ closer_up
    /\ closer_up' = FALSE
    /\ UNCHANGED <<world, tableVars, returned, watchVars, historyVars>>

CloserStarts ==
    /\ ~closer_up
    /\ closer_up' = TRUE
    /\ UNCHANGED <<world, tableVars, returned, watchVars, historyVars>>

---------------------------------------------------------------------------
(* The garbage collector (postgres_gc): reserves and, ON DELETE CASCADE,   *)
(* the rows that belong to them.                                           *)

Garbage ==
    {r \in Reserves : /\ reserves[r] # NoReserve
                      /\ reserves[r].gc < now
                      /\ reserves[r].bal = 0}

Gc ==
    /\ gcs < MaxGc /\ gcs' = gcs + 1
    /\ Garbage # {}
    /\ reserves' = [r \in Reserves |->
                      IF r \in Garbage THEN NoReserve ELSE reserves[r]]
    /\ reserves_in' = {q \in reserves_in : q.reserve \notin Garbage}
    /\ reserves_out' = {c \in reserves_out : CoinReserve[c] \notin Garbage}
    /\ recoup' = {p \in recoup : CoinReserve[p.coin] \notin Garbage}
    /\ closed' = [r \in Reserves |-> IF r \in Garbage THEN 0 ELSE closed[r]]
    /\ UNCHANGED <<now, bank, in_serial, returned, watchVars, closer_up,
                   historyVars>>

---------------------------------------------------------------------------
WirewatchStep ==
    \/ FindTransfers \/ HistoryReply \/ HistoryRow \/ HistoryEnd
    \/ HistoryError
    \/ WirewatchSoftError \/ WirewatchStops \/ WirewatchStarts

CloserStep ==
    \/ \E r \in Reserves : CloseReserve(r)
    \/ CloserStops \/ CloserStarts

ServerStep ==
    \E c \in Coins : \/ Withdraw(c)
                     \/ \E amount \in 1..CoinValue[c] : Recoup(c, amount)

Next ==
    \/ Tick
    \/ \E a \in Accounts : BankCredits(a)
    \/ WirewatchStep \/ CloserStep \/ ServerStep \/ Gc

Spec == Init /\ [][Next]_vars

(* The processes are restarted, and neither the database nor the bank      *)
(* fails for ever: what is tried again and again, for one account, succeeds *)
(* in the end.                                                             *)
Fairness ==
    /\ WF_vars(WirewatchStarts) /\ WF_vars(CloserStarts)
    /\ \A a \in Accounts : /\ SF_vars(wa_pos = a /\ FindTransfers)
                           /\ SF_vars(wa_pos = a /\ HistoryReply)
                           /\ SF_vars(wa_pos = a /\ HistoryRow)
                           /\ SF_vars(wa_pos = a /\ HistoryEnd)
    /\ WF_vars(~Committable /\ WirewatchSoftError)
    /\ SF_vars(\E r \in Reserves : CloseReserve(r))

FairSpec == Spec /\ Fairness

---------------------------------------------------------------------------
(* What the programs promise.                                              *)

SumAmt(rows) == SumFunction([row \in rows |-> row.amt])

(* The balance of a reserve is what its rows in reserves_in, reserves_out, *)
(* recoup and reserves_close add up to, although wirewatch computes the    *)
(* new balance from a snapshot that may be older than withdrawals,         *)
(* closures and recoups.                                                   *)
BalanceExplained ==
    \A r \in Reserves :
        reserves[r].bal + closed[r]
          + SumFunctionOnSet(Cost, {c \in reserves_out : CoinReserve[c] = r})
        = SumAmt({q \in reserves_in : q.reserve = r})
          + SumAmt({p \in recoup : CoinReserve[p.coin] = r})

(* reserves_in_insert: '"ON CONFLICT DO NOTHING" is used to guard against  *)
(* duplicates'.  A transfer is credited once at most, however often        *)
(* wirewatch reads the same row of the history again after an error, a     *)
(* restart or a reset (and as long as no garbage was collected).           *)
CreditedOnce ==
    gcs = 0 =>
        \A a \in Accounts : \A i \in 1..Len(Incoming[a]) : credits[a][i] <= 1

(* The same whether or not garbage was collected.                          *)
NeverCreditedTwice ==
    \A a \in Accounts : \A i \in 1..Len(Incoming[a]) : credits[a][i] <= 1

(* The exchange remembers a withdrawal for the legal period, also if the   *)
(* reserve is empty and garbage is collected: insert_withdraw_info moves   *)
(* gc_date.                                                                *)
WithdrawalRemembered ==
    \A c \in Coins :
        withdrawn_at[c] # Never /\ now <= withdrawn_at[c] + LegalExpiration
            => c \in reserves_out

(* "list of transfers of funds into the reserves, one per incoming wire    *)
(* transfer": a transfer that the bank has booked is credited in the end.  *)
CreditsArrive ==
    \A a \in Accounts : \A i \in 1..Len(Incoming[a]) :
        i <= Len(bank[a]) ~> credits[a][i] > 0

(* The money in a reserve does not stay there for ever: once the reserve   *)
(* has expired it is emptied, unless an incoming transfer or a recoup      *)
(* prolongs its life.                                                      *)
ExpiredIsClosed ==
    \A r \in Reserves : r \in Expired ~> r \notin Expired
=============================================================================
