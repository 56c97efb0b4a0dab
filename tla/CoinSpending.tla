--------------------------- MODULE CoinSpending ---------------------------
(***************************************************************************)
(* The HTTP handlers of the exchange that create and spend coins           *)
(* (src/exchange/taler-exchange-httpd_{withdraw,deposit,melt,              *)
(* refreshes_reveal,refund,recoup}.c).                                     *)
(*                                                                         *)
(* A request is a record with the fields the handler parses.  Clients may  *)
(* send a request at any time and as often as they like, and the handlers  *)
(* of different requests interleave.  A handler is not one transaction: it *)
(* looks at the key state first, then makes the coin known in a            *)
(* transaction of its own, then runs the transaction that decides.  The    *)
(* phase of a request says how far its handler is; the key state may       *)
(* change, and other transactions may commit, between two phases.          *)
(***************************************************************************)
EXTENDS CoinTables

CONSTANTS
    Requests,       \* the requests clients may send
    InitialBalance, \* the balance of each reserve when the model starts
    MaxEra          \* how many expiration dates of each denomination may pass

Ops == {"withdraw", "deposit", "melt", "reveal", "refund", "recoup"}

ASSUME BoundsAssumption ==
    /\ InitialBalance \in [Reserves -> Nat]
    /\ MaxEra \in [Denoms -> 0..3]

(***************************************************************************)
(* What parsing a request guarantees.  Two requests may be equal but for   *)
(* further fields that no handler looks at: a client that sends a request  *)
(* twice.                                                                  *)
(***************************************************************************)
ASSUME RequestsAssumption ==
    \A r \in Requests :
        /\ r.op \in Ops
        /\ r.op = "reveal" => r.rc \in Rcs
        /\ r.op # "reveal" => r.coin \in Coins
        /\ r.op = "deposit" => /\ r.contract \in Contracts
                               /\ r.terms \in Terms
                               /\ r.amt \in Amounts
        /\ r.op = "melt" => r.rc \in Rcs /\ r.amt \in Amounts
        /\ r.op = "refund" => /\ r.contract \in Contracts
                              /\ r.rtid \in RTransactions
                              /\ r.amt \in Amounts
                              /\ r.fee \in Amounts
        /\ r.op = "recoup" => r.refreshed \in BOOLEAN

VARIABLES
    revoked,  \* denominations in the revoked_map of the key state
    era,      \* per denomination: how many of its expiration dates passed
    phase,    \* per request: where its handler is
    acked,    \* history: deposits the client got a success reply for
    told,     \* per commitment: the noreveal indices sent to clients
    late      \* history: coins with a deposit committed after a recoup

vars == <<tables, revoked, era, phase, acked, told, late>>

Phases == {"idle", "know", "txn", "zknow", "ztxn", "preflight", "verify",
           "persist"}

TypeOK ==
    /\ TablesTypeOK
    /\ revoked \subseteq Denoms
    /\ era \in [Denoms -> 0..3]
    /\ \A d \in Denoms : era[d] <= MaxEra[d]
    /\ phase \in [Requests -> Phases]
    /\ acked \subseteq Requests
    /\ told \in [Rcs -> SUBSET (0..(Kappa - 1))]
    /\ late \subseteq Coins

---------------------------------------------------------------------------
(* TEH_KS_denomination_key_lookup_by_hash, per use of the key.  era[d] is  *)
(* 0 until expire_withdraw, 1 until expire_deposit, 2 until expire_legal.  *)

LookupWithdraw(d) == d \notin revoked /\ era[d] = 0
LookupDeposit(d)  == d \notin revoked /\ era[d] <= 1
LookupRecoup(d)   == d \in revoked /\ era[d] <= 1
LookupZombie(d)   == era[d] <= 2

---------------------------------------------------------------------------
(* Control of a handler.                                                   *)

Goto(r, p) ==
    /\ phase' = [phase EXCEPT ![r] = p]
    /\ UNCHANGED <<acked, told, late>>

\* Queue the reply v ("ok", "refused" or "error") and leave the handler.
Answer(r, v) ==
    /\ phase' = [phase EXCEPT ![r] = "idle"]
    /\ acked' = IF v = "ok" /\ r.op = "deposit" THEN acked \cup {r} ELSE acked

Reply(r, v) == Answer(r, v) /\ UNCHANGED <<told, late>>

\* TEH_DB_run_transaction gives up: a hard error, or too many soft ones.
\* What the transaction did is rolled back.
TransactionFails(r) ==
    /\ phase[r] # "idle"
    /\ Reply(r, "error")
    /\ UNCHANGED <<tables, revoked, era>>

---------------------------------------------------------------------------
(* The checks a handler makes before its first transaction: the phase it   *)
(* goes to, or "refused".                                                  *)

WithdrawEntry(r) ==
    IF LookupWithdraw(DenomOf[r.coin]) THEN "txn" ELSE "refused"

DepositEntry(r) ==
    IF /\ r.coin \in Issued
       /\ LookupDeposit(DenomOf[r.coin])
       /\ FeeDeposit[DenomOf[r.coin]] <= r.amt
    THEN "know" ELSE "refused"

\* check_for_denomination_key: a coin of a revoked denomination may still
\* be melted if it is known already, and any coin within the legal period
\* if it turns out to be a zombie.
MeltEntry(r) ==
    LET d == DenomOf[r.coin]
        dirty == LookupRecoup(d) /\ r.coin \in known_coins
    IN CASE r.coin \notin Issued -> "refused"
         [] r.coin \in Issued /\ LookupDeposit(d) -> "know"
         [] r.coin \in Issued /\ dirty
              -> IF r.amt < FeeRefresh[d] THEN "refused" ELSE "txn"
         [] r.coin \in Issued /\ ~LookupDeposit(d) /\ ~dirty
              /\ LookupZombie(d) -> "zknow"
         [] OTHER -> "refused"

\* The fresh denominations must be valid for withdrawal and the melt known.
RevealEntry(r) ==
    IF /\ \A c \in FreshOf[r.rc] : LookupWithdraw(DenomOf[c])
       /\ MeltsFor(r.rc) # {}
    THEN "preflight" ELSE "refused"

\* For a coin that is not known the denomination hash stays uninitialized;
\* whether or not a key is found for it, the request ends refused.
RefundEntry(r) ==
    IF /\ r.coin \in known_coins
       /\ LookupDeposit(DenomOf[r.coin])
       /\ FeeRefund[DenomOf[r.coin]] <= r.fee /\ r.fee <= r.amt
    THEN "txn" ELSE "refused"

RecoupEntry(r) ==
    IF r.coin \in Issued /\ LookupRecoup(DenomOf[r.coin])
    THEN "know" ELSE "refused"

Entry(r) ==
    CASE r.op = "withdraw" -> WithdrawEntry(r)
      [] r.op = "deposit"  -> DepositEntry(r)
      [] r.op = "melt"     -> MeltEntry(r)
      [] r.op = "reveal"   -> RevealEntry(r)
      [] r.op = "refund"   -> RefundEntry(r)
      [] r.op = "recoup"   -> RecoupEntry(r)

Receive(r) ==
    /\ phase[r] = "idle"
    /\ Entry(r) # "refused"
    /\ Goto(r, Entry(r))
    /\ UNCHANGED <<tables, revoked, era>>

Refuse(r) ==
    /\ phase[r] = "idle"
    /\ Entry(r) = "refused"
    /\ Reply(r, "refused")
    /\ UNCHANGED <<tables, revoked, era>>

\* TEH_DB_know_coin_transaction; a melt whose amount does not cover the
\* refresh fee is refused after it.
KnowCoin(r) ==
    /\ phase[r] \in {"know", "zknow"}
    /\ EnsureCoinKnown(r.coin)
    /\ IF r.op = "melt" /\ r.amt < FeeRefresh[DenomOf[r.coin]]
       THEN Reply(r, "refused")
       ELSE Goto(r, IF phase[r] = "know" THEN "txn" ELSE "ztxn")
    /\ UNCHANGED <<reserves, reserves_out, deposits, done, refunds,
                   refresh_commitments, refresh_revealed, recoup,
                   recoup_refresh, revoked, era>>

---------------------------------------------------------------------------
(* withdraw_transaction                                                    *)

AmountRequired(c) == Value[DenomOf[c]] + FeeWithdraw[DenomOf[c]]

\* (Faulty: forgets the withdraw fee.)
FundedWithoutFee(r) == reserves[ReserveOf[r.coin]] >= Value[DenomOf[r.coin]]

Funded(r) == reserves[ReserveOf[r.coin]] >= AmountRequired(r.coin)

Withdraw(r) ==
    LET old == r.coin \in reserves_out
    IN /\ r.op = "withdraw" /\ phase[r] = "txn"
       /\ Reply(r, IF old \/ Funded(r) THEN "ok" ELSE "refused")
       /\ IF ~old /\ Funded(r)
          THEN InsertWithdraw(r.coin)
          ELSE UNCHANGED <<reserves, reserves_out>>
       /\ UNCHANGED <<known_coins, deposits, done, refunds,
                      refresh_commitments, refresh_revealed, recoup,
                      recoup_refresh, revoked, era>>

---------------------------------------------------------------------------
(* deposit_transaction.  The totals leave the recoups out.                 *)

DepositReplay(r) == HaveDeposit(r)

\* (Faulty: forgets to add the history.)
DepositSpentAlone(r) == r.amt

DepositSpent(r) == TransactionTotals(r.coin, FALSE, r.amt)
DepositAccepted(r) ==
    /\ ~DepositReplay(r)
    /\ DepositSpent(r) \in 0..Value[DenomOf[r.coin]]

\* UNIQUE (coin_pub, merchant_pub, h_contract_terms)
DepositConflict(r) ==
    \E d \in deposits : d.coin = r.coin /\ d.contract = r.contract

\* An INSERT that violates a UNIQUE constraint is reported as "no results",
\* which is not an error; the COMMIT that follows undoes the transaction and
\* is reported as a success.  So a deposit that is in conflict with an older
\* one is confirmed to the client and not stored.
Deposit(r) ==
    LET stored == DepositAccepted(r) /\ ~DepositConflict(r)
    IN /\ r.op = "deposit" /\ phase[r] = "txn"
       /\ Answer(r, CASE DepositReplay(r) \/ DepositAccepted(r) -> "ok"
                      [] ~DepositReplay(r) /\ DepositSpent(r) < 0 -> "error"
                      [] OTHER -> "refused")
       /\ IF stored THEN InsertDeposit(r) ELSE UNCHANGED deposits
       /\ late' = IF stored /\ RecoupsOf(r.coin) \cup
                              RecoupRefreshesOf(r.coin) # {}
                  THEN late \cup {r.coin} ELSE late
       /\ UNCHANGED <<reserves, reserves_out, known_coins, done, refunds,
                      refresh_commitments, refresh_revealed, recoup,
                      recoup_refresh, revoked, era, told>>

---------------------------------------------------------------------------
(* melt_transaction and refresh_check_melt                                 *)

MeltSpent(r) == TransactionTotals(r.coin, TRUE, r.amt)
ZombieSatisfied(r) == phase[r] = "ztxn" => OldCoinRecoupsOf(r.coin) # {}
MeltAccepted(r) ==
    /\ ZombieSatisfied(r)
    /\ MeltSpent(r) \in 0..Value[DenomOf[r.coin]]

\* (Faulty: draws a new challenge for the repeated request.)
MeltReplayNewChallenge(r) ==
    /\ r.op = "melt" /\ phase[r] \in {"txn", "ztxn"}
    /\ MeltsFor(r.rc) # {}
    /\ \E noreveal_index \in 0..(Kappa - 1) :
          told' = [told EXCEPT ![r.rc] = @ \cup {noreveal_index}]
    /\ Answer(r, "ok")
    /\ UNCHANGED <<tables, revoked, era, late>>

\* The commitment was melted before: the client gets the old index.
MeltReplay(r) ==
    /\ r.op = "melt" /\ phase[r] \in {"txn", "ztxn"}
    /\ \E m \in MeltsFor(r.rc) :
          told' = [told EXCEPT ![r.rc] = @ \cup {m.idx}]
    /\ Answer(r, "ok")
    /\ UNCHANGED <<tables, revoked, era, late>>

MeltRefused(r) ==
    /\ r.op = "melt" /\ phase[r] \in {"txn", "ztxn"}
    /\ MeltsFor(r.rc) = {}
    /\ ~MeltAccepted(r)
    /\ Reply(r, IF ZombieSatisfied(r) /\ MeltSpent(r) < 0
                THEN "error" ELSE "refused")
    /\ UNCHANGED <<tables, revoked, era>>

Melt(r) ==
    /\ r.op = "melt" /\ phase[r] \in {"txn", "ztxn"}
    /\ MeltsFor(r.rc) = {}
    /\ MeltAccepted(r)
    /\ \E noreveal_index \in 0..(Kappa - 1) :
          /\ InsertMelt(r, noreveal_index)
          /\ told' = [told EXCEPT ![r.rc] = @ \cup {noreveal_index}]
    /\ Answer(r, "ok")
    /\ UNCHANGED <<reserves, reserves_out, known_coins, deposits, done,
                   refunds, refresh_revealed, recoup, recoup_refresh,
                   revoked, era, late>>

---------------------------------------------------------------------------
(* refreshes_reveal_preflight, _transaction and _persist, three            *)
(* transactions that are tried again from the first when the last fails.   *)

RevealPreflight(r) ==
    /\ r.op = "reveal" /\ phase[r] = "preflight"
    /\ IF r.rc \in refresh_revealed
       THEN Reply(r, "ok")
       ELSE Goto(r, "verify")
    /\ UNCHANGED <<tables, revoked, era>>

\* (Faulty: leaves out the refresh fee.)
RefreshCostNoFee(rc) ==
    SumFunction([c \in FreshOf[rc] |-> AmountRequired(c)])

RefreshCost(rc) ==
    FeeRefresh[DenomOf[OldCoinOf[rc]]]
      + SumFunction([c \in FreshOf[rc] |-> AmountRequired(c)])

\* The commitment covers the melted coin and the fresh coins, and the
\* melted amount pays for them.
RevealVerify(r) ==
    /\ r.op = "reveal" /\ phase[r] = "verify"
    /\ IF \E m \in MeltsFor(r.rc) :
              m.coin = OldCoinOf[r.rc] /\ RefreshCost(r.rc) <= m.amt
       THEN Goto(r, "persist")
       ELSE Reply(r, "refused")
    /\ UNCHANGED <<tables, revoked, era>>

\* Rows that a concurrent reveal stored in the meantime are no error (see
\* Deposit): the signatures in hand are those of the same envelopes.
RevealPersist(r) ==
    /\ r.op = "reveal" /\ phase[r] = "persist"
    /\ Reply(r, "ok")
    /\ InsertRefreshReveal(r.rc)
    /\ UNCHANGED <<reserves, reserves_out, known_coins, deposits, done,
                   refunds, refresh_commitments, recoup, recoup_refresh,
                   revoked, era>>

\* The last transaction failed: once more from the first.  (The second
\* failure ends the request; see TransactionFails.)
RevealAgain(r) ==
    /\ r.op = "reveal" /\ phase[r] = "persist"
    /\ Goto(r, "preflight")
    /\ UNCHANGED <<tables, revoked, era>>

---------------------------------------------------------------------------
(* refund_transaction.  One refund per deposit; not after the money went   *)
(* to the merchant; at most what was deposited.                            *)

RefundsFor(c, k) == {f \in refunds : f.coin = c /\ f.contract = k}
DepositsFor(c, k) == {d \in deposits : d.coin = c /\ d.contract = k}

RefundReplay(r) ==
    \E f \in RefundsFor(r.coin, r.contract) : f.rtid = r.rtid

\* (Faulty: allows a second refund under another rtransaction_id.)
RefundAcceptedTwice(r) ==
    /\ ~RefundReplay(r)
    /\ ~DepositDone(r.coin, r.contract)
    /\ \E d \in DepositsFor(r.coin, r.contract) : r.amt <= d.amt

\* (Faulty: does not ask whether the merchant was paid.)
RefundAcceptedAfterPayment(r) ==
    /\ RefundsFor(r.coin, r.contract) = {}
    /\ \E d \in DepositsFor(r.coin, r.contract) : r.amt <= d.amt

RefundAccepted(r) ==
    /\ RefundsFor(r.coin, r.contract) = {}
    /\ ~DepositDone(r.coin, r.contract)
    /\ \E d \in DepositsFor(r.coin, r.contract) : r.amt <= d.amt

Refund(r) ==
    /\ r.op = "refund" /\ phase[r] = "txn"
    /\ Reply(r, IF RefundReplay(r) \/ RefundAccepted(r)
                THEN "ok" ELSE "refused")
    /\ IF RefundAccepted(r) THEN InsertRefund(r) ELSE UNCHANGED refunds
    /\ UNCHANGED <<reserves, reserves_out, known_coins, deposits, done,
                   refresh_commitments, refresh_revealed, recoup,
                   recoup_refresh, revoked, era>>

---------------------------------------------------------------------------
(* recoup_transaction                                                      *)

\* The reserve or the old coin that gets the money is in the database.
RecoupTargetFound(r) ==
    IF r.refreshed
    THEN \E rc \in refresh_revealed : r.coin \in FreshOf[rc]
    ELSE r.coin \in reserves_out

RecoupSpent(r) == TransactionTotals(r.coin, TRUE, 0)
RecoupAmount(r) == Value[DenomOf[r.coin]] - RecoupSpent(r)
RecoupedBefore(r) == RecoupsOf(r.coin) \cup RecoupRefreshesOf(r.coin) # {}

Recoup(r) ==
    /\ r.op = "recoup" /\ phase[r] = "txn"
    /\ RecoupTargetFound(r)
    /\ RecoupSpent(r) >= 0
    /\ RecoupAmount(r) \in 1..Value[DenomOf[r.coin]]
    /\ IF r.refreshed
       THEN /\ InsertRecoupRefreshRequest(r.coin, RecoupAmount(r))
            /\ UNCHANGED <<recoup, reserves>>
       ELSE /\ InsertRecoupRequest(r.coin, RecoupAmount(r))
            /\ UNCHANGED recoup_refresh
    /\ Reply(r, "ok")
    /\ UNCHANGED <<reserves_out, known_coins, deposits, done, refunds,
                   refresh_commitments, refresh_revealed, revoked, era>>

\* No money left on the coin, no target, or a total that makes no sense.
RecoupNothing(r) ==
    /\ r.op = "recoup" /\ phase[r] = "txn"
    /\ ~( /\ RecoupTargetFound(r)
          /\ RecoupSpent(r) >= 0
          /\ RecoupAmount(r) > 0 )
    /\ Reply(r, CASE ~RecoupTargetFound(r) -> "refused"
                  [] RecoupTargetFound(r)
                     /\ (RecoupSpent(r) < 0 \/ RecoupAmount(r) < 0) -> "error"
                  [] OTHER -> IF RecoupedBefore(r) THEN "ok" ELSE "refused")
    /\ UNCHANGED <<tables, revoked, era>>

---------------------------------------------------------------------------
(* The environment of the handlers.                                        *)

\* A key reload (make_fresh_key_state) finds the revocation of d.
Revoke(d) ==
    /\ d \notin revoked
    /\ revoked' = revoked \cup {d}
    /\ UNCHANGED <<tables, era, phase, acked, told, late>>

\* The next expiration date of d passes.
Expire(d) ==
    /\ era[d] < MaxEra[d]
    /\ era' = [era EXCEPT ![d] = @ + 1]
    /\ UNCHANGED <<tables, revoked, phase, acked, told, late>>

\* The aggregator includes a deposit in a wire transfer.
Aggregate(d) ==
    /\ ~DepositDone(d.coin, d.contract)
    /\ MarkDepositDone(d.coin, d.contract)
    /\ UNCHANGED <<reserves, reserves_out, known_coins, deposits, refunds,
                   refresh_commitments, refresh_revealed, recoup,
                   recoup_refresh, revoked, era, phase, acked, told, late>>

---------------------------------------------------------------------------
Init ==
    /\ reserves = InitialBalance
    /\ reserves_out = {} /\ known_coins = {}
    /\ deposits = {} /\ done = {} /\ refunds = {}
    /\ refresh_commitments = {} /\ refresh_revealed = {}
    /\ recoup = {} /\ recoup_refresh = {}
    /\ revoked = {} /\ late = {}
    /\ era = [d \in Denoms |-> 0]
    /\ phase = [r \in Requests |-> "idle"]
    /\ acked = {}
    /\ told = [rc \in Rcs |-> {}]

Handler(r) ==
    \/ Receive(r) \/ Refuse(r) \/ KnowCoin(r) \/ TransactionFails(r)
    \/ Withdraw(r) \/ Deposit(r)
    \/ MeltReplay(r) \/ MeltRefused(r) \/ Melt(r)
    \/ RevealPreflight(r) \/ RevealVerify(r) \/ RevealPersist(r)
    \/ RevealAgain(r)
    \/ Refund(r) \/ Recoup(r) \/ RecoupNothing(r)

Next ==
    \/ \E r \in Requests : Handler(r)
    \/ \E d \in Denoms : Revoke(d) \/ Expire(d)
    \/ \E d \in deposits : Aggregate(d)

Spec == Init /\ [][Next]_vars

---------------------------------------------------------------------------
(* What the handlers promise.                                              *)

(* A coin never costs the exchange more than its value: whatever order     *)
(* deposits, melts, refunds and recoups commit in, the totals that         *)
(* calculate_transaction_list_totals computes stay within the value of     *)
(* the denomination.  Coins with a deposit that overtook a recoup are left *)
(* out: deposit_transaction does not look at recoups.                      *)
CoinNotOverspent ==
    \A c \in Coins \ late :
        TransactionTotals(c, TRUE, 0) <= Value[DenomOf[c]]

(* The same for every coin.                                                *)
NoCoinOverspent ==
    \A c \in Coins : TransactionTotals(c, TRUE, 0) <= Value[DenomOf[c]]

(* The history of a coin always adds up: neither computation of            *)
(* calculate_transaction_list_totals ends in the GNUNET_SYSERR of an       *)
(* amount below zero.                                                      *)
TotalsComputable ==
    \A c \in Coins, include_recoup \in BOOLEAN :
        TransactionTotals(c, include_recoup, 0) >= 0

\* What the merchant is paid for a deposit: deposit_cb of the aggregator
\* leaves the deposit fee with the coin's owner when there was a refund.
MerchantShare(d) ==
    LET refs == RefundsFor(d.coin, d.contract)
    IN IF refs = {} THEN d.amt - FeeDeposit[DenomOf[d.coin]]
                    ELSE d.amt - SumAmt(refs)

Residual(c) == Value[DenomOf[c]] - TransactionTotals(c, TRUE, 0)

\* Fees the exchange has earned for good: of withdrawals and of melts.
EarnedFees ==
    SumFunction([c \in reserves_out |-> FeeWithdraw[DenomOf[c]]])
      + SumFunction([m \in refresh_commitments |->
                        FeeRefresh[DenomOf[m.coin]]])

(* No money is created: what the reserves hold, what the coins in          *)
(* circulation are still worth, what merchants are owed or were paid and   *)
(* the fees earned never exceed what was wired to the exchange.  It        *)
(* relates every table, over withdrawals, deposits, refunds, refreshes and *)
(* recoups.                                                                *)
NoMoneyCreated ==
    late = {} =>
        SumFunction(reserves)
          + SumFunction([c \in Issued |-> Residual(c)])
          + SumFunction([d \in deposits |-> MerchantShare(d)])
          + EarnedFees
        <= SumFunction(InitialBalance)

(* The cut-and-choose challenge of a refresh is drawn once: all success    *)
(* replies to melts of one commitment name the stored noreveal_index, so a *)
(* client that repeats a melt never hears two challenges.                  *)
OneChallenge ==
    \A rc \in Rcs : told[rc] # {} =>
        \E m \in refresh_commitments : MeltsFor(rc) = {m} /\ told[rc] = {m.idx}

(* A refund belongs to one deposit, there is one per deposit, and it does  *)
(* not exceed the deposit.                                                 *)
RefundsWithinDeposits ==
    \A f \in refunds :
        /\ RefundsFor(f.coin, f.contract) = {f}
        /\ \E d \in DepositsFor(f.coin, f.contract) : f.amt <= d.amt

(* Refunds and histories fit together: both of the above.                  *)
RefundsConsistent == RefundsWithinDeposits /\ TotalsComputable

(* Once the aggregator has included a deposit in a transfer no refund of   *)
(* it is granted, also not by a handler that was already running.          *)
PaidIsFinal ==
    [][\A p \in done : RefundsFor(p[1], p[2])' = RefundsFor(p[1], p[2])]_vars

(* reply_deposit_success: "the exchange affirms that ... it will execute   *)
(* the requested deposit operation with the given wiring details".         *)
ConfirmedDepositStored ==
    \A r \in acked : HaveDeposit(r)
=============================================================================
