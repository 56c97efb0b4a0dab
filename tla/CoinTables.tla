---------------------------- MODULE CoinTables ----------------------------
(***************************************************************************)
(* The part of the exchange's database that says who owns which money:     *)
(* reserves, withdrawn coins, known coins, deposits, refunds, melts,       *)
(* revealed coins and recoups, with the operations of the PostgreSQL       *)
(* plugin (src/exchangedb/plugin_exchangedb_postgres.c) that the HTTP      *)
(* handlers use on them.  Every transaction of the exchange runs at        *)
(* isolation level SERIALIZABLE, so a transaction is one atomic step and   *)
(* the operators below are the queries (state functions) and the updates   *)
(* (actions on one table) such a step is made of.                          *)
(*                                                                         *)
(* A coin stands for its public key together with the denomination         *)
(* signature and the blinding factor, so coin, h_blind_ev and coin_ev are  *)
(* one model value.  A contract stands for the pair (merchant_pub,         *)
(* h_contract_terms); "terms" for what else a deposit permission fixes     *)
(* (timestamp, refund deadline, h_wire).  Amounts are naturals, in units   *)
(* of the smallest fraction of one currency.                               *)
(***************************************************************************)
EXTENDS Integers, FiniteSets, FiniteSetsExt

CONSTANTS
    Denoms,        \* denominations
    Coins,         \* coins
    Reserves,      \* reserves
    Contracts,     \* (merchant_pub, h_contract_terms)
    Terms,         \* (timestamp, refund_deadline, h_wire) of a deposit
    Rcs,           \* refresh commitments
    RTransactions, \* rtransaction_id values used by merchants
    Kappa,         \* TALER_CNC_KAPPA
    Value, FeeWithdraw, FeeDeposit, FeeRefresh, FeeRefund, \* per denomination
    DenomOf,       \* the denomination of a coin
    ReserveOf,     \* the reserve a coin is withdrawn from
    OldCoinOf,     \* the coin a refresh commitment is made for
    FreshOf,       \* the fresh coins a refresh commitment is made for
    Amounts        \* the amounts that occur

(***************************************************************************)
(* Fees and values are natural numbers; a fresh coin belongs to one        *)
(* refresh commitment only (its envelope is unique in the table            *)
(* refresh_revealed_coins), and a commitment has finitely many of them     *)
(* (at most TALER_MAX_FRESH_COINS).                                        *)
(***************************************************************************)
ASSUME DenominationsAssumption ==
    /\ Value \in [Denoms -> Nat]
    /\ FeeWithdraw \in [Denoms -> Nat]
    /\ FeeDeposit \in [Denoms -> Nat]
    /\ FeeRefresh \in [Denoms -> Nat]
    /\ FeeRefund \in [Denoms -> Nat]

ASSUME CoinsAssumption ==
    /\ DenomOf \in [Coins -> Denoms]
    /\ ReserveOf \in [Coins -> Reserves]
    /\ OldCoinOf \in [Rcs -> Coins]
    /\ FreshOf \in [Rcs -> SUBSET Coins]
    /\ \A rc \in Rcs : IsFiniteSet(FreshOf[rc])
    /\ \A rc1, rc2 \in Rcs : rc1 # rc2 => FreshOf[rc1] \cap FreshOf[rc2] = {}

\* The table reserves has finitely many rows; NoMoneyCreated adds them up.
ASSUME ReservesAssumption == IsFiniteSet(Reserves)

ASSUME AmountsAssumption ==
    /\ Amounts \subseteq Nat
    /\ Kappa \in Nat \ {0}

VARIABLES
    reserves,             \* reserves.current_balance, per reserve
    reserves_out,         \* coins withdrawn (h_blind_ev of the table)
    known_coins,          \* coins in the table known_coins
    deposits,             \* rows of the table deposits
    done,                 \* <<coin, contract>> of the deposits marked done
    refunds,              \* rows of the table refunds
    refresh_commitments,  \* rows of the table refresh_commitments
    refresh_revealed,     \* commitments with rows in refresh_revealed_coins
    recoup,               \* rows of the tables recoup and recoup_refresh
    recoup_refresh

tables == <<reserves, reserves_out, known_coins, deposits, done, refunds,
            refresh_commitments, refresh_revealed, recoup, recoup_refresh>>

DepositRow == [coin : Coins, contract : Contracts, terms : Terms, amt : Nat]
RefundRow  == [coin : Coins, contract : Contracts, rtid : RTransactions,
               amt : Nat]
MeltRow    == [rc : Rcs, coin : Coins, amt : Nat, idx : 0..(Kappa - 1)]
RecoupRow  == [coin : Coins, amt : Nat, uuid : Nat]

TablesTypeOK ==
    /\ reserves \in [Reserves -> Nat]
    /\ reserves_out \subseteq Coins
    /\ known_coins \subseteq Coins
    /\ deposits \subseteq DepositRow
    /\ done \subseteq Coins \X Contracts
    /\ refunds \subseteq RefundRow
    /\ refresh_commitments \subseteq MeltRow
    /\ refresh_revealed \subseteq Rcs
    /\ recoup \subseteq RecoupRow
    /\ recoup_refresh \subseteq RecoupRow

---------------------------------------------------------------------------
(* Coins that exist: the exchange has signed them.                         *)

Issued == reserves_out \cup UNION {FreshOf[rc] : rc \in refresh_revealed}

---------------------------------------------------------------------------
(* Queries of the plugin.                                                  *)

\* have_deposit: a deposit row identical to the request.
HaveDeposit(r) ==
    [coin |-> r.coin, contract |-> r.contract, terms |-> r.terms,
     amt |-> r.amt] \in deposits

DepositsOf(c)  == {d \in deposits : d.coin = c}
MeltsOf(c)     == {m \in refresh_commitments : m.coin = c}
RefundsOf(c)   == {f \in refunds : f.coin = c}
RecoupsOf(c)   == {p \in recoup : p.coin = c}
RecoupRefreshesOf(c) == {p \in recoup_refresh : p.coin = c}
\* OLD_COIN_RECOUP entries: recoups of coins that c was refreshed into.
OldCoinRecoupsOf(c) ==
    {p \in recoup_refresh : \E rc \in refresh_revealed :
                               p.coin \in FreshOf[rc] /\ OldCoinOf[rc] = c}

SumAmt(rows) == SumFunction([row \in rows |-> row.amt])

\* get_melt_index
MeltsFor(rc) == {m \in refresh_commitments : m.rc = rc}

\* test_deposit_done
DepositDone(c, k) == <<c, k>> \in done

---------------------------------------------------------------------------
(* TALER_EXCHANGEDB_calculate_transaction_list_totals: what the rows that  *)
(* get_coin_transactions returns for a coin cost it, on top of "off".      *)
(* Rows of the recoup tables are returned only for include_recoup.  A      *)
(* negative result is the GNUNET_SYSERR of the code: amounts are unsigned. *)

TransactionTotals(c, include_recoup, off) ==
    LET d == DenomOf[c]
        refs == RefundsOf(c)
        spent == off + SumAmt(DepositsOf(c)) + SumAmt(MeltsOf(c))
                     + Cardinality(refs) * FeeRefund[d]
        refunded == SumAmt(refs)
                     + (IF refs # {} THEN FeeDeposit[d] ELSE 0)
        recouped == SumAmt(RecoupsOf(c)) + SumAmt(RecoupRefreshesOf(c))
    IN IF include_recoup
       THEN spent + recouped - (refunded + SumAmt(OldCoinRecoupsOf(c)))
       ELSE spent - refunded

---------------------------------------------------------------------------
(* Updates of the plugin, each on its own table(s).                        *)

InsertWithdraw(c) ==
    /\ reserves_out' = reserves_out \cup {c}
    /\ reserves' = [reserves EXCEPT ![ReserveOf[c]] =
                       @ - (Value[DenomOf[c]] + FeeWithdraw[DenomOf[c]])]

EnsureCoinKnown(c) == known_coins' = known_coins \cup {c}

InsertDeposit(r) ==
    deposits' = deposits \cup
        {[coin |-> r.coin, contract |-> r.contract, terms |-> r.terms,
          amt |-> r.amt]}

InsertRefund(r) ==
    refunds' = refunds \cup
        {[coin |-> r.coin, contract |-> r.contract, rtid |-> r.rtid,
          amt |-> r.amt]}

InsertMelt(r, idx) ==
    refresh_commitments' = refresh_commitments \cup
        {[rc |-> r.rc, coin |-> r.coin, amt |-> r.amt, idx |-> idx]}

InsertRefreshReveal(rc) == refresh_revealed' = refresh_revealed \cup {rc}

\* The new row gets the next serial number.
NextUuid(rows) == Cardinality(rows) + 1

\* (Faulty: gives the reserve the value of the coin, not what is left.)
InsertRecoupRequestFullValue(c, amount) ==
    /\ recoup' = recoup \cup
          {[coin |-> c, amt |-> amount, uuid |-> NextUuid(recoup)]}
    /\ reserves' = [reserves EXCEPT ![ReserveOf[c]] = @ + Value[DenomOf[c]]]

InsertRecoupRequest(c, amount) ==
    /\ recoup' = recoup \cup
          {[coin |-> c, amt |-> amount, uuid |-> NextUuid(recoup)]}
    /\ reserves' = [reserves EXCEPT ![ReserveOf[c]] = @ + amount]

InsertRecoupRefreshRequest(c, amount) ==
    recoup_refresh' = recoup_refresh \cup
        {[coin |-> c, amt |-> amount, uuid |-> NextUuid(recoup_refresh)]}

MarkDepositDone(c, k) == done' = done \cup {<<c, k>>}
=============================================================================
