------------------------------- MODULE Books -------------------------------
(***************************************************************************)
(* The books of the exchange as the auditor finds them: the rows of the    *)
(* tables with their serial numbers, the balances of the reserves, and the *)
(* bank's credits and debits.                                              *)
(*                                                                         *)
(* How the exchange comes to accept an operation is the business of the    *)
(* modules CoinSpending, Aggregation and ReserveFunds; here an operation   *)
(* is one transaction that writes one row.  PostgreSQL draws the serial    *)
(* number when the row is inserted, and others see the row when the        *)
(* transaction commits: up to MaxOpen transactions are between the two.    *)
(* The operations of a behaviour are a plan; each happens at most once.    *)
(* A dishonest operation writes a row that the code would have refused.    *)
(***************************************************************************)
EXTENDS Integers, Sequences, FiniteSets, FiniteSetsExt, SequencesExt

CONSTANTS
    Op,           \* the operations: a function from names to records
    Plans,        \* what happened before the first audit (the sequences of
                  \* credits and withdrawals), and what may happen then (a set)
    Reserves, Coins, Accounts,
    DenomOf,      \* per coin: its denomination
    Denom,        \* per denomination: value, fees, end of the deposit period
    ClosingFee, WireFee,
    RoundUnit,    \* CURRENCY_ROUND_UNIT
    Expiration,   \* IDLE_RESERVE_EXPIRATION_TIME
    MaxTime,      \* bound on the clock
    MaxOpen       \* bound on the transactions that are open at a time

Ops == DOMAIN Op

DenomOfCoin(c) == Denom[DenomOf[c]]

\* What a withdrawal takes from the reserve.
Price(c) == DenomOfCoin(c).value + DenomOfCoin(c).withdraw

ASSUME BooksAssumption ==
    /\ DenomOf \in [Coins -> DOMAIN Denom]
    /\ \A d \in DOMAIN Denom :
          /\ {Denom[d].withdraw, Denom[d].deposit, Denom[d].refresh, Denom[d].refund}
                \subseteq Nat
          /\ Denom[d].value \in Nat \ {0}
    /\ IsFiniteSet(Reserves) /\ IsFiniteSet(Coins)
    /\ {ClosingFee, WireFee, Expiration, MaxTime} \subseteq Nat
    /\ RoundUnit \in Nat \ {0} /\ MaxOpen \in Nat \ {0}

\* What the handlers check of a request before they ask the database: the
\* amount covers the fee.  A refund is of a deposit, a reveal of a melt; a
\* fresh coin comes from one melt and was not withdrawn.
ASSUME OpAssumption ==
    /\ \A o \in Ops :
          /\ Op[o].honest \in BOOLEAN
          /\ CASE Op[o].kind = "credit" ->
                    Op[o].reserve \in Reserves /\ Op[o].account \in Accounts
                    /\ Op[o].amount \in Nat
               [] Op[o].kind = "withdraw" ->
                    Op[o].reserve \in Reserves /\ Op[o].coin \in Coins
               [] Op[o].kind = "close" ->
                    Op[o].reserve \in Reserves /\ Op[o].account \in Accounts
               [] Op[o].kind = "deposit" ->
                    /\ Op[o].coin \in Coins /\ Op[o].amount \in Nat
                    /\ DenomOfCoin(Op[o].coin).deposit <= Op[o].amount
               [] Op[o].kind = "melt" ->
                    /\ Op[o].coin \in Coins /\ Op[o].amount \in Nat
                    /\ DenomOfCoin(Op[o].coin).refresh <= Op[o].amount
                    /\ Op[o].fresh \in Coins \ {Op[o].coin}
               [] Op[o].kind = "reveal" ->
                    Op[o].melt \in Ops /\ Op[Op[o].melt].kind = "melt"
               [] Op[o].kind = "refund" ->
                    /\ Op[o].deposit \in Ops /\ Op[Op[o].deposit].kind = "deposit"
                    /\ Op[o].amount \in Nat
                    /\ DenomOfCoin(Op[Op[o].deposit].coin).refund <= Op[o].amount
               [] Op[o].kind \in {"recoup", "recoup_refresh"} -> Op[o].coin \in Coins
               [] Op[o].kind = "wire" ->
                    /\ Op[o].account \in Accounts
                    /\ IsFiniteSet(Op[o].deposits)
                    /\ \A d \in Op[o].deposits : d \in Ops /\ Op[d].kind = "deposit"
               [] Op[o].kind = "steal" ->
                    ~ Op[o].honest /\ Op[o].account \in Accounts
               [] OTHER -> Op[o].kind \in {"revoke", "confirm", "time"}
    /\ \A m, o \in Ops :
          /\ Op[m].kind = "melt" /\ Op[o].kind = "melt" /\ Op[m].fresh = Op[o].fresh
                => m = o
          /\ Op[m].kind = "melt" /\ Op[o].kind = "withdraw" => Op[m].fresh # Op[o].coin

\* Customers have withdrawn from a reserve what they had put into it.
ASSUME PlanAssumption ==
    \A P \in Plans :
       LET ins(r) == {o \in Range(P.credits) : Op[o].reserve = r}
           outs(r) == {o \in Range(P.withdrawals) : Op[o].reserve = r}
       IN /\ P.then \subseteq Ops /\ IsFiniteSet(P.then)
          /\ P.credits \in Seq(Ops) /\ P.withdrawals \in Seq(Ops)
          /\ \A s \in {P.credits, P.withdrawals} :
                \A i, j \in DOMAIN s : s[i] = s[j] => i = j
          /\ \A o \in Range(P.credits) : Op[o].kind = "credit" /\ Op[o].honest
          /\ \A o \in Range(P.withdrawals) : Op[o].kind = "withdraw" /\ Op[o].honest
          /\ \A r \in Reserves :
                SumFunctionOnSet([o \in outs(r) |-> Price(Op[o].coin)], outs(r))
                  <= SumFunctionOnSet([o \in ins(r) |-> Op[o].amount], ins(r))

VARIABLES
    plan,      \* the operations of this behaviour
    row,       \* per operation: serial number (0: no row), amount and time
    open,      \* operations whose transaction is not committed
    reserve,   \* the table reserves: balance and expiration
    prewire,   \* the operations with a row in the table prewire, in order
    credits,   \* the bank's credits, in order
    debits,    \* the bank's debits, in order
    now        \* the time

bookVars == <<plan, row, open, reserve, prewire, credits, debits, now>>

Committed == {o \in plan : row[o].id > 0} \ open

BooksTypeOK ==
    /\ \E P \in Plans : plan = Range(P.credits) \cup Range(P.withdrawals) \cup P.then
    /\ row \in [plan -> [id : Nat, amt : Int, at : Nat]]
    /\ open \subseteq plan
    /\ reserve \in [Reserves -> [balance : Int, expiry : Nat]]
    /\ \A s \in {prewire, credits, debits} : s \in Seq(plan)
    /\ now \in 0..MaxTime

---------------------------------------------------------------------------
(* Queries on a set S of visible rows.                                     *)

Of(S, k) == {o \in S : Op[o].kind = k}
AmountIn == [o \in plan |-> row[o].amt]
Total(T) == SumFunctionOnSet(AmountIn, T)

\* op on the rows of T, in the order of their serial numbers.
Newest(T) == CHOOSE o \in T : \A p \in T : row[p].id <= row[o].id
FoldBySerial(op(_, _), base, T) ==
    MapThenFoldSet(LAMBDA o, x : op(x, o), base, LAMBDA o : o, LAMBDA s : Newest(s), T)

\* Before the first audit customers may have filled reserves and withdrawn
\* coins from them.
BooksInit ==
    \E P \in Plans :
       LET ins == Range(P.credits)
           outs == Range(P.withdrawals)
           serial(s, o) == CHOOSE i \in DOMAIN s : s[i] = o
           at(r, T) == {o \in T : Op[o].reserve = r}
       IN /\ plan = ins \cup outs \cup P.then
          /\ row = [o \in plan |->
                CASE o \in ins -> [id |-> serial(P.credits, o),
                                   amt |-> Op[o].amount, at |-> 0]
                  [] o \in outs -> [id |-> serial(P.withdrawals, o),
                                    amt |-> Price(Op[o].coin), at |-> 0]
                  [] OTHER -> [id |-> 0, amt |-> 0, at |-> 0]]
          /\ reserve = [r \in Reserves |->
                [balance |-> Total(at(r, ins)) - Total(at(r, outs)),
                 expiry |-> IF at(r, ins) = {} THEN 0 ELSE Expiration]]
          /\ credits = P.credits
          /\ open = {} /\ prewire = <<>> /\ debits = <<>> /\ now = 0

\* The coin of a row, and the coin that the fresh coin f was made from.
CoinOf(o) == IF Op[o].kind = "refund" THEN Op[Op[o].deposit].coin ELSE Op[o].coin
MeltOf(f) == CHOOSE m \in Of(plan, "melt") : Op[m].fresh = f
OldCoinOf(f) == Op[MeltOf(f)].coin

RowsOf(c, S, kinds) == {o \in S : Op[o].kind \in kinds /\ CoinOf(o) = c}
OldCoinRecoups(c, S) == {o \in Of(S, "recoup_refresh") : OldCoinOf(Op[o].coin) = c}

\* What has been spent of a coin: refunds come back with the deposit fee,
\* but each costs a refund fee.
Spent(c, S) ==
    LET refunds == RowsOf(c, S, {"refund"})
    IN Total(RowsOf(c, S, {"deposit", "melt", "recoup", "recoup_refresh"}))
       + Cardinality(refunds) * DenomOfCoin(c).refund
       - Total(refunds \cup OldCoinRecoups(c, S))
       - (IF refunds = {} THEN 0 ELSE DenomOfCoin(c).deposit)

Revealed(m, S) == \E v \in Of(S, "reveal") : Op[v].melt = m
Withdrawn(c, S) == \E w \in Of(S, "withdraw") : Op[w].coin = c
Refreshed(c, S) == \E m \in Of(S, "melt") : Op[m].fresh = c /\ Revealed(m, S)
Issued(c, S) == Withdrawn(c, S) \/ Refreshed(c, S)
KnownCoins(S) ==
    {CoinOf(o) : o \in {p \in S : Op[p].kind \in {"deposit", "melt", "recoup",
                                                  "recoup_refresh"}}}
Revoked(d, S) == \E v \in Of(S, "revoke") : Op[v].denom = d

\* The reserve of a row.
WithdrawalOf(c) == CHOOSE w \in Of(plan, "withdraw") : Op[w].coin = c
ReserveOf(o) ==
    IF Op[o].kind = "recoup" THEN Op[WithdrawalOf(Op[o].coin)].reserve
    ELSE Op[o].reserve

\* What a deposit is worth in a wire transfer, and the transfer's amount.
Contribution(d, S) ==
    LET refunds == {r \in Of(S, "refund") : Op[r].deposit = d}
    IN row[d].amt - (IF refunds = {} THEN DenomOfCoin(Op[d].coin).deposit
                     ELSE Total(refunds))
WireTotal(o, S) ==
    SumFunctionOnSet([d \in Op[o].deposits |-> Contribution(d, S)], Op[o].deposits)
RoundedDown(a) == a - (a % RoundUnit)

\* The fee that the closer takes from a reserve with balance a, and what it
\* wires: the fee is no more than the balance.
ClosingFeeOf(a) == Min({a, ClosingFee})
ClosingWire(a) == RoundedDown(a - ClosingFeeOf(a))

---------------------------------------------------------------------------
(* The exchange.                                                           *)

Wired(d) == \E o \in Of(Committed, "wire") : d \in Op[o].deposits

\* (The code fails if what comes back to a coin is more than what it spent.)
CanSpend(c, a) ==
    /\ Issued(c, Committed)
    /\ Spent(c, Committed) + a \in 0..DenomOfCoin(c).value

\* The amount of the row that an operation writes.
Amount(o) ==
    LET p == Op[o]
    IN CASE p.kind \in {"credit", "deposit", "melt", "refund"} -> p.amount
         [] p.kind = "withdraw" -> Price(p.coin)
         [] p.kind = "close" -> reserve[p.reserve].balance
         [] p.kind \in {"recoup", "recoup_refresh"} ->
              DenomOfCoin(p.coin).value - Spent(p.coin, Committed)
         [] p.kind = "wire" ->
              RoundedDown(WireTotal(o, Committed) - WireFee)
              + (IF p.honest THEN 0 ELSE 1)
         [] OTHER -> 0

\* What the code checks before it writes the row.
Justified(o) ==
    LET p == Op[o]
        S == Committed
    IN CASE p.kind = "credit" ->
              \E i \in DOMAIN credits :
                  /\ credits[i] = o
                  /\ \A j \in 1..(i - 1) :
                        Op[credits[j]].account = p.account => credits[j] \in S
         [] p.kind = "withdraw" -> Amount(o) <= reserve[p.reserve].balance
         [] p.kind = "close" ->
              /\ reserve[p.reserve].balance > 0
              /\ reserve[p.reserve].expiry <= now
         [] p.kind \in {"deposit", "melt"} -> CanSpend(p.coin, p.amount)
         [] p.kind = "reveal" ->
              /\ p.melt \in S
              /\ Price(Op[p.melt].fresh)
                   <= row[p.melt].amt - DenomOfCoin(Op[p.melt].coin).refresh
         [] p.kind = "refund" ->
              /\ p.deposit \in S
              /\ ~ Wired(p.deposit)
              /\ Total({r \in Of(S, "refund") : Op[r].deposit = p.deposit})
                   + p.amount <= row[p.deposit].amt
         [] p.kind \in {"recoup", "recoup_refresh"} ->
              /\ IF p.kind = "recoup" THEN Withdrawn(p.coin, S) ELSE Refreshed(p.coin, S)
              /\ Revoked(DenomOf[p.coin], S)
              /\ Amount(o) \in 1..DenomOfCoin(p.coin).value
         [] p.kind = "wire" ->
              /\ p.deposits \subseteq S
              /\ \A d \in p.deposits : ~ Wired(d)
              /\ WireTotal(o, S) >= WireFee + RoundUnit
         [] p.kind = "revoke" -> TRUE

\* What a dishonest exchange does: it issues a coin without taking its price
\* from the reserve, deposits a coin beyond its value, wires too much.
Fraudulent(o) ==
    LET p == Op[o]
    IN \/ p.kind = "withdraw"
       \/ p.kind = "deposit" /\ ~ CanSpend(p.coin, p.amount)
       \/ p.kind = "wire" /\ p.deposits \subseteq Committed

\* Rows of one table are numbered in the order of the inserts.
NextSerial(k) == 1 + Max({0} \cup {row[o].id : o \in Of(plan, k)})

\* Two open transactions on one coin or reserve do not both commit.
Touches(o) ==
    CASE Op[o].kind \in {"credit", "close"} -> {Op[o].reserve}
      [] Op[o].kind = "withdraw" -> {Op[o].reserve, Op[o].coin}
      [] Op[o].kind = "recoup" -> {ReserveOf(o), Op[o].coin}
      [] Op[o].kind = "recoup_refresh" -> {Op[o].coin, OldCoinOf(Op[o].coin)}
      [] Op[o].kind \in {"deposit", "refund", "melt"} -> {CoinOf(o)}
      [] Op[o].kind = "reveal" -> {Op[Op[o].melt].coin, Op[Op[o].melt].fresh}
      [] Op[o].kind = "wire" -> {Op[d].coin : d \in Op[o].deposits}
      [] Op[o].kind = "revoke" -> {c \in Coins : DenomOf[c] = Op[o].denom}

Insert(o) ==
    /\ Op[o].kind \notin {"steal", "confirm", "time"}
    /\ row[o].id = 0
    /\ Cardinality(open) < MaxOpen
    /\ \A p \in open : Touches(o) \cap Touches(p) = {}
    /\ IF Op[o].honest THEN Justified(o) ELSE Fraudulent(o)
    /\ row' = [row EXCEPT ![o] = [id |-> NextSerial(Op[o].kind),
                                  amt |-> Amount(o), at |-> now]]
    /\ open' = open \cup {o}
    /\ prewire' = IF \/ Op[o].kind = "wire"
                     \/ Op[o].kind = "close" /\ ClosingWire(Amount(o)) > 0
                  THEN Append(prewire, o)
                  ELSE prewire
    /\ UNCHANGED <<plan, reserve, credits, debits, now>>

\* The commit, with what the operation does to its reserve.  (A dishonest
\* withdrawal does not take the coin's price from the reserve.)
Credited(r, a, at) ==
    [balance |-> reserve[r].balance + a,
     expiry |-> Max({reserve[r].expiry, at + Expiration})]
Commit(o) ==
    /\ o \in open
    /\ open' = open \ {o}
    /\ reserve' =
         CASE Op[o].kind \in {"credit", "recoup"} ->
                [reserve EXCEPT ![ReserveOf(o)] =
                    Credited(ReserveOf(o), row[o].amt, row[o].at)]
           [] Op[o].kind \in {"withdraw", "close"} /\ Op[o].honest ->
                [reserve EXCEPT ![Op[o].reserve].balance = @ - row[o].amt]
           [] OTHER -> reserve
    /\ UNCHANGED <<plan, row, prewire, credits, debits, now>>

\* Time passes, in a plan that says so.
Tick ==
    /\ Of(plan, "time") # {}
    /\ now < MaxTime
    /\ now' = now + 1
    /\ UNCHANGED <<plan, row, open, reserve, prewire, credits, debits>>

---------------------------------------------------------------------------
(* The bank.                                                               *)

\* A customer wires money to the exchange.
BankCredit(o) ==
    /\ Op[o].kind = "credit"
    /\ \A i \in DOMAIN credits : credits[i] # o
    /\ credits' = Append(credits, o)
    /\ UNCHANGED <<plan, row, open, reserve, prewire, debits, now>>

\* taler-exchange-transfer executes the first prepared transfer that is
\* committed and not finished.
Unfinished == {i \in DOMAIN prewire : /\ prewire[i] \in Committed
                                       /\ \A j \in DOMAIN debits : debits[j] # prewire[i]}
BankDebit ==
    /\ Unfinished # {}
    /\ debits' = Append(debits, prewire[Min(Unfinished)])
    /\ UNCHANGED <<plan, row, open, reserve, prewire, credits, now>>

\* Somebody with access to the exchange's account wires money away.
Steal(o) ==
    /\ Op[o].kind = "steal"
    /\ \A i \in DOMAIN debits : debits[i] # o
    /\ debits' = Append(debits, o)
    /\ UNCHANGED <<plan, row, open, reserve, prewire, credits, now>>

\* What the bank says was wired.
DebitAmount(o) ==
    CASE Op[o].kind = "close" -> ClosingWire(row[o].amt)
      [] Op[o].kind = "steal" -> Op[o].amount
      [] OTHER -> row[o].amt

BooksNext ==
    \/ \E o \in plan : Insert(o) \/ Commit(o) \/ BankCredit(o) \/ Steal(o)
    \/ BankDebit
    \/ Tick
============================================================================
