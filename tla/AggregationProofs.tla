------------------------- MODULE AggregationProofs -------------------------
(***************************************************************************)
(* Proofs about Aggregation, for every set of deposits, every amount, fee, *)
(* deadline, limit and rounding unit.                                      *)
(*                                                                         *)
(* The safety properties of the module are not inductive by themselves.    *)
(* What they rest on is stated here as the invariant IndInv: serial        *)
(* numbers and wire transfer identifiers are not used twice, every entry   *)
(* of the bank's ledger comes from a row of prewire, every row of prewire  *)
(* from a row of wire_out, and an aggregation unit under way holds only    *)
(* deposits of its target that nobody else has marked as done.             *)
(*                                                                         *)
(* That the amounts are right takes the second invariant PayInv: the total *)
(* of a unit is the sum of what its deposits are worth in the snapshot,    *)
(* the amount of a transfer is the sum for its tracked deposits, less the  *)
(* wire fee and rounded down, and the bank numbers its entries without     *)
(* gaps.  With it every step is a step of MerchantPayments.  The last part *)
(* is about module Tracking, whose steps leave this database alone.        *)
(***************************************************************************)
EXTENDS Tracking, SumTheorems, SequenceTheorems

SameTransfer(x, y) ==
    x.wtid = y.wtid /\ x.target = y.target /\ x.amt = y.amt

\* The bank and the table prewire.
BankInv ==
    /\ \A p \in prewire : p.uuid < next_uuid
    /\ \A p, q \in prewire : p.uuid = q.uuid => p = q
    /\ \A e, f \in ledger : e.uid = f.uid => e = f
    /\ \A e \in ledger :
          \E p \in prewire : p.uuid = e.uid /\ SameTransfer(p, e)
    /\ replies \subseteq Executed
    /\ finished \subseteq Executed

\* The tables prewire and wire_out.
WireOutInv ==
    /\ \A o \in wire_out : o.wtid < next_wtid
    /\ \A p \in prewire : \E o \in wire_out : SameTransfer(o, p)
    /\ \A o \in wire_out : \E p \in prewire : SameTransfer(p, o)
    /\ \A p, q \in prewire : p.wtid = q.wtid => p = q

\* The aggregation unit under way.
UnitInv ==
    agg \in {"match", "aborted", "mark"} =>
        /\ (au.rows \cup au.todo) \cap done = {}
        /\ \A d \in au.rows \cup au.todo : TargetOf[d] = au.target

IndInv == TypeOK /\ BankInv /\ WireOutInv /\ UnitInv /\ DoneIsTracked

---------------------------------------------------------------------------
(* Amounts.                                                                *)

(* A deposit contributes an amount, never a negative number: refunds do    *)
(* not exceed the deposit, and a fee that does counts as malformed         *)
(* (deposit_cb, aggregate_cb).                                             *)
LEMMA ContributionType ==
    ASSUME NEW f, RefundsOK(f), NEW d \in Deposits
    PROVE  Contribution(d, f[d]) \in Nat
  BY DepositsAssumption DEF RefundsOK, Contribution, NoRefund

(* Rounding down yields an amount (TALER_amount_round_down).               *)
LEMMA RoundDownType ==
    ASSUME NEW a \in Nat
    PROVE  RoundDown(a) \in Nat
<1>1. CASE RoundUnit = 0
  BY <1>1 DEF RoundDown
<1>2. CASE RoundUnit # 0
  <2>1. RoundUnit \in Nat
    BY WireAssumption
  <2>2. a - (a % RoundUnit) \in Nat
    BY <1>2, <2>1, SMT
  <2> QED BY <1>2, <2>2 DEF RoundDown
<1> QED BY <1>1, <1>2

(* run_aggregation prepares a transfer of an amount above zero only: a     *)
(* total below the wire fee never wraps around.                            *)
LEMMA FinalAmountType ==
    ASSUME NEW t \in Nat, ~TooLow(t)
    PROVE  FinalAmount(t) \in Nat
<1>1. WireFee \in Nat
  BY WireAssumption
<1>2. t - WireFee \in Nat
  BY <1>1 DEF TooLow
<1> QED BY <1>2, RoundDownType DEF FinalAmount

---------------------------------------------------------------------------
(* The initial states.                                                     *)

(* An empty aggregation unit is one.                                       *)
LEMMA EmptyUnitType == EmptyUnit \in Unit /\ RefundsOK(EmptyUnit.snap)
  BY TargetsAssumption DEF EmptyUnit, Unit, RefundsOK, NoRefund

(* The invariant holds in the empty database.                              *)
LEMMA InitIndInv == Init => IndInv
<1> SUFFICES ASSUME Init PROVE IndInv
  OBVIOUS
<1> USE DEF Init, WireInit
<1>1. TypeOK
  <2>1. WireTypeOK
    BY DEF WireTypeOK, Uuids, NoRow
  <2>2. RefundsOK(refund)
    BY DEF RefundsOK, NoRefund
  <2> QED BY <2>1, <2>2, EmptyUnitType DEF TypeOK, AggPhases, Uuids
<1>2. BankInv
  BY DEF BankInv
<1>3. WireOutInv
  BY DEF WireOutInv
<1>4. UnitInv
  BY DEF UnitInv
<1>5. DoneIsTracked
  BY DEF DoneIsTracked
<1> QED BY <1>1, <1>2, <1>3, <1>4, <1>5 DEF IndInv

---------------------------------------------------------------------------
(* Steps of the transfer process and of the bank.                          *)

(* The bank adds at most one entry to its ledger, for a row of prewire     *)
(* whose request_uid it has not seen (TALER_FAKEBANK_make_transfer).       *)
LEMMA BankExecutesInv ==
    ASSUME IndInv, NEW p \in prewire, BankExecutes(p),
           prewire' = prewire
    PROVE  /\ ledger' \subseteq LedgerRow
           /\ bank_serial' \in Uuids
           /\ \A e, f \in ledger' : e.uid = f.uid => e = f
           /\ \A e \in ledger' :
                 \E q \in prewire' : q.uuid = e.uid /\ SameTransfer(q, e)
           /\ Executed' = Executed \cup {p.uuid}
<1> USE DEF IndInv, TypeOK, WireTypeOK
<1>1. CASE p.uuid \in Executed
  <2>1. ledger' = ledger /\ bank_serial' = bank_serial
    BY <1>1 DEF BankExecutes
  <2> QED BY <1>1, <2>1 DEF BankInv, Executed
<1>2. CASE p.uuid \notin Executed
  <2> DEFINE e0 == [serial |-> bank_serial, uid |-> p.uuid, wtid |-> p.wtid,
                    target |-> p.target, amt |-> p.amt]
  <2>1. ledger' = ledger \cup {e0} /\ bank_serial' = bank_serial + 1
    BY <1>2 DEF BankExecutes, MakeTransfer
  <2>2. e0 \in LedgerRow
    BY DEF LedgerRow, PrewireRow
  <2>3. \A e \in ledger : e.uid # p.uuid
    BY <1>2 DEF Executed
  <2>4. e0.uid = p.uuid /\ SameTransfer(p, e0)
    BY DEF SameTransfer
  <2>5. bank_serial' \in Uuids
    BY <2>1 DEF Uuids
  <2>6. Executed' = Executed \cup {p.uuid}
    BY <2>1, <2>4 DEF Executed
  <2> HIDE DEF e0
  <2>7. \A e, f \in ledger' : e.uid = f.uid => e = f
    BY <2>1, <2>3, <2>4 DEF BankInv
  <2>8. \A e \in ledger' :
            \E q \in prewire' : q.uuid = e.uid /\ SameTransfer(q, e)
    BY <2>1, <2>4 DEF BankInv
  <2> QED BY <2>1, <2>2, <2>5, <2>6, <2>7, <2>8
<1> QED BY <1>1, <1>2

(* No step of taler-exchange-transfer or of the bank breaks the invariant. *)
LEMMA WireStepIndInv ==
    ASSUME IndInv, WireStep, UNCHANGED aggVars
    PROVE  IndInv'
<1>1. prewire' = prewire /\ next_uuid' = next_uuid
  BY DEF WireStep, RunTransfers, BankTransfer, BankReplyLost, RequestLost,
         WireConfirm, WireConfirmSoftError, WireConfirmFails, TransferCrashes,
         TransferRestarts
<1>2. WireTypeOK' /\ BankInv'
  <2> USE <1>1 DEF IndInv, TypeOK, WireTypeOK, Uuids, NoRow
  <2>0. ASSUME ledger' = ledger PROVE Executed' = Executed
    BY <2>0 DEF Executed
  <2>1. CASE \E p \in prewire : RunTransfers(p)
    <3> PICK p \in prewire : RunTransfers(p)
      BY <2>1
    <3>1. p.uuid \in Nat \ {0}
      BY DEF PrewireRow
    <3>2. WireTypeOK'
      BY <3>1 DEF RunTransfers
    <3>3. BankInv'
      BY <2>0 DEF RunTransfers, BankInv
    <3> QED BY <3>2, <3>3
  <2>2. CASE \E p \in prewire : BankTransfer(p)
    <3> PICK p \in prewire : BankTransfer(p)
      BY <2>2
    <3>1. BankExecutes(p)
      BY DEF BankTransfer
    <3>2. replies' \subseteq replies \cup {p.uuid}
      BY DEF BankTransfer, BankReplies
    <3>3. p.uuid \in Uuids
      BY DEF PrewireRow
    <3>4. WireTypeOK'
      BY <3>1, <3>2, <3>3, BankExecutesInv DEF BankTransfer
    <3>5. replies' \subseteq Executed' /\ finished' \subseteq Executed'
      BY <3>1, <3>2, BankExecutesInv DEF BankTransfer, BankInv
    <3>6. BankInv'
      BY <3>1, <3>5, BankExecutesInv DEF BankInv
    <3> QED BY <3>4, <3>6
  <2>3. CASE \E p \in prewire : BankReplyLost(p)
    <3> PICK p \in prewire : BankReplyLost(p)
      BY <2>3
    <3>1. BankExecutes(p)
      BY DEF BankReplyLost
    <3> QED BY <3>1, BankExecutesInv DEF BankReplyLost, BankInv
  <2>4. CASE \E p \in prewire : RequestLost(p)
    BY <2>0, <2>4 DEF RequestLost, BankInv
  <2>5. CASE WireConfirm
    <3>1. wpd \in Uuids /\ wpd \in Executed
      BY <2>5 DEF WireConfirm, BankInv
    <3>2. WireTypeOK'
      BY <2>5, <3>1 DEF WireConfirm
    <3>3. replies' \subseteq Executed' /\ finished' \subseteq Executed'
      BY <2>0, <2>5, <3>1 DEF WireConfirm, BankInv
    <3>4. BankInv'
      BY <2>5, <3>3 DEF WireConfirm, BankInv
    <3> QED BY <3>2, <3>4
  <2>6. CASE WireConfirmSoftError
    <3>1. WireTypeOK'
      BY <2>6 DEF WireConfirmSoftError
    <3>2. replies' \subseteq Executed' /\ finished' \subseteq Executed'
      BY <2>0, <2>6 DEF WireConfirmSoftError, BankInv
    <3>3. BankInv'
      BY <2>6, <3>2 DEF WireConfirmSoftError, BankInv
    <3> QED BY <3>1, <3>3
  <2>7. CASE WireConfirmFails \/ TransferCrashes
    <3>0. transfer_up' \in BOOLEAN /\ wpd' = 0 /\ replies' = {}
      BY <2>7, Zenon DEF WireConfirmFails, TransferCrashes
    <3>1. WireTypeOK'
      BY <2>7, <3>0 DEF WireConfirmFails, TransferCrashes
    <3>2. replies' \subseteq Executed' /\ finished' \subseteq Executed'
      BY <2>0, <2>7 DEF WireConfirmFails, TransferCrashes, BankInv
    <3>3. BankInv'
      BY <2>7, <3>2 DEF WireConfirmFails, TransferCrashes, BankInv
    <3> QED BY <3>1, <3>3
  <2>8. CASE TransferRestarts
    BY <2>0, <2>8 DEF TransferRestarts, BankInv
  <2> QED BY <2>1, <2>2, <2>3, <2>4, <2>5, <2>6, <2>7, <2>8 DEF WireStep
<1>3. TypeOK'
  BY <1>2 DEF IndInv, TypeOK, aggVars
<1>4. WireOutInv' /\ UnitInv' /\ DoneIsTracked'
  BY <1>1 DEF IndInv, WireOutInv, UnitInv, DoneIsTracked, aggVars
<1> QED BY <1>2, <1>3, <1>4 DEF IndInv

---------------------------------------------------------------------------
(* Steps of the aggregator and of the HTTP server.                         *)

(* A row that aggregate_cb adds leaves the total an amount.                *)
LEMMA UnitSumType ==
    ASSUME IndInv, NEW e \in au.todo
    PROVE  e \in Deposits /\ Sum(e) \in Nat /\ Amount[e] \in Nat
<1>1. au \in Unit /\ e \in Deposits /\ RefundsOK(au.snap)
  BY DEF IndInv, TypeOK, Unit
<1>2. Contribution(e, au.snap[e]) \in Nat
  BY <1>1, ContributionType
<1> QED BY <1>1, <1>2, DepositsAssumption DEF Sum, Unit

(* A unit built from rows of a unit under way is one with the same target, *)
(* without deposits that are done.                                         *)
LEMMA NextUnitIndInv ==
    ASSUME IndInv, agg = "match",
           NEW rows \in SUBSET (au.rows \cup au.todo),
           NEW todo \in SUBSET au.todo, NEW total \in Nat,
           au' = NextUnit(rows, total, todo), agg' \in {"match", "aborted"},
           UNCHANGED <<wireVars, now, deposits, tiny, done, refund,
                       aggregation_tracking, wire_out, next_wtid>>
    PROVE  IndInv'
<1>1. WireTypeOK'
  BY DEF IndInv, TypeOK, WireTypeOK, wireVars
<1>2. au' \in Unit /\ RefundsOK(au'.snap)
  BY DEF IndInv, TypeOK, Unit, NextUnit
<1>3. TypeOK'
  BY <1>1, <1>2 DEF IndInv, TypeOK, AggPhases
<1>4. BankInv'
  BY DEF IndInv, BankInv, Executed, wireVars
<1>5. WireOutInv' /\ DoneIsTracked'
  BY DEF IndInv, WireOutInv, DoneIsTracked, wireVars
<1>6. UnitInv'
  <2>1. au'.rows = rows /\ au'.todo = todo /\ au'.target = au.target
    BY DEF NextUnit
  <2> QED BY <2>1 DEF IndInv, UnitInv
<1> QED BY <1>3, <1>4, <1>5, <1>6 DEF IndInv

(* Giving up a transaction leaves the tables alone.                        *)
LEMMA GiveUpIndInv ==
    ASSUME IndInv, NEW p \in {"ready", "down"}, GiveUp(p)
    PROVE  IndInv'
<1> USE DEF GiveUp, wireVars
<1>1. WireTypeOK'
  BY DEF IndInv, TypeOK, WireTypeOK
<1>2. TypeOK'
  BY <1>1, EmptyUnitType DEF IndInv, TypeOK, AggPhases
<1>3. BankInv'
  BY DEF IndInv, BankInv, Executed
<1>4. WireOutInv' /\ UnitInv' /\ DoneIsTracked'
  BY DEF IndInv, WireOutInv, UnitInv, DoneIsTracked
<1> QED BY <1>2, <1>3, <1>4 DEF IndInv

(* The commit of an aggregation adds one row each to wire_out and prewire, *)
(* under a wire transfer identifier that is new, and marks exactly the     *)
(* deposits that it tracks.                                                *)
LEMMA CommitIndInv ==
    ASSUME IndInv, CommitAggregation
    PROVE  IndInv'
<1> DEFINE a == FinalAmount(au.total)
           p0 == [uuid |-> next_uuid, wtid |-> next_wtid,
                  target |-> au.target, amt |-> a]
           o0 == [wtid |-> next_wtid, target |-> au.target, amt |-> a]
<1>1. agg = "match" /\ au \in Unit /\ a \in Nat
  BY FinalAmountType DEF IndInv, TypeOK, Unit, CommitAggregation, IterationOver
<1>2. /\ prewire' = prewire \cup {p0} /\ next_uuid' = next_uuid + 1
      /\ wire_out' = wire_out \cup {o0} /\ next_wtid' = next_wtid + 1
  BY DEF CommitAggregation, WirePrepareDataInsert, StoreWireTransferOut
<1>3. /\ next_uuid \in Nat \ {0} /\ next_wtid \in Nat \ {0}
      /\ au.target \in Targets /\ au.rows \subseteq Deposits
  BY <1>1 DEF IndInv, TypeOK, WireTypeOK, Uuids, Unit
<1>4. /\ p0 \in PrewireRow /\ o0 \in WireOutRow
      /\ p0.uuid = next_uuid /\ p0.wtid = next_wtid
      /\ o0.wtid = next_wtid /\ o0.target = au.target
      /\ SameTransfer(p0, o0) /\ SameTransfer(o0, p0)
  BY <1>1, <1>3 DEF PrewireRow, WireOutRow, SameTransfer, Uuids
<1> HIDE DEF a, p0, o0
<1>5. /\ done' = done \cup au.rows
      /\ aggregation_tracking' =
            aggregation_tracking \cup (au.rows \X {next_wtid})
      /\ agg' = "ready" /\ au' = EmptyUnit
      /\ UNCHANGED <<now, deposits, tiny, refund, finished, wpd, transfer_up,
                     requests, replies, ledger, bank_serial>>
  BY DEF CommitAggregation, MarkDone, InsertTracking
<1>6. TypeOK'
  <2>1. WireTypeOK'
    BY <1>2, <1>3, <1>4, <1>5 DEF IndInv, TypeOK, WireTypeOK, Uuids
  <2>2. au' \in Unit /\ RefundsOK(au'.snap)
    BY <1>5, EmptyUnitType
  <2>3. next_wtid' \in Uuids /\ wire_out' \subseteq WireOutRow
    BY <1>2, <1>3, <1>4 DEF IndInv, TypeOK, Uuids
  <2>4. aggregation_tracking' \subseteq Deposits \X Uuids
    BY <1>3, <1>5 DEF IndInv, TypeOK, Uuids
  <2> QED BY <1>3, <1>5, <2>1, <2>2, <2>3, <2>4
          DEF IndInv, TypeOK, AggPhases
<1>7. BankInv'
  <2>1. \A p \in prewire : p.uuid \in Nat
    BY DEF IndInv, TypeOK, WireTypeOK, PrewireRow, Uuids
  <2>2. \A p \in prewire' : p.uuid < next_uuid'
    BY <1>2, <1>3, <1>4, <2>1 DEF IndInv, BankInv
  <2>3. \A p, q \in prewire' : p.uuid = q.uuid => p = q
    BY <1>2, <1>3, <1>4, <2>1 DEF IndInv, BankInv
  <2>4. Executed' = Executed
    BY <1>5 DEF Executed
  <2> QED BY <1>2, <1>5, <2>2, <2>3, <2>4 DEF IndInv, BankInv
<1>8. WireOutInv'
  <2>1. \A o \in wire_out : o.wtid \in Nat /\ o.wtid < next_wtid
    BY DEF IndInv, TypeOK, WireOutRow, Uuids, WireOutInv
  <2>2. \A p \in prewire : p.wtid \in Nat /\ p.wtid < next_wtid
    BY <2>1 DEF IndInv, WireOutInv, SameTransfer
  <2>3. \A o \in wire_out' : o.wtid < next_wtid'
    BY <1>2, <1>3, <1>4, <2>1
  <2>4. \A p, q \in prewire' : p.wtid = q.wtid => p = q
    BY <1>2, <1>3, <1>4, <2>2 DEF IndInv, WireOutInv
  <2>5. \A p \in prewire' : \E o \in wire_out' : SameTransfer(o, p)
    BY <1>2, <1>4 DEF IndInv, WireOutInv
  <2>6. \A o \in wire_out' : \E p \in prewire' : SameTransfer(p, o)
    BY <1>2, <1>4 DEF IndInv, WireOutInv
  <2> QED BY <2>3, <2>4, <2>5, <2>6 DEF WireOutInv
<1>9. UnitInv'
  BY <1>5 DEF UnitInv
<1>10. DoneIsTracked'
  <2>1. au.rows \cap done = {} /\ \A d \in au.rows : TargetOf[d] = au.target
    BY <1>1 DEF IndInv, UnitInv
  <2>2. done = {t[1] : t \in aggregation_tracking}
    BY DEF IndInv, DoneIsTracked
  <2>3. done' = {t[1] : t \in aggregation_tracking'}
    <3>1. ASSUME NEW t \in aggregation_tracking' PROVE t[1] \in done'
      BY <1>5, <2>2
    <3>2. ASSUME NEW d \in done'
          PROVE  \E t \in aggregation_tracking' : t[1] = d
      <4>1. CASE d \in done
        BY <1>5, <2>2, <4>1
      <4>2. CASE d \in au.rows
        <5>1. <<d, next_wtid>> \in aggregation_tracking'
          BY <1>5, <4>2
        <5> QED BY <5>1
      <4> QED BY <1>5, <4>1, <4>2
    <3> QED BY <3>1, <3>2
  <2>4. \A s, t \in aggregation_tracking' : s[1] = t[1] => s = t
    <3> SUFFICES ASSUME NEW s \in aggregation_tracking',
                        NEW t \in aggregation_tracking', s[1] = t[1]
                 PROVE  s = t
      OBVIOUS
    <3>1. CASE s \in aggregation_tracking /\ t \in aggregation_tracking
      BY <3>1 DEF IndInv, DoneIsTracked
    <3>2. CASE s \notin aggregation_tracking /\ t \notin aggregation_tracking
      BY <1>5, <3>2
    <3>3. CASE ~(s \in aggregation_tracking <=> t \in aggregation_tracking)
      BY <1>5, <2>1, <2>2, <3>3
    <3> QED BY <3>1, <3>2, <3>3
  <2>5. \A t \in aggregation_tracking' :
           \E o \in wire_out' : o.wtid = t[2] /\ o.target = TargetOf[t[1]]
    BY <1>2, <1>4, <1>5, <2>1 DEF IndInv, DoneIsTracked
  <2> QED BY <2>3, <2>4, <2>5 DEF DoneIsTracked
<1> QED BY <1>6, <1>7, <1>8, <1>9, <1>10 DEF IndInv

(* Deposits, refunds, the clock and the marking of tiny deposits leave the *)
(* transfers alone.                                                        *)
LEMMA OtherStepIndInv ==
    ASSUME IndInv, ServerStep \/ ValueTooLow \/ MarkTiny
    PROVE  IndInv'
<1>1. /\ UNCHANGED <<wireVars, done, aggregation_tracking, wire_out, next_wtid>>
      /\ agg' \in AggPhases
      /\ au' \in {au, EmptyUnit}
      /\ agg' \in {"ready"} \/ (au' = au /\ agg' = agg)
                            \/ (au' = au /\ agg \in {"match", "aborted"})
  BY DEF IndInv, TypeOK, AggPhases, ServerStep, Deposit, Refund, Tick,
         ValueTooLow, IterationOver, MarkTiny
<1>2. WireTypeOK'
  BY <1>1 DEF IndInv, TypeOK, WireTypeOK, wireVars
<1>3. RefundsOK(refund')
  <2>1. CASE refund' = refund
    BY <2>1 DEF IndInv, TypeOK
  <2>2. ASSUME NEW d \in Deposits, NEW a \in RefundAmounts, Refund(d, a)
        PROVE  RefundsOK(refund')
    <3>1. a \in 0..Amount[d]
      BY <2>2, DepositsAssumption, WireAssumption DEF Refund, Refundable
    <3> QED BY <2>2, <3>1 DEF Refund, IndInv, TypeOK, RefundsOK
  <2> QED BY <2>1, <2>2 DEF ServerStep, Deposit, Tick, ValueTooLow, MarkTiny
<1>4. now' \in Nat /\ deposits' \subseteq Deposits /\ tiny' \subseteq Deposits
  BY DEF IndInv, TypeOK, Unit, ServerStep, Deposit, Refund, Tick, ValueTooLow,
         MarkTiny
<1>5. TypeOK'
  BY <1>1, <1>2, <1>3, <1>4, EmptyUnitType DEF IndInv, TypeOK
<1>6. BankInv'
  BY <1>1 DEF IndInv, BankInv, Executed, wireVars
<1>7. WireOutInv' /\ DoneIsTracked'
  BY <1>1 DEF IndInv, WireOutInv, DoneIsTracked, wireVars
<1>8. UnitInv'
  BY <1>1 DEF IndInv, UnitInv
<1> QED BY <1>5, <1>6, <1>7, <1>8 DEF IndInv

(* Starting a unit with a ready deposit (deposit_cb).                      *)
LEMMA StartIndInv ==
    ASSUME IndInv, NEW d \in deposits, StartAggregation(d)
    PROVE  IndInv'
<1>1. d \in Deposits /\ d \notin done
  BY DEF IndInv, TypeOK, StartAggregation, Ready
<1>2. WireTypeOK'
  BY DEF IndInv, TypeOK, WireTypeOK, StartAggregation, wireVars
<1>3. Contribution(d, refund[d]) \in Nat
  BY <1>1, ContributionType DEF IndInv, TypeOK
<1>4. au' \in Unit /\ au'.snap = refund
  BY <1>1, <1>3, DepositsAssumption
     DEF IndInv, TypeOK, RefundsOK, StartAggregation, Unit
<1>5. TypeOK'
  BY <1>2, <1>4 DEF IndInv, TypeOK, StartAggregation, AggPhases
<1>6. BankInv'
  BY DEF IndInv, BankInv, Executed, StartAggregation, wireVars
<1>7. WireOutInv' /\ DoneIsTracked'
  BY DEF IndInv, WireOutInv, DoneIsTracked, StartAggregation, wireVars
<1>8. UnitInv'
  BY <1>1 DEF UnitInv, StartAggregation
<1> QED BY <1>5, <1>6, <1>7, <1>8 DEF IndInv

(* No step of the system breaks the invariant.                             *)
LEMMA NextIndInv == IndInv /\ [Next]_vars => IndInv'
<1> SUFFICES ASSUME IndInv, [Next]_vars PROVE IndInv'
  OBVIOUS
<1>1. CASE WireStep /\ UNCHANGED aggVars
  BY <1>1, WireStepIndInv
<1>2. CASE \E d \in deposits : StartAggregation(d)
  BY <1>2, StartIndInv
<1>3. ASSUME NEW e \in deposits, AggregateRow(e) PROVE IndInv'
  <2>1. e \in au.todo /\ agg = "match" /\ agg' = "match"
    BY <1>3 DEF AggregateRow, NextRow
  <2>2. Sum(e) \in Nat /\ au.total \in Nat
    BY <2>1, UnitSumType DEF IndInv, TypeOK, Unit
  <2>3. CASE Fits(e)
    BY <1>3, <2>1, <2>2, <2>3, NextUnitIndInv DEF AggregateRow
  <2>4. CASE ~Fits(e)
    BY <1>3, <2>1, <2>2, <2>4, NextUnitIndInv DEF AggregateRow
  <2> QED BY <2>3, <2>4
<1>4. ASSUME NEW e \in deposits, AggregateRowFails(e) PROVE IndInv'
  <2>1. e \in au.todo /\ agg = "match" /\ agg' = "aborted"
    BY <1>4 DEF AggregateRowFails, NextRow
  <2>2. Sum(e) \in Nat /\ Amount[e] \in Nat
    BY <2>1, UnitSumType
  <2>3. CASE au' = NextUnit(au.rows, Amount[e], {})
    BY <1>4, <2>1, <2>2, <2>3, NextUnitIndInv DEF AggregateRowFails
  <2>4. CASE au' = NextUnit(au.rows \cup {e}, Sum(e), {})
    BY <1>4, <2>1, <2>2, <2>4, NextUnitIndInv DEF AggregateRowFails
  <2> QED BY <1>4, <2>3, <2>4 DEF AggregateRowFails
<1>5. CASE \/ AggregationSoftError \/ PrepareFails \/ MarkTinyFails
           \/ AggregatorStops \/ AggregatorRestarts
  BY <1>5, GiveUpIndInv
     DEF AggregationSoftError, PrepareFails, MarkTinyFails, AggregatorStops,
         AggregatorRestarts
<1>6. CASE ServerStep \/ ValueTooLow \/ MarkTiny
  BY <1>6, OtherStepIndInv
<1>7. CASE CommitAggregation
  BY <1>7, CommitIndInv
<1>8. CASE UNCHANGED vars
  <2>1. TypeOK'
    BY <1>8 DEF IndInv, TypeOK, WireTypeOK, vars, wireVars, aggVars
  <2>2. BankInv'
    BY <1>8 DEF IndInv, BankInv, Executed, vars, wireVars
  <2>3. WireOutInv' /\ UnitInv' /\ DoneIsTracked'
    BY <1>8 DEF IndInv, WireOutInv, UnitInv, DoneIsTracked, vars, wireVars,
                aggVars
  <2> QED BY <2>1, <2>2, <2>3 DEF IndInv
<1> QED BY <1>1, <1>2, <1>3, <1>4, <1>5, <1>6, <1>7, <1>8
        DEF Next, AggregatorStep

---------------------------------------------------------------------------
(* The theorems.                                                           *)

(* IndInv is an invariant of the aggregator, the transfer process, the     *)
(* bank and the HTTP server together.                                      *)
THEOREM Invariance == Spec => []IndInv
  BY InitIndInv, NextIndInv, PTL DEF Spec

(* All variables keep their types: in particular no transfer has a         *)
(* negative amount, whatever fees and refunds there are.                   *)
THEOREM TypeCorrect == Spec => []TypeOK
<1>1. IndInv => TypeOK
  BY DEF IndInv
<1> QED BY <1>1, Invariance, PTL

(* A deposit is done if and only if it is part of exactly one transfer, to *)
(* its own target (run_aggregation).                                       *)
THEOREM TrackingCorrect == Spec => []DoneIsTracked
<1>1. IndInv => DoneIsTracked
  BY DEF IndInv
<1> QED BY <1>1, Invariance, PTL

(* There is one prepared transfer for each row of wire_out, and none       *)
(* without (run_aggregation).                                              *)
THEOREM PreparationCorrect == Spec => []OnePreparationPerTransfer
<1>1. IndInv => OnePreparationPerTransfer
  BY DEF IndInv, WireOutInv, SameTransfer, OnePreparationPerTransfer
<1> QED BY <1>1, Invariance, PTL

(* Merchants are paid at most once per transfer, and the right amount,     *)
(* under crashes, lost messages and repeated requests of                   *)
(* taler-exchange-transfer.                                                *)
THEOREM PaidOnceCorrect == Spec => []PaidOnce
<1>1. IndInv => PaidOnce
  <2> SUFFICES ASSUME IndInv PROVE PaidOnce
    OBVIOUS
  <2>1. ASSUME NEW e \in ledger, NEW f \in ledger, e.wtid = f.wtid
        PROVE  e = f
    <3>1. PICK p \in prewire : p.uuid = e.uid /\ SameTransfer(p, e)
      BY DEF IndInv, BankInv
    <3>2. PICK q \in prewire : q.uuid = f.uid /\ SameTransfer(q, f)
      BY DEF IndInv, BankInv
    <3>3. p = q
      BY <2>1, <3>1, <3>2 DEF IndInv, WireOutInv, SameTransfer
    <3> QED BY <3>1, <3>2, <3>3 DEF IndInv, BankInv
  <2>2. ASSUME NEW e \in ledger
        PROVE  \E o \in wire_out : /\ o.wtid = e.wtid
                                   /\ o.target = e.target /\ o.amt = e.amt
    BY DEF IndInv, BankInv, WireOutInv, SameTransfer
  <2> QED BY <2>1, <2>2 DEF PaidOnce
<1> QED BY <1>1, Invariance, PTL

(* A prepared transfer is finished only when the bank has executed it      *)
(* (wire_confirm_cb).                                                      *)
THEOREM FinishedCorrect == Spec => []FinishedIsExecuted
<1>1. IndInv => FinishedIsExecuted
  BY DEF IndInv, BankInv, FinishedIsExecuted
<1> QED BY <1>1, Invariance, PTL

(* No step takes a deposit that is done out of its transfer, puts it in    *)
(* another one, or refunds it (refund_transaction, run_aggregation).       *)
THEOREM DoneIsFinalCorrect == Spec => DoneIsFinal
<1> DEFINE Final(d) == /\ d \in done'
                       /\ refund'[d] = refund[d]
                       /\ TrackingOf(d)' = TrackingOf(d)
<1>1. IndInv /\ [Next]_vars => [\A d \in done : Final(d)]_vars
  <2> SUFFICES ASSUME IndInv, Next, NEW d \in done
               PROVE  Final(d)
    OBVIOUS
  <2>1. CASE UNCHANGED <<done, refund, aggregation_tracking>>
    BY <2>1 DEF TrackingOf
  <2>2. ASSUME NEW f \in Deposits, NEW a \in RefundAmounts, Refund(f, a)
        PROVE  Final(d)
    <3>1. f # d
      BY <2>2 DEF Refund, Refundable
    <3>2. refund'[d] = refund[d]
      BY <2>2, <3>1 DEF Refund, IndInv, TypeOK, RefundsOK
    <3> QED BY <2>2, <3>2 DEF Refund, TrackingOf
  <2>3. CASE CommitAggregation
    <3>1. d \notin au.rows
      BY <2>3 DEF CommitAggregation, IterationOver, IndInv, UnitInv
    <3>2. TrackingOf(d)' = TrackingOf(d)
      BY <2>3, <3>1 DEF CommitAggregation, InsertTracking, TrackingOf
    <3> QED BY <2>3, <3>2 DEF CommitAggregation, MarkDone
  <2>4. CASE WireStep /\ UNCHANGED aggVars
    BY <2>1, <2>4 DEF aggVars
  <2>5. CASE AggregatorStep /\ ~CommitAggregation
    BY <2>1, <2>5
       DEF AggregatorStep, StartAggregation, AggregateRow, AggregateRowFails,
           AggregationSoftError, PrepareFails, ValueTooLow, MarkTiny,
           MarkTinyFails, AggregatorStops, AggregatorRestarts, GiveUp
  <2>6. CASE ServerStep
    BY <2>1, <2>2, <2>6 DEF ServerStep, Deposit, Tick
  <2> QED BY <2>3, <2>4, <2>5, <2>6 DEF Next
<1> QED BY <1>1, Invariance, PTL DEF Spec, DoneIsFinal

---------------------------------------------------------------------------
(* What deposits are worth together.                                       *)

\* What the deposits of S are worth with the refunds f.
Value(f, S) == SumFunction([d \in S |-> Contribution(d, f[d])])

\* The unit under way: its deposits are in the database, one of them is due,
\* and the total is what they are worth in the snapshot.
UnitPays ==
    agg = "match" =>
        /\ IsFiniteSet(au.rows)
        /\ au.rows \cup au.todo \subseteq deposits
        /\ au.rows \cap au.todo = {}
        /\ \E d \in au.rows : WireDeadline[d] <= now /\ RefundDeadline[d] < now
        /\ au.total = Value(au.snap, au.rows)

\* A transfer has the amount that its deposits are worth.
Pays(rows, f, amt) ==
    /\ IsFiniteSet(rows) /\ rows # {}
    /\ ~TooLow(Value(f, rows))
    /\ amt = FinalAmount(Value(f, rows))

BatchPays == \A o \in wire_out : Pays(DepositsOf(o.wtid), refund, o.amt)

\* The bank numbers the entries of its ledger.
LedgerInv ==
    /\ \A e \in ledger : e.serial < bank_serial
    /\ \A e, f \in ledger : e.serial = f.serial => e = f
    /\ \A i \in 1..(bank_serial - 1) : \E e \in ledger : e.serial = i

PayInv == UnitPays /\ BatchPays /\ LedgerInv

(* One deposit is worth its contribution.                                  *)
LEMMA ValueSingle ==
    ASSUME NEW f, RefundsOK(f), NEW d \in Deposits
    PROVE  Value(f, {d}) = Contribution(d, f[d])
<1> DEFINE g == [x \in {d} |-> Contribution(x, f[x])]
<1>1. Contribution(d, f[d]) \in Nat
  BY ContributionType
<1>2. /\ IsFiniteSet({}) /\ d \notin {} /\ {} \cup {d} = {d}
      /\ \A y \in {} \cup {d} : g[y] \in Int
      /\ g[d] = Contribution(d, f[d])
  BY <1>1, FS_EmptySet
<1>3. Value(f, {d}) = SumFunctionOnSet(g, {d})
  BY DEF Value, SumFunction
<1> HIDE DEF g
<1>4. SumFunctionOnSet(g, {} \cup {d}) = SumFunctionOnSet(g, {}) + g[d]
  BY ONLY <1>2, SumAdd
<1>5. SumFunctionOnSet(g, {}) = 0
  BY SumEmpty
<1> QED BY <1>1, <1>2, <1>3, <1>4, <1>5

(* A deposit more.                                                         *)
LEMMA ValueAdd ==
    ASSUME NEW f, RefundsOK(f), NEW S, IsFiniteSet(S), S \subseteq Deposits,
           NEW d \in Deposits, d \notin S
    PROVE  Value(f, S \cup {d}) = Value(f, S) + Contribution(d, f[d])
<1> DEFINE T == S \cup {d}
           g == [x \in S |-> Contribution(x, f[x])]
           h == [x \in T |-> Contribution(x, f[x])]
<1>1. \A x \in Deposits : Contribution(x, f[x]) \in Nat
  BY ContributionType
<1>2. /\ \A y \in S : g[y] \in Int /\ g[y] = h[y]
      /\ \A y \in S \cup {d} : h[y] \in Int
      /\ h[d] = Contribution(d, f[d])
  BY <1>1
<1>3. /\ Value(f, S) = SumFunctionOnSet(g, S)
      /\ Value(f, T) = SumFunctionOnSet(h, S \cup {d})
  BY DEF Value, SumFunction
<1> HIDE DEF g, h, T
<1>4. SumFunctionOnSet(g, S) = SumFunctionOnSet(h, S)
  BY ONLY <1>2, IsFiniteSet(S), SumEqual
<1>5. SumFunctionOnSet(h, S \cup {d}) = SumFunctionOnSet(h, S) + h[d]
  BY ONLY <1>2, IsFiniteSet(S), d \notin S, SumAdd
<1> QED BY <1>2, <1>3, <1>4, <1>5 DEF T

(* The worth of deposits depends on their refunds only.                    *)
LEMMA ValueSame ==
    ASSUME NEW f, NEW g, NEW S, \A d \in S : f[d] = g[d]
    PROVE  Value(f, S) = Value(g, S)
<1>1. [d \in S |-> Contribution(d, f[d])] = [d \in S |-> Contribution(d, g[d])]
  OBVIOUS
<1> QED BY <1>1 DEF Value

LEMMA ValueNat ==
    ASSUME NEW f, RefundsOK(f), NEW S, IsFiniteSet(S), S \subseteq Deposits
    PROVE  Value(f, S) \in Nat
<1> DEFINE g == [x \in S |-> Contribution(x, f[x])]
<1>1. \A x \in S : g[x] \in Nat
  BY ContributionType
<1>2. Value(f, S) = SumFunctionOnSet(g, S)
  BY DEF Value, SumFunction
<1> HIDE DEF g
<1> QED BY <1>1, <1>2, SumNat

---------------------------------------------------------------------------
(* Steps.                                                                  *)

LEMMA InitPays == Init => PayInv
  BY DEF Init, WireInit, PayInv, UnitPays, BatchPays, LedgerInv

(* A step that does not touch what was paid for.                           *)
LEMMA BatchStill ==
    ASSUME IndInv, BatchPays, UNCHANGED <<wire_out, aggregation_tracking>>,
           \A d \in done : refund'[d] = refund[d]
    PROVE  BatchPays'
<1>1. \A w : DepositsOf(w)' = DepositsOf(w) /\ DepositsOf(w) \subseteq done
  BY DEF DepositsOf, IndInv, DoneIsTracked
<1>2. ASSUME NEW o \in wire_out
      PROVE  Pays(DepositsOf(o.wtid)', refund', o.amt)
  <2>1. Value(refund, DepositsOf(o.wtid)) = Value(refund', DepositsOf(o.wtid))
    <3> DEFINE S == DepositsOf(o.wtid)
    <3>1. \A d \in S : refund[d] = refund'[d]
      BY <1>1
    <3> HIDE DEF S
    <3>2. Value(refund, S) = Value(refund', S)
      BY <3>1, ValueSame
    <3> QED BY <3>2 DEF S
  <2>2. Pays(DepositsOf(o.wtid), refund, o.amt)
    BY DEF BatchPays
  <2> QED BY <1>1, <2>1, <2>2 DEF Pays
<1> QED BY <1>2 DEF BatchPays

(* The bank's serial numbers.                                              *)
LEMMA WireStepPays ==
    ASSUME IndInv, PayInv, WireStep, UNCHANGED aggVars
    PROVE  PayInv'
<1>1. UnitPays'
  BY DEF PayInv, UnitPays, aggVars
<1>2. BatchPays'
  BY BatchStill DEF PayInv, aggVars
<1>3. CASE UNCHANGED <<ledger, bank_serial>>
  BY <1>1, <1>2, <1>3 DEF PayInv, LedgerInv
<1>4. ASSUME NEW p \in prewire, MakeTransfer(p) PROVE PayInv'
  <2> DEFINE e0 == [serial |-> bank_serial, uid |-> p.uuid, wtid |-> p.wtid,
                    target |-> p.target, amt |-> p.amt]
  <2>1. /\ ledger' = ledger \cup {e0} /\ bank_serial' = bank_serial + 1
        /\ e0.serial = bank_serial
    BY <1>4 DEF MakeTransfer
  <2>2. bank_serial \in Nat /\ \A e \in ledger : e.serial \in Nat
    BY DEF IndInv, TypeOK, WireTypeOK, LedgerRow, Uuids
  <2> HIDE DEF e0
  <2>3. LedgerInv'
    BY <2>1, <2>2 DEF PayInv, LedgerInv
  <2> QED BY <1>1, <1>2, <2>3 DEF PayInv
<1>5. \/ UNCHANGED <<ledger, bank_serial>>
      \/ \E p \in prewire : MakeTransfer(p)
  BY DEF WireStep, RunTransfers, BankTransfer, BankReplyLost, RequestLost,
         BankExecutes, WireConfirm, WireConfirmSoftError, WireConfirmFails,
         TransferCrashes, TransferRestarts
<1> QED BY <1>3, <1>4, <1>5

(* deposit_cb: the unit starts with a deposit that is due.                 *)
LEMMA StartPays ==
    ASSUME IndInv, PayInv, NEW d \in deposits, StartAggregation(d)
    PROVE  PayInv'
<1>1. /\ agg' = "match" /\ Ready(d)
      /\ au' = [rows |-> {d}, target |-> TargetOf[d],
                total |-> Contribution(d, refund[d]),
                todo |-> {e \in deposits \ (done \cup {d}) :
                             TargetOf[e] = TargetOf[d]},
                count |-> 0, snap |-> refund]
      /\ UNCHANGED <<wireVars, now, deposits, tiny, done, refund,
                     aggregation_tracking, wire_out, next_wtid>>
  BY DEF StartAggregation
<1>2. d \in Deposits /\ RefundsOK(refund)
  BY DEF IndInv, TypeOK
<1>3. Value(refund, {d}) = Contribution(d, refund[d])
  BY <1>2, ValueSingle
<1>4. /\ au'.rows = {d} /\ au'.todo \subseteq deposits \ {d}
      /\ au'.total = Contribution(d, refund[d]) /\ au'.snap = refund
  BY <1>1
<1>5. WireDeadline[d] <= now /\ RefundDeadline[d] < now
  BY <1>1 DEF Ready
<1>6. IsFiniteSet({d})
  BY FS_Singleton
<1>7. UnitPays'
  BY <1>1, <1>3, <1>4, <1>5, <1>6 DEF UnitPays
<1>8. BatchPays'
  BY <1>1, BatchStill DEF PayInv
<1> QED BY <1>1, <1>7, <1>8 DEF PayInv, LedgerInv, wireVars

(* aggregate_cb adds what the deposit is worth, or skips the deposit.      *)
LEMMA AggregateRowPays ==
    ASSUME IndInv, PayInv, NEW e \in deposits, AggregateRow(e)
    PROVE  PayInv'
<1>1. /\ agg = "match" /\ agg' = "match" /\ e \in au.todo
      /\ au' = IF Fits(e)
               THEN NextUnit(au.rows \cup {e}, Sum(e), au.todo \ {e})
               ELSE NextUnit(au.rows, au.total, au.todo \ {e})
      /\ UNCHANGED <<wireVars, now, deposits, tiny, done, refund,
                     aggregation_tracking, wire_out, next_wtid>>
  BY DEF AggregateRow, NextRow
<1>2. /\ e \in Deposits /\ RefundsOK(au.snap) /\ au.rows \subseteq Deposits
  BY DEF IndInv, TypeOK, Unit
<1>3. /\ IsFiniteSet(au.rows) /\ au.rows \cup au.todo \subseteq deposits
      /\ au.rows \cap au.todo = {}
      /\ \E d \in au.rows : WireDeadline[d] <= now /\ RefundDeadline[d] < now
      /\ au.total = Value(au.snap, au.rows)
  BY <1>1 DEF PayInv, UnitPays
<1>4. au'.snap = au.snap /\ au'.todo = au.todo \ {e}
  BY <1>1 DEF NextUnit
<1>5. UnitPays'
  <2>1. CASE Fits(e)
    <3>1. au'.rows = au.rows \cup {e} /\ au'.total = Sum(e)
      BY <1>1, <2>1 DEF NextUnit
    <3>2. Value(au.snap, au.rows \cup {e})
            = Value(au.snap, au.rows) + Contribution(e, au.snap[e])
      BY <1>1, <1>2, <1>3, ValueAdd
    <3>3. au'.total = Value(au'.snap, au'.rows)
      BY <1>3, <1>4, <3>1, <3>2 DEF Sum
    <3>4. IsFiniteSet(au'.rows)
      BY <1>3, <3>1, FS_AddElement
    <3>5. /\ au'.rows \cup au'.todo \subseteq deposits
          /\ au'.rows \cap au'.todo = {}
      BY <1>1, <1>3, <1>4, <3>1
    <3>6. \E d \in au'.rows : WireDeadline[d] <= now /\ RefundDeadline[d] < now
      BY <1>3, <3>1
    <3> QED BY <1>1, <3>3, <3>4, <3>5, <3>6 DEF UnitPays
  <2>2. CASE ~Fits(e)
    <3>1. au'.rows = au.rows /\ au'.total = au.total
      BY <1>1, <2>2 DEF NextUnit
    <3> QED BY <1>1, <1>3, <1>4, <3>1 DEF UnitPays
  <2> QED BY <2>1, <2>2
<1>6. BatchPays'
  BY <1>1, BatchStill DEF PayInv
<1> QED BY <1>1, <1>5, <1>6 DEF PayInv, LedgerInv, wireVars

(* The commit tracks the deposits of the unit under a new identifier.      *)
LEMMA CommitTracks ==
    ASSUME IndInv, CommitAggregation
    PROVE  /\ \A w : w = next_wtid => DepositsOf(w)' = au.rows
           /\ \A w : w # next_wtid => DepositsOf(w)' = DepositsOf(w)
           /\ \A o \in wire_out : o.wtid # next_wtid
           /\ \A p \in prewire : p.wtid # next_wtid
           /\ \A e \in ledger : e.wtid # next_wtid
<1>1. aggregation_tracking' = aggregation_tracking \cup (au.rows \X {next_wtid})
  BY DEF CommitAggregation, InsertTracking
<1>2. au.rows \subseteq Deposits /\ aggregation_tracking \subseteq Deposits \X Uuids
  BY DEF IndInv, TypeOK, Unit
<1>3. \A o \in wire_out : o.wtid # next_wtid
  <2>1. next_wtid \in Nat /\ \A o \in wire_out : o.wtid \in Nat /\ o.wtid < next_wtid
    BY DEF IndInv, TypeOK, WireOutInv, WireOutRow, Uuids
  <2> QED BY <2>1
<1>4. \A p \in prewire : p.wtid # next_wtid
  BY <1>3 DEF IndInv, WireOutInv, SameTransfer
<1>5. \A e \in ledger : e.wtid # next_wtid
  BY <1>4 DEF IndInv, BankInv, SameTransfer
<1>6. \A t \in aggregation_tracking : t[2] # next_wtid
  BY <1>3 DEF IndInv, DoneIsTracked
<1>7. \A d : <<d, next_wtid>> \notin aggregation_tracking
  BY <1>6
<1>8. \A d, w : <<d, w>> \in aggregation_tracking'
                  <=> \/ <<d, w>> \in aggregation_tracking
                      \/ d \in au.rows /\ w = next_wtid
  BY <1>1
<1> DEFINE n == next_wtid
           new == aggregation_tracking'
<1>9. /\ {d \in Deposits : <<d, n>> \in new} = au.rows
      /\ \A w : w # n => {d \in Deposits : <<d, w>> \in new}
                           = {d \in Deposits : <<d, w>> \in aggregation_tracking}
  <2> HIDE DEF n, new
  <2>1. \A d, w : <<d, w>> \in new <=> \/ <<d, w>> \in aggregation_tracking
                                       \/ d \in au.rows /\ w = n
    BY <1>8 DEF n, new
  <2>2. \A d : <<d, n>> \notin aggregation_tracking
    BY <1>7 DEF n
  <2> QED BY <1>2, <2>1, <2>2
<1> QED BY <1>3, <1>4, <1>5, <1>9 DEF DepositsOf


(* The commit: the snapshot is right for the deposits of the unit, so that *)
(* the amount is right for the refunds in the database.                    *)
LEMMA CommitPays ==
    ASSUME IndInv, PayInv, CommitAggregation
    PROVE  PayInv'
<1> DEFINE a == FinalAmount(au.total)
           o0 == [wtid |-> next_wtid, target |-> au.target, amt |-> a]
<1>1. /\ agg = "match" /\ ~TooLow(au.total) /\ Serializable
      /\ agg' = "ready" /\ wire_out' = wire_out \cup {o0}
      /\ UNCHANGED <<refund, ledger, bank_serial>>
  BY DEF CommitAggregation, IterationOver, StoreWireTransferOut
<1>2. /\ \A w : w = next_wtid => DepositsOf(w)' = au.rows
      /\ \A w : w # next_wtid => DepositsOf(w)' = DepositsOf(w)
      /\ \A o \in wire_out : o.wtid # next_wtid
  BY CommitTracks
<1>3. /\ IsFiniteSet(au.rows) /\ au.rows # {}
      /\ au.total = Value(au.snap, au.rows)
  BY <1>1 DEF PayInv, UnitPays
<1>4. Value(refund, au.rows) = Value(au.snap, au.rows)
  <2>1. \A d \in au.rows : refund[d] = au.snap[d]
    BY <1>1 DEF Serializable
  <2> DEFINE S == au.rows
             f == au.snap
  <2> HIDE DEF S, f
  <2>2. \A d \in S : refund[d] = f[d]
    BY <2>1 DEF S, f
  <2>3. Value(refund, S) = Value(f, S)
    BY ONLY <2>2, ValueSame
  <2> QED BY <2>3 DEF S, f
<1>5. Pays(au.rows, refund, a)
  BY <1>1, <1>3, <1>4 DEF Pays
<1>6. o0.wtid = next_wtid /\ o0.amt = a
  OBVIOUS
<1> HIDE DEF a, o0
<1>7. ASSUME NEW o \in wire_out'
      PROVE  Pays(DepositsOf(o.wtid)', refund', o.amt)
  <2>1. CASE o \in wire_out
    <3>1. DepositsOf(o.wtid)' = DepositsOf(o.wtid)
      BY <1>2, <2>1
    <3> QED BY <1>1, <2>1, <3>1 DEF PayInv, BatchPays
  <2>2. CASE o = o0
    <3>1. o.wtid = next_wtid /\ o.amt = a
      BY <1>6, <2>2
    <3>2. DepositsOf(o.wtid)' = au.rows
      BY <1>2, <3>1
    <3> QED BY <1>1, <1>5, <3>1, <3>2
  <2> QED BY <1>1, <2>1, <2>2
<1>8. BatchPays'
  BY <1>7 DEF BatchPays
<1>9. UnitPays'
  BY <1>1 DEF UnitPays
<1>10. LedgerInv'
  BY <1>1 DEF PayInv, LedgerInv
<1> QED BY <1>8, <1>9, <1>10 DEF PayInv

(* No step of the system breaks the invariant.                             *)
LEMMA NextPays == IndInv /\ PayInv /\ [Next]_vars => PayInv'
<1> SUFFICES ASSUME IndInv, PayInv, [Next]_vars PROVE PayInv'
  OBVIOUS
<1>1. CASE WireStep /\ UNCHANGED aggVars
  BY <1>1, WireStepPays
<1>2. CASE \E d \in deposits : StartAggregation(d)
  BY <1>2, StartPays
<1>3. CASE \E e \in deposits : AggregateRow(e)
  BY <1>3, AggregateRowPays
<1>4. CASE CommitAggregation
  BY <1>4, CommitPays
<1>5. CASE /\ UNCHANGED <<ledger, bank_serial, wire_out, aggregation_tracking>>
           /\ \A d \in done : refund'[d] = refund[d]
           /\ \/ agg' # "match"
              \/ /\ UNCHANGED <<agg, au>> /\ deposits \subseteq deposits'
                 /\ now' \in Nat /\ now <= now'
  <2>1. BatchPays'
    BY <1>5, BatchStill DEF PayInv
  <2>2. LedgerInv'
    BY <1>5 DEF PayInv, LedgerInv
  <2>3. UnitPays'
    <3>1. CASE agg' # "match"
      BY <3>1 DEF UnitPays
    <3>2. CASE /\ UNCHANGED <<agg, au>> /\ deposits \subseteq deposits'
               /\ now' \in Nat /\ now <= now' /\ agg = "match"
      <4>1. PICK d \in au.rows : WireDeadline[d] <= now /\ RefundDeadline[d] < now
        BY <3>2 DEF PayInv, UnitPays
      <4>2. d \in Deposits /\ now \in Nat
        BY DEF IndInv, TypeOK, Unit
      <4>3. WireDeadline[d] <= now' /\ RefundDeadline[d] < now'
        BY <3>2, <4>1, <4>2, DepositsAssumption
      <4> QED BY <3>2, <4>3 DEF PayInv, UnitPays
    <3> QED BY <1>5, <3>1, <3>2
  <2> QED BY <2>1, <2>2, <2>3 DEF PayInv
<1>6. ASSUME NEW e \in deposits, AggregateRowFails(e) PROVE PayInv'
  BY <1>5, <1>6 DEF AggregateRowFails, wireVars
<1>7. CASE \/ AggregationSoftError \/ PrepareFails \/ MarkTinyFails
           \/ AggregatorStops \/ AggregatorRestarts
  BY <1>5, <1>7
     DEF AggregationSoftError, PrepareFails, MarkTinyFails, AggregatorStops,
         AggregatorRestarts, GiveUp, wireVars
<1>8. CASE ValueTooLow \/ MarkTiny
  BY <1>5, <1>8 DEF ValueTooLow, MarkTiny, wireVars
<1>9. CASE Tick \/ UNCHANGED vars \/ \E d \in Deposits : Deposit(d)
  <2>1. now \in Nat
    BY DEF IndInv, TypeOK
  <2> QED BY <1>5, <1>9, <2>1
          DEF Tick, Deposit, vars, wireVars, aggVars
<1>10. ASSUME NEW d \in Deposits, NEW a \in RefundAmounts, Refund(d, a)
       PROVE  PayInv'
  <2>1. now \in Nat /\ refund \in [Deposits -> Int] /\ done \subseteq Deposits
    BY DEF IndInv, TypeOK, RefundsOK
  <2>2. \A x \in done : refund'[x] = refund[x]
    BY <1>10, <2>1 DEF Refund, Refundable
  <2> QED BY <1>5, <1>10, <2>1, <2>2 DEF Refund, wireVars
<1> QED BY <1>1, <1>2, <1>3, <1>4, <1>6, <1>7, <1>8, <1>9, <1>10
        DEF Next, AggregatorStep, ServerStep

(* Transfers always have the amount that their deposits are worth: what    *)
(* aggregate_cb adds up one row at a time is the sum over the rows that    *)
(* the commit marks as done, in spite of refunds that come in meanwhile.   *)
THEOREM PayInvariance == Spec => []PayInv
  BY InitPays, NextPays, Invariance, PTL DEF Spec

---------------------------------------------------------------------------
(* The refinement of MerchantPayments.                                     *)

Batches == {BatchOf(o) : o \in wire_out}
Statement == [i \in 1..(bank_serial - 1) |-> BatchOf(LedgerEntry(i))]
Booked == {BatchOf(p) : p \in {q \in prewire : q.uuid \in finished}}

(* The sums of module MerchantPayments are the ones of this module.        *)
LEMMA SameSum ==
    ASSUME NEW f
    PROVE  Payments!SumFunction(f) = SumFunction(f)
  BY DEF Payments!SumFunction, SumFunction, Payments!SumFunctionOnSet,
         SumFunctionOnSet, Payments!FoldFunctionOnSet, FoldFunctionOnSet,
         Payments!MapThenFoldSet, MapThenFoldSet

(* What a deposit is worth is what it adds to a transfer.                  *)
LEMMA SameWorth ==
    ASSUME RefundsOK(refund), NEW S, S \subseteq Deposits
    PROVE  Payments!WorthOf(S) = Value(refund, S)
<1>1. \A d \in Deposits : Payments!Worth(d) = Contribution(d, refund[d])
  BY DepositsAssumption DEF Payments!Worth, Contribution, RefundsOK, NoRefund
<1>2. [d \in S |-> Payments!Worth(d)] = [d \in S |-> Contribution(d, refund[d])]
  BY <1>1
<1> QED BY <1>2, SameSum DEF Payments!WorthOf, Value

(* What is left after rounding down can be wired.                          *)
LEMMA FinalIsWired ==
    ASSUME NEW t \in Nat, ~TooLow(t)
    PROVE  FinalAmount(t) \in 1..t /\ Payments!Wired(FinalAmount(t), t)
<1> DEFINE x == t - WireFee
           n == RoundDown(x)
<1>1. WireFee \in Nat /\ RoundUnit \in Nat
  BY WireAssumption
<1>2. x \in Nat /\ n # 0 /\ FinalAmount(t) = n /\ x <= t
  BY <1>1 DEF TooLow, FinalAmount
<1> HIDE DEF x
<1>3. CASE RoundUnit = 0
  <2>1. n = x
    BY <1>3 DEF RoundDown
  <2>2. x - n = 0 /\ n \in 1..t
    BY <1>2, <2>1
  <2>3. t - WireFee - n = 0
    BY <2>2 DEF x
  <2> QED BY <1>2, <1>3, <2>2, <2>3 DEF Payments!Wired
<1>4. CASE RoundUnit # 0
  <2> DEFINE U == RoundUnit
             q == x \div U
             m == x % U
  <2>1. U \in Nat \ {0}
    BY <1>1, <1>4
  <2>2. n = x - m
    BY <1>4 DEF RoundDown
  <2> HIDE DEF U, n
  <2>3. q \in Nat /\ m \in 0..(U - 1) /\ x = U * q + m
    BY <1>2, <2>1, SMT
  <2> HIDE DEF q, m
  <2>4. n = U * q
    BY <1>2, <2>1, <2>2, <2>3
  <2>5. (U * q) % U = 0
    BY <2>1, <2>3, SMT
  <2>6. n % U = 0
    BY <2>4, <2>5
  <2>7. n \in 1..t /\ x - n = m
    <3>1. U * q \in Nat
      BY <2>1, <2>3
    <3>2. n \in Nat /\ x \in Nat /\ m \in Nat /\ m <= U - 1 /\ U \in Nat
      BY <1>2, <2>1, <2>3, <2>4, <3>1
    <3> QED BY <1>2, <2>2, <3>2
  <2>8. t - WireFee - n \in 0..(U - 1)
    BY <2>3, <2>7 DEF x
  <2> QED BY <1>2, <1>4, <2>6, <2>7, <2>8 DEF Payments!Wired, U
<1> QED BY <1>3, <1>4

(* A sequence with one element more.                                       *)
LEMMA AppendOne ==
    ASSUME NEW n \in Nat, NEW s, NEW t, NEW x,
           s = [i \in 1..n |-> s[i]],
           t = [i \in 1..(n + 1) |-> IF i = n + 1 THEN x ELSE s[i]]
    PROVE  t = Append(s, x)
<1> DEFINE V == {s[i] : i \in 1..n} \cup {x}
           a == Append(s, x)
<1>1. s \in Seq(V) /\ Len(s) = n /\ x \in V
  <2>1. s \in [1..n -> V]
    OBVIOUS
  <2>2. s \in Seq(V)
    BY <2>1
  <2>3. DOMAIN s = 1..n
    BY <2>1
  <2> QED BY <2>2, <2>3, LenProperties
<1> HIDE DEF V
<1>2. /\ a \in Seq(V) /\ Len(a) = n + 1
      /\ \A i \in 1..n : a[i] = s[i]
      /\ a[n + 1] = x
  BY <1>1, AppendProperties
<1>3. t \in Seq(V) /\ Len(t) = n + 1
  <2>1. \A i \in 1..n : s[i] \in V
    BY <1>1, ElementOfSeq
  <2>2. t \in [1..(n + 1) -> V]
    <3>1. \A i \in 1..(n + 1) : i = n + 1 \/ i \in 1..n
      OBVIOUS
    <3>2. \A i \in 1..(n + 1) : (IF i = n + 1 THEN x ELSE s[i]) \in V
      BY <1>1, <2>1, <3>1
    <3> QED BY <3>2
  <2>3. t \in Seq(V)
    BY <2>2
  <2> QED BY <2>2, <2>3, LenProperties
<1> HIDE DEF a
<1>4. \A i \in 1..(n + 1) : t[i] = a[i]
  BY <1>2
<1>5. t = a
  BY <1>2, <1>3, <1>4, SeqEqual
<1> QED BY <1>5 DEF a

(* A step that leaves the transfers alone.                                 *)
LEMMA MapStill ==
    ASSUME UNCHANGED <<wire_out, aggregation_tracking, ledger, bank_serial,
                       prewire, finished>>
    PROVE  UNCHANGED <<Batches, Statement, Booked>>
  BY DEF Batches, Statement, Booked, BatchOf, DepositsOf, LedgerEntry

(* The deposits of batches are those that are done.                        *)
LEMMA SettledIsDone ==
    ASSUME IndInv
    PROVE  Payments!Open = deposits \ done
<1>1. \A d : d \in done <=> \E o \in wire_out : d \in DepositsOf(o.wtid)
  <2>1. \A d \in done : \E o \in wire_out : d \in DepositsOf(o.wtid)
    <3>1. TAKE d \in done
    <3>2. PICK t \in aggregation_tracking : t[1] = d
      BY DEF IndInv, DoneIsTracked
    <3>3. PICK o \in wire_out : o.wtid = t[2]
      BY <3>2 DEF IndInv, DoneIsTracked
    <3>4. t = <<d, o.wtid>> /\ d \in Deposits
      BY <3>2, <3>3 DEF IndInv, TypeOK
    <3> QED BY <3>3, <3>4 DEF DepositsOf
  <2>2. \A o \in wire_out : \A d \in DepositsOf(o.wtid) : d \in done
    BY DEF DepositsOf, IndInv, DoneIsTracked
  <2> QED BY <2>1, <2>2
<1>2. Payments!Settled = done
  <2>1. \A o : BatchOf(o).rows = DepositsOf(o.wtid)
    BY DEF BatchOf
  <2>2. Payments!Settled = UNION {BatchOf(o).rows : o \in wire_out}
    BY DEF Payments!Settled
  <2>3. Payments!Settled = UNION {DepositsOf(o.wtid) : o \in wire_out}
    BY <2>1, <2>2
  <2> QED BY <1>1, <2>3
<1> QED BY <1>2 DEF Payments!Open

(* An entry of the ledger is found under its number.                       *)
LEMMA EntryIs ==
    ASSUME NEW L, NEW e \in L, NEW i, e.serial = i,
           \A f \in L : f.serial = i => f = e
    PROVE  (CHOOSE f \in L : f.serial = i) = e
  OBVIOUS

(* A prepared transfer is a batch, and is the only one with its deposits.  *)
LEMMA PreparedIsBatch ==
    ASSUME IndInv, PayInv, NEW p \in prewire
    PROVE  /\ BatchOf(p) \in Batches
           /\ \A e \in ledger : BatchOf(e) = BatchOf(p) => e.uid = p.uuid
<1>1. PICK o \in wire_out : SameTransfer(o, p)
  BY DEF IndInv, WireOutInv
<1>2. BatchOf(o) = BatchOf(p)
  BY <1>1 DEF BatchOf, SameTransfer
<1>3. ASSUME NEW e \in ledger, BatchOf(e) = BatchOf(p) PROVE e.uid = p.uuid
  <2>1. DepositsOf(e.wtid) = DepositsOf(p.wtid)
    BY <1>3 DEF BatchOf
  <2>2. PICK d : d \in DepositsOf(p.wtid)
    BY <1>1 DEF PayInv, BatchPays, Pays, SameTransfer
  <2>3. /\ <<d, p.wtid>> \in aggregation_tracking
        /\ <<d, e.wtid>> \in aggregation_tracking
    BY <2>1, <2>2 DEF DepositsOf
  <2>4. \A s, t \in aggregation_tracking : s[1] = t[1] => s = t
    BY DEF IndInv, DoneIsTracked
  <2>5. p.wtid = e.wtid
    BY <2>3, <2>4
  <2>6. PICK q \in prewire : q.uuid = e.uid /\ SameTransfer(q, e)
    BY DEF IndInv, BankInv
  <2>7. q = p
    BY <2>5, <2>6 DEF IndInv, WireOutInv, SameTransfer
  <2> QED BY <2>6, <2>7
<1> QED BY <1>1, <1>2, <1>3 DEF Batches

(* The bank pays a batch.                                                  *)
LEMMA TransferRefines ==
    ASSUME IndInv, PayInv, PayInv', NEW p \in prewire, p.uuid \notin Executed,
           MakeTransfer(p), UNCHANGED <<prewire, finished>>, UNCHANGED aggVars
    PROVE  \E b \in Batches : Payments!Pay(b)
<1> DEFINE e0 == [serial |-> bank_serial, uid |-> p.uuid, wtid |-> p.wtid,
                  target |-> p.target, amt |-> p.amt]
           n == bank_serial - 1
           b == BatchOf(p)
<1>1. /\ ledger' = ledger \cup {e0} /\ bank_serial' = bank_serial + 1
      /\ e0.serial = bank_serial
  BY DEF MakeTransfer
<1>2. UNCHANGED <<now, deposits, refund, wire_out, aggregation_tracking>>
  BY DEF aggVars
<1>3. \A r : BatchOf(r)' = BatchOf(r)
  BY <1>2 DEF BatchOf, DepositsOf
<1>4. UNCHANGED <<Batches, Booked>>
  BY <1>2, <1>3 DEF Batches, Booked
<1>5. bank_serial \in Nat /\ n \in Nat /\ bank_serial = n + 1
  BY DEF IndInv, TypeOK, WireTypeOK, Uuids
<1>6. BatchOf(e0) = b
  BY DEF BatchOf
<1> HIDE DEF e0
<1>7. ASSUME NEW e \in ledger', NEW i, e.serial = i PROVE LedgerEntry(i)' = e
  <2> DEFINE L == ledger'
  <2>1. \A f \in L : f.serial = i => f = e
    BY <1>7 DEF PayInv, LedgerInv
  <2>2. e \in L
    OBVIOUS
  <2>3. LedgerEntry(i)' = CHOOSE f \in L : f.serial = i
    BY DEF LedgerEntry
  <2> HIDE DEF L
  <2> QED BY <1>7, <2>1, <2>2, <2>3, EntryIs
<1>8. ASSUME NEW i \in 1..n
      PROVE  /\ LedgerEntry(i) \in ledger
             /\ LedgerEntry(i)' = LedgerEntry(i)
  <2>1. PICK e \in ledger : e.serial = i
    BY DEF PayInv, LedgerInv
  <2>2. \A f \in ledger : f.serial = i => f = e
    BY <2>1 DEF PayInv, LedgerInv
  <2>3. LedgerEntry(i) = e
    BY <2>1, <2>2, EntryIs DEF LedgerEntry
  <2>4. LedgerEntry(i)' = e
    BY <1>1, <1>7, <2>1
  <2> QED BY <2>3, <2>4
<1>9. ASSUME NEW i, i = bank_serial PROVE LedgerEntry(i)' = e0
  BY <1>1, <1>7, <1>9
<1>10. Statement' = Append(Statement, b)
  <2> DEFINE t == [i \in 1..(n + 1) |-> BatchOf(LedgerEntry(i))']
             s == Statement
  <2>1. s = [i \in 1..n |-> BatchOf(LedgerEntry(i))]
    BY DEF Statement
  <2>2. Statement' = t
    BY <1>1, <1>5 DEF Statement
  <2>3. \A i \in 1..n : BatchOf(LedgerEntry(i))' = s[i]
    BY <1>3, <1>8, <2>1 DEF BatchOf
  <2>4. \A i : i = n + 1 => BatchOf(LedgerEntry(i))' = b
    BY <1>3, <1>5, <1>6, <1>9 DEF BatchOf
  <2>5. \A i \in 1..(n + 1) : i = n + 1 \/ i \in 1..n
    BY <1>5
  <2>6. t = [i \in 1..(n + 1) |-> IF i = n + 1 THEN b ELSE s[i]]
    BY <2>3, <2>4, <2>5
  <2>7. s = [i \in 1..n |-> s[i]]
    BY <2>1
  <2> HIDE DEF t, s, b, n
  <2>8. t = Append(s, b)
    BY ONLY <1>5, <2>6, <2>7, AppendOne
  <2> QED BY <2>2, <2>8 DEF s
<1>11. b \in Batches
  BY PreparedIsBatch
<1>12. b \notin Payments!Range(Statement)
  <2>1. SUFFICES ASSUME NEW i \in 1..n, Statement[i] = b PROVE FALSE
    BY DEF Payments!Range, Statement
  <2>2. BatchOf(LedgerEntry(i)) = b
    BY <2>1 DEF Statement
  <2>3. LedgerEntry(i).uid = p.uuid
    BY <1>8, <2>2, PreparedIsBatch
  <2> QED BY <1>8, <2>3 DEF Executed
<1>13. Payments!Pay(b)
  BY <1>2, <1>4, <1>10, <1>12 DEF Payments!Pay, Batches, Booked, Statement
<1> QED BY <1>11, <1>13

(* taler-exchange-transfer books a batch.                                  *)
LEMMA ConfirmRefines ==
    ASSUME IndInv, PayInv, WireConfirm, UNCHANGED aggVars
    PROVE  \E b \in Batches : Payments!Book(b)
<1>1. /\ wpd \in replies /\ finished' = finished \cup {wpd}
      /\ UNCHANGED <<prewire, ledger, bank_serial>>
  BY DEF WireConfirm
<1>2. UNCHANGED <<now, deposits, refund, wire_out, aggregation_tracking>>
  BY DEF aggVars
<1>3. PICK e \in ledger : e.uid = wpd
  BY <1>1 DEF IndInv, BankInv, Executed
<1>4. PICK p \in prewire : p.uuid = wpd /\ SameTransfer(p, e)
  BY <1>3 DEF IndInv, BankInv
<1> PICK b : b = BatchOf(p)
  OBVIOUS
<1>5. BatchOf(e) = b
  BY <1>4 DEF BatchOf, SameTransfer
<1>6. \A r : BatchOf(r)' = BatchOf(r)
  BY <1>2 DEF BatchOf, DepositsOf
<1>7. UNCHANGED <<Batches, Statement>>
  BY <1>1, <1>2 DEF Batches, Statement, BatchOf, DepositsOf, LedgerEntry
<1>8. Booked' = Booked \cup {b}
  <2>1. {q \in prewire : q.uuid \in finished'}
          = {q \in prewire : q.uuid \in finished} \cup {p}
    BY <1>1, <1>4 DEF IndInv, BankInv
  <2>2. Booked' = {BatchOf(q) : q \in {r \in prewire : r.uuid \in finished'}}
    BY <1>1, <1>6 DEF Booked
  <2> QED BY <2>1, <2>2 DEF Booked
<1>9. b \in Payments!Range(Statement)
  <2> DEFINE i == e.serial
  <2>1. i \in 1..(bank_serial - 1)
    BY DEF IndInv, TypeOK, WireTypeOK, LedgerRow, Uuids, PayInv, LedgerInv
  <2>2. \A f \in ledger : f.serial = i => f = e
    BY DEF PayInv, LedgerInv
  <2>3. LedgerEntry(i) = e
    BY <2>2, EntryIs DEF LedgerEntry
  <2>4. Statement[i] = b /\ i \in DOMAIN Statement
    BY <1>5, <2>1, <2>3 DEF Statement
  <2> QED BY <2>4 DEF Payments!Range
<1>11. Payments!Book(b)
  BY <1>2, <1>7, <1>8, <1>9 DEF Payments!Book, Batches, Booked, Statement
<1>12. b \in Batches
  BY PreparedIsBatch
<1> QED BY <1>11, <1>12

(* run_aggregation commits to a batch.                                     *)
LEMMA CommitRefines ==
    ASSUME IndInv, PayInv, CommitAggregation
    PROVE  \E S \in SUBSET Payments!Open : Payments!Settle(S)
<1> DEFINE S == au.rows
           t == au.target
           n == FinalAmount(au.total)
           o0 == [wtid |-> next_wtid, target |-> t, amt |-> n]
           b0 == [rows |-> S, target |-> t, amt |-> n]
           p0 == [uuid |-> next_uuid, wtid |-> next_wtid, target |-> t, amt |-> n]
<1>1. /\ agg = "match" /\ ~TooLow(au.total) /\ Serializable
      /\ wire_out' = wire_out \cup {o0}
      /\ prewire' = prewire \cup {p0}
      /\ UNCHANGED <<now, deposits, refund, ledger, bank_serial, finished>>
  BY DEF CommitAggregation, IterationOver, StoreWireTransferOut,
         WirePrepareDataInsert
<1>2. /\ \A w : w = next_wtid => DepositsOf(w)' = S
      /\ \A w : w # next_wtid => DepositsOf(w)' = DepositsOf(w)
      /\ \A o \in wire_out : o.wtid # next_wtid
      /\ \A p \in prewire : p.wtid # next_wtid
      /\ \A e \in ledger : e.wtid # next_wtid
  BY CommitTracks
<1>3. /\ IsFiniteSet(S) /\ S \subseteq deposits
      /\ \E d \in S : WireDeadline[d] <= now /\ RefundDeadline[d] < now
      /\ au.total = Value(au.snap, S)
  BY <1>1 DEF PayInv, UnitPays
<1>4. /\ S \subseteq Deposits /\ au.total \in Nat /\ RefundsOK(refund)
  BY DEF IndInv, TypeOK, Unit
<1>5. S \in SUBSET Payments!Open
  <2>1. S \cap done = {}
    BY <1>1 DEF IndInv, UnitInv
  <2> QED BY <1>3, <2>1, SettledIsDone
<1>6. Payments!WorthOf(S) = au.total
  <2>1. \A d \in S : refund[d] = au.snap[d]
    BY <1>1 DEF Serializable
  <2> DEFINE f == refund
             g == au.snap
             R == S
  <2>2. Value(f, R) = Value(g, R)
    <3>1. \A d \in R : f[d] = g[d]
      BY <2>1
    <3> HIDE DEF f, g, R
    <3> QED BY <3>1, ValueSame
  <2>3. Payments!WorthOf(S) = Value(refund, S)
    BY <1>4, SameWorth
  <2> QED BY <1>3, <2>2, <2>3
<1>7. n \in 1..au.total /\ Payments!Wired(n, au.total)
  BY <1>1, <1>4, FinalIsWired
<1>8. (\A d \in S : TargetOf[d] = t) /\ t \in {TargetOf[d] : d \in S}
  <2>1. \A d \in S : TargetOf[d] = t
    BY <1>1 DEF IndInv, UnitInv
  <2> QED BY <1>3, <2>1
<1>9. \A r : r.wtid # next_wtid => BatchOf(r)' = BatchOf(r)
  BY <1>2 DEF BatchOf
<1>10. Batches' = Batches \cup {b0}
  <2>1. BatchOf(o0)' = [rows |-> DepositsOf(o0.wtid)', target |-> t', amt |-> n']
    BY DEF BatchOf
  <2>2. \A o : (o.wtid = next_wtid /\ o.target = t /\ o.amt = n) => BatchOf(o)' = b0
    BY <1>2 DEF BatchOf
  <2>3. o0.wtid = next_wtid /\ o0.target = t /\ o0.amt = n
    OBVIOUS
  <2> QED BY <1>1, <1>2, <1>9, <2>2, <2>3 DEF Batches
<1>11. UNCHANGED Statement
  <2>1. \A i \in 1..(bank_serial - 1) : BatchOf(LedgerEntry(i))' = BatchOf(LedgerEntry(i))
    <3> SUFFICES ASSUME NEW i \in 1..(bank_serial - 1)
                 PROVE  BatchOf(LedgerEntry(i))' = BatchOf(LedgerEntry(i))
      OBVIOUS
    <3>1. LedgerEntry(i) \in ledger
      BY DEF LedgerEntry, PayInv, LedgerInv
    <3>2. LedgerEntry(i)' = LedgerEntry(i)
      BY <1>1 DEF LedgerEntry
    <3> QED BY <1>2, <3>1, <3>2 DEF BatchOf
  <2> QED BY <1>1, <2>1 DEF Statement
<1>12. UNCHANGED Booked
  <2>1. next_uuid \notin finished
    <3>1. \A e \in ledger : e.uid \in Nat /\ e.uid < next_uuid /\ next_uuid \in Nat
      BY DEF IndInv, BankInv, TypeOK, WireTypeOK, LedgerRow, PrewireRow, Uuids
    <3>2. finished \subseteq Executed
      BY DEF IndInv, BankInv
    <3> QED BY <3>1, <3>2 DEF Executed
  <2>2. p0.uuid = next_uuid
    OBVIOUS
  <2>3. {q \in prewire' : q.uuid \in finished'} = {q \in prewire : q.uuid \in finished}
    BY <1>1, <2>1, <2>2
  <2> QED BY <1>2, <1>9, <2>3 DEF Booked
<1>13. Payments!Settle(S)
  <2> HIDE DEF S, t, n
  <2>1. \E t1 \in {TargetOf[d] : d \in S}, n1 \in 1..Payments!WorthOf(S) :
           /\ \A d \in S : TargetOf[d] = t1
           /\ Payments!Wired(n1, Payments!WorthOf(S))
           /\ Batches' = Batches \cup {[rows |-> S, target |-> t1, amt |-> n1]}
    BY <1>6, <1>7, <1>8, <1>10
  <2> QED BY <1>1, <1>3, <1>11, <1>12, <2>1
          DEF Payments!Settle, Batches, Booked, Statement
<1> HIDE DEF S
<1> QED BY <1>5, <1>13

(* Every step is one of MerchantPayments or none.                          *)
LEMMA NextRefines ==
    ASSUME IndInv, PayInv, PayInv', [Next]_vars
    PROVE  [Payments!PayNext]_(Payments!payVars)
<1> USE DEF Payments!payVars
<1>1. CASE /\ UNCHANGED <<now, deposits, refund>>
           /\ UNCHANGED <<wire_out, aggregation_tracking, ledger, bank_serial,
                          prewire, finished>>
  BY <1>1, MapStill DEF Batches, Statement, Booked
<1>2. ASSUME NEW p \in prewire, BankExecutes(p), UNCHANGED <<prewire, finished>>,
             UNCHANGED aggVars
      PROVE  [Payments!PayNext]_(Payments!payVars)
  <2>1. CASE p.uuid \in Executed
    BY <1>1, <1>2, <2>1 DEF BankExecutes, aggVars
  <2>2. CASE p.uuid \notin Executed
    BY <1>2, <2>2, TransferRefines DEF BankExecutes, Payments!PayNext, Batches
  <2> QED BY <2>1, <2>2
<1>3. CASE WireStep /\ UNCHANGED aggVars
  <2>1. CASE \E p \in prewire : BankTransfer(p) \/ BankReplyLost(p)
    BY <1>2, <1>3, <2>1 DEF BankTransfer, BankReplyLost
  <2>2. CASE WireConfirm
    BY <1>3, <2>2, ConfirmRefines DEF Payments!PayNext, Batches
  <2>3. CASE UNCHANGED <<ledger, bank_serial, prewire, finished>>
    BY <1>1, <1>3, <2>3 DEF aggVars
  <2> QED BY <1>3, <2>1, <2>2, <2>3
          DEF WireStep, RunTransfers, RequestLost, WireConfirmSoftError,
              WireConfirmFails, TransferCrashes, TransferRestarts
<1>4. CASE CommitAggregation
  BY <1>4, CommitRefines DEF Payments!PayNext
<1>5. ASSUME NEW d \in Deposits, Deposit(d) PROVE Payments!PayNext
  <2>1. UNCHANGED <<Batches, Statement, Booked>>
    BY <1>5, MapStill DEF Deposit, wireVars
  <2>2. Payments!Accept(d)
    BY <1>5, <2>1 DEF Deposit, Payments!Accept, Batches, Statement, Booked
  <2> QED BY <2>2 DEF Payments!PayNext
<1>6. ASSUME NEW d \in Deposits, NEW a \in RefundAmounts, Refund(d, a)
      PROVE  Payments!PayNext
  <2>1. UNCHANGED <<Batches, Statement, Booked>>
    BY <1>6, MapStill DEF Refund, wireVars
  <2>2. d \in Payments!Open
    BY <1>6, SettledIsDone DEF Refund, Refundable
  <2>3. Payments!GiveBack(d, a)
    BY <1>6, <2>1, <2>2
       DEF Refund, Refundable, NoRefund, Payments!GiveBack, Batches, Statement, Booked
  <2> QED BY <2>3 DEF Payments!PayNext
<1>7. CASE Tick
  <2>1. UNCHANGED <<Batches, Statement, Booked>>
    BY <1>7, MapStill DEF Tick, wireVars
  <2>2. Payments!Pass
    BY <1>7, <2>1 DEF Tick, Payments!Pass, Batches, Statement, Booked
  <2> QED BY <2>2 DEF Payments!PayNext
<1>8. CASE AggregatorStep /\ ~CommitAggregation
  <2>1. /\ UNCHANGED <<now, deposits, refund>>
        /\ UNCHANGED <<wire_out, aggregation_tracking, ledger, bank_serial,
                       prewire, finished>>
    BY <1>8 DEF AggregatorStep, StartAggregation, AggregateRow, AggregateRowFails,
                AggregationSoftError, PrepareFails, ValueTooLow, MarkTiny,
                MarkTinyFails, AggregatorStops, AggregatorRestarts, GiveUp, wireVars
  <2> QED BY <1>1, <2>1
<1>9. CASE UNCHANGED vars
  BY <1>1, <1>9 DEF vars, aggVars, wireVars
<1> QED BY <1>3, <1>4, <1>5, <1>6, <1>7, <1>8, <1>9 DEF Next, ServerStep

(* The empty database is a state without payments.                         *)
LEMMA InitRefines == Init => Payments!PayInit
<1> SUFFICES ASSUME Init PROVE Payments!PayInit
  OBVIOUS
<1>1. 1..(bank_serial - 1) = {}
  BY DEF Init, WireInit
<1>2. Statement = << >>
  BY <1>1 DEF Statement
<1> QED BY <1>2 DEF Init, WireInit, Payments!PayInit, Statement, NoRefund

(* Aggregator, transfer process, HTTP server and bank implement the        *)
(* promise made to merchants: every step of run_aggregation, run_transfers *)
(* and wire_confirm_cb, of the handlers and of the bank, with its crashes  *)
(* and lost messages, is one step of MerchantPayments or leaves what the   *)
(* merchants see alone.                                                    *)
THEOREM MerchantsAlwaysPaid == Spec => MerchantsArePaid
<1>1. Init => Payments!PayInit
  BY InitRefines
<1>2. IndInv /\ PayInv /\ PayInv' /\ [Next]_vars => [Payments!PayNext]_(Payments!payVars)
  BY NextRefines
<1> QED BY <1>1, <1>2, Invariance, PayInvariance, PTL
        DEF Spec, MerchantsArePaid, Payments!PaySpec

---------------------------------------------------------------------------
(* Tracking.                                                               *)

(* What the database says about a transfer stays.                          *)
LEMMA StepKeeps ==
    ASSUME IndInv, [Next]_vars
    PROVE  /\ wire_out \subseteq wire_out'
           /\ aggregation_tracking \subseteq aggregation_tracking'
           /\ deposits \subseteq deposits'
           /\ \A d \in done : refund'[d] = refund[d]
           /\ \A o \in wire_out : \A w : w = o.wtid => DepositsOf(w)' = DepositsOf(w)
<1> DEFINE Kept ==
           /\ wire_out \subseteq wire_out'
           /\ aggregation_tracking \subseteq aggregation_tracking'
           /\ deposits \subseteq deposits'
           /\ \A d \in done : refund'[d] = refund[d]
           /\ \A o \in wire_out : \A w : w = o.wtid => DepositsOf(w)' = DepositsOf(w)
<1>1. CASE /\ UNCHANGED <<wire_out, aggregation_tracking>>
           /\ deposits \subseteq deposits'
           /\ \A d \in done : refund'[d] = refund[d]
  BY <1>1 DEF DepositsOf
<1>2. CASE CommitAggregation
  BY <1>2, CommitTracks
     DEF CommitAggregation, InsertTracking, StoreWireTransferOut
<1>3. ASSUME NEW d \in Deposits, NEW a \in RefundAmounts, Refund(d, a) PROVE Kept
  <2>1. refund \in [Deposits -> Int] /\ done \subseteq Deposits
    BY DEF IndInv, TypeOK, RefundsOK
  <2>2. \A x \in done : refund'[x] = refund[x]
    BY <1>3, <2>1 DEF Refund, Refundable
  <2> QED BY <1>1, <1>3, <2>2 DEF Refund
<1>4. CASE WireStep /\ UNCHANGED aggVars
  BY <1>1, <1>4 DEF aggVars
<1>5. CASE AggregatorStep /\ ~CommitAggregation
  BY <1>1, <1>5
     DEF AggregatorStep, StartAggregation, AggregateRow, AggregateRowFails,
         AggregationSoftError, PrepareFails, ValueTooLow, MarkTiny,
         MarkTinyFails, AggregatorStops, AggregatorRestarts, GiveUp
<1>6. CASE ServerStep
  BY <1>1, <1>3, <1>6 DEF ServerStep, Deposit, Tick
<1>7. CASE UNCHANGED vars
  BY <1>1, <1>7 DEF vars, aggVars
<1> QED BY <1>2, <1>4, <1>5, <1>6, <1>7 DEF Next

(* The lookups read the database only.                                     *)
LEMMA TrackStepReads == [TrackNext]_allVars => [Next]_vars
  BY DEF TrackNext, TrackStep, TransfersGet, LookupTransfer,
         LookupTransferSoftError, LookupCrashes, ServerRestarts, DepositsGet,
         LookupDeposit, LookupDepositSoftError, allVars

(* The invariants of the aggregation hold with the lookups.                *)
LEMMA TrackInvariance == TrackSpec => [](IndInv /\ PayInv)
<1>1. TrackInit => Init
  BY DEF TrackInit
<1> QED BY <1>1, TrackStepReads, InitIndInv, InitPays, NextIndInv, NextPays, PTL
        DEF TrackSpec

(* Without refunds the rows of a transfer add up to what they are worth.   *)
LEMMA TotalIsValue ==
    ASSUME IndInv, NEW rows, rows \subseteq Deposits, ~Inconsistent(rows),
           \A d \in rows : refund[d] = NoRefund
    PROVE  Total(rows) = Value(refund, rows)
<1>1. \A d \in rows : Delta(d) = Contribution(d, refund[d])
  BY DepositsAssumption DEF Inconsistent, Delta, Contribution
<1>2. [d \in rows |-> Delta(d)] = [d \in rows |-> Contribution(d, refund[d])]
  BY <1>1
<1> QED BY <1>2 DEF Total, Value

(* A list that the server sends is accepted and true.                      *)
LEMMA TransferReplyTrue ==
    ASSUME IndInv, PayInv, NEW w, NEW v, NEW r,
           r = CheckTransfer(TransferReply(w, v))
    PROVE  /\ r.op = "transfer" /\ r.status # 0
           /\ r.status = 200 =>
                \E o \in wire_out :
                    /\ o.wtid = r.id
                    /\ r.rows = DepositsOf(o.wtid)
                    /\ (\A d \in r.rows : refund[d] = NoRefund) =>
                          RoundDown(r.total) = o.amt
<1> DEFINE q == TransferReply(w, v)
           rows == LookupWireTransfer(w)
<1>1. CASE q = Failure("transfer", w, 500) \/ q = Failure("transfer", w, 404)
  BY <1>1 DEF CheckTransfer, Failure
<1>2. CASE /\ ~Inconsistent(rows) /\ rows # {}
           /\ q = ReplyTransferDetails(w, rows)
  <2>1. /\ q.op = "transfer" /\ q.status = 200 /\ q.id = w /\ q.rows = rows
        /\ q.fee = WireFee /\ q.total = Total(rows) - WireFee
    BY <1>2 DEF ReplyTransferDetails
  <2>2. r = q
    BY <2>1 DEF CheckTransfer
  <2>3. PICK o \in wire_out : o.wtid = w
    BY <1>2 DEF LookupWireTransfer
  <2>4. rows = DepositsOf(w) /\ rows \subseteq Deposits
    BY <2>3 DEF LookupWireTransfer, DepositsOf
  <2>5. ASSUME \A d \in rows : refund[d] = NoRefund
        PROVE  RoundDown(q.total) = o.amt
    <3>1. Total(rows) = Value(refund, rows)
      BY <1>2, <2>4, <2>5, TotalIsValue
    <3>2. o.amt = FinalAmount(Value(refund, DepositsOf(o.wtid)))
      BY DEF PayInv, BatchPays, Pays
    <3> QED BY <2>1, <2>3, <2>4, <3>1, <3>2 DEF FinalAmount
  <2> HIDE DEF q, rows
  <2> QED BY <2>1, <2>2, <2>3, <2>4, <2>5
<1> HIDE DEF rows
<1> QED BY <1>1, <1>2 DEF TransferReply, rows

(* The tracking of a deposit.                                              *)
LEMMA WtidTracked ==
    ASSUME IndInv, NEW d
    PROVE  \A w : w \in DepositWtid(d) <=> <<d, w>> \in aggregation_tracking
<1>1. aggregation_tracking \subseteq Deposits \X Uuids
  BY DEF IndInv, TypeOK
<1>2. ASSUME NEW w, w \in DepositWtid(d) PROVE <<d, w>> \in aggregation_tracking
  <2>1. PICK t \in aggregation_tracking : t[1] = d /\ t[2] = w
    BY <1>2 DEF DepositWtid, TrackingOf
  <2> QED BY <1>1, <2>1
<1>3. ASSUME NEW w, <<d, w>> \in aggregation_tracking PROVE w \in DepositWtid(d)
  BY <1>3 DEF DepositWtid, TrackingOf
<1> QED BY <1>2, <1>3

(* What the server says of a deposit.                                      *)
LEMMA DepositReplyTrue ==
    ASSUME IndInv, NEW d, NEW p, NEW r, r = DepositReply(d, p)
    PROVE  /\ r.op = "deposit" /\ r.id = d
           /\ r.status \in {200, 202} => d \in deposits
           /\ r.status = 200 =>
                 /\ <<d, r.wtid>> \in aggregation_tracking
                 /\ r = ReplyDepositDetails(d, r.wtid)
                 /\ ~(DepositFee[d] > Amount[d])
<1>1. CASE \/ r = Failure("deposit", d, 404) \/ r = Failure("deposit", d, 500)
  BY <1>1 DEF Failure
<1>2. CASE r = Failure("deposit", d, 202) /\ d \in deposits
  BY <1>2 DEF Failure
<1>3. CASE /\ d \in deposits /\ ~Pends(d) /\ ~(DepositFee[d] > Amount[d])
           /\ r = ReplyDepositDetails(d, CHOOSE w \in DepositWtid(d) : TRUE)
  <2> DEFINE w0 == CHOOSE w \in DepositWtid(d) : TRUE
  <2>1. w0 \in DepositWtid(d)
    BY <1>3 DEF Pends
  <2>2. <<d, w0>> \in aggregation_tracking
    BY <2>1, WtidTracked
  <2> HIDE DEF w0
  <2>3. r.op = "deposit" /\ r.id = d /\ r.status = 200 /\ r.wtid = w0
    BY <1>3 DEF ReplyDepositDetails, w0
  <2> QED BY <1>3, <2>2, <2>3 DEF w0
<1> QED BY <1>1, <1>2, <1>3 DEF DepositReply

(* Truth is preserved.                                                     *)
LEMMA TruthStays ==
    ASSUME IndInv, PayInv, TrackingTruthful, [TrackNext]_allVars
    PROVE  TrackingTruthful'
<1>1. CASE LookupTransfer
  <2> DEFINE r == report'
  <2>1. r = CheckTransfer(TransferReply(ctx.id, ctx.is_valid))
    BY <1>1 DEF LookupTransfer
  <2>2. UNCHANGED vars
    BY <1>1 DEF LookupTransfer
  <2>3. UNCHANGED <<wire_out, refund, aggregation_tracking>>
    BY <2>2 DEF vars, aggVars
  <2> HIDE DEF r
  <2>4. /\ r.op = "transfer" /\ r.status # 0
        /\ r.status = 200 =>
              \E o \in wire_out :
                 /\ o.wtid = r.id
                 /\ r.rows = DepositsOf(o.wtid)
                 /\ (\A d \in r.rows : refund[d] = NoRefund) =>
                       RoundDown(r.total) = o.amt
    BY ONLY IndInv, PayInv, <2>1, TransferReplyTrue
  <2> QED BY <2>3, <2>4 DEF TrackingTruthful, DepositsOf, r
<1>2. CASE LookupDeposit
  <2> DEFINE r == report'
  <2>1. r = DepositReply(ctx.id, ctx.pending)
    BY <1>2 DEF LookupDeposit
  <2>2. UNCHANGED vars
    BY <1>2 DEF LookupDeposit
  <2>3. UNCHANGED aggregation_tracking
    BY <2>2 DEF vars, aggVars
  <2> HIDE DEF r
  <2>4. /\ r.op = "deposit"
        /\ r.status = 200 => <<r.id, r.wtid>> \in aggregation_tracking
    <3> PICK d, p : d = ctx.id /\ p = ctx.pending
      OBVIOUS
    <3>1. r = DepositReply(d, p)
      BY <2>1
    <3>2. /\ r.op = "deposit" /\ r.id = d
          /\ r.status \in {200, 202} => d \in deposits
          /\ r.status = 200 =>
                 /\ <<d, r.wtid>> \in aggregation_tracking
                 /\ r = ReplyDepositDetails(d, r.wtid)
                 /\ ~(DepositFee[d] > Amount[d])
      BY ONLY IndInv, <3>1, DepositReplyTrue
    <3> QED BY <3>2
  <2> QED BY <2>3, <2>4 DEF TrackingTruthful, r
<1>3. CASE report' = report
  <2>1. [Next]_vars
    BY TrackStepReads
  <2>2. /\ wire_out \subseteq wire_out'
        /\ aggregation_tracking \subseteq aggregation_tracking'
        /\ \A d \in done : refund'[d] = refund[d]
        /\ \A o \in wire_out : \A w : w = o.wtid => DepositsOf(w)' = DepositsOf(w)
    BY <2>1, StepKeeps
  <2>3. \A w : DepositsOf(w) \subseteq done
    BY DEF DepositsOf, IndInv, DoneIsTracked
  <2>4. ASSUME report.op = "transfer", report.status = 200
        PROVE  \E o \in wire_out' :
                    /\ o.wtid = report.id
                    /\ report.rows = DepositsOf(o.wtid)'
                    /\ (\A d \in report.rows : refund'[d] = NoRefund) =>
                          RoundDown(report.total) = o.amt
    <3>1. PICK o \in wire_out :
                    /\ o.wtid = report.id
                    /\ report.rows = DepositsOf(o.wtid)
                    /\ (\A d \in report.rows : refund[d] = NoRefund) =>
                          RoundDown(report.total) = o.amt
      BY <2>4 DEF TrackingTruthful
    <3>2. DepositsOf(o.wtid)' = DepositsOf(o.wtid)
      BY <2>2
    <3>3. \A d \in report.rows : refund'[d] = refund[d]
      BY <2>2, <2>3, <3>1
    <3> QED BY <2>2, <3>1, <3>2, <3>3
  <2> QED BY <1>3, <2>2, <2>4 DEF TrackingTruthful
<1> QED BY <1>1, <1>2, <1>3
        DEF TrackNext, TrackStep, TransfersGet, LookupTransferSoftError,
            LookupCrashes, ServerRestarts, DepositsGet, LookupDepositSoftError,
            allVars, trackVars

(* What merchants are told is true: a list of get_transfer_deposits is     *)
(* never refused by the client library for its sum, is complete, stays so, *)
(* and without refunds adds up to what was wired; the transfer that        *)
(* handle_track_transaction_request names has the deposit.                 *)
THEOREM TrackingAlwaysTruthful == TrackSpec => []TrackingTruthful
<1>1. TrackInit => TrackingTruthful
  BY DEF TrackInit, TrackingTruthful, NoRequest
<1> QED BY <1>1, TruthStays, TrackInvariance, PTL DEF TrackSpec

\* The contexts of requests.
TransferCtx == [op : {"transfer"}, id : Nat, tries : Nat,
                is_valid : {"no", "yes", "error"}]
DepositCtx == [op : {"deposit"}, id : Asked, tries : Nat, pending : BOOLEAN]
CtxType == ctx = NoRequest \/ ctx \in TransferCtx \/ ctx \in DepositCtx

\* A context is pending for a deposit that exists, and not after the client
\* was told of its transfer.
CtxInv ==
    ctx.op = "deposit" =>
        /\ ctx.pending => ctx.id \in deposits
        /\ (report.op = "deposit" /\ report.status = 200
              /\ report.id = ctx.id) => ~ctx.pending

\* What the client was told of a deposit.
ReportInv ==
    report.op = "deposit" =>
        /\ report.status \in {200, 202} => report.id \in deposits
        /\ report.status = 200 =>
              /\ <<report.id, report.wtid>> \in aggregation_tracking
              /\ report = ReplyDepositDetails(report.id, report.wtid)
              /\ ~(DepositFee[report.id] > Amount[report.id])

AnswerInv == CtxType /\ CtxInv /\ ReportInv

(* The context of a second attempt.                                        *)
LEMMA DepositAgain ==
    ASSUME NEW c \in DepositCtx, NEW b \in BOOLEAN, NEW x,
           x = [c EXCEPT !.tries = c.tries + 1, !.pending = b]
    PROVE  x \in DepositCtx /\ x.id = c.id /\ x.pending = b
<1>1. c = [op |-> "deposit", id |-> c.id, tries |-> c.tries, pending |-> c.pending]
  BY DEF DepositCtx
<1>2. x = [op |-> "deposit", id |-> c.id, tries |-> c.tries + 1, pending |-> b]
  <2> DEFINE y == [op |-> "deposit", id |-> c.id, tries |-> c.tries + 1, pending |-> b]
  <2>1. DOMAIN c = {"op", "id", "tries", "pending"} /\ c["op"] = "deposit"
    BY <1>1
  <2>2. x = [k \in DOMAIN c |-> IF k = "pending" THEN b
                                ELSE IF k = "tries" THEN c.tries + 1 ELSE c[k]]
    BY <2>1
  <2>3. y = [k \in DOMAIN c |-> IF k = "pending" THEN b
                                ELSE IF k = "tries" THEN c.tries + 1 ELSE c[k]]
    BY <2>1
  <2> QED BY <2>2, <2>3
<1>3. c.id \in Asked /\ c.tries + 1 \in Nat
  BY DEF DepositCtx
<1> QED BY <1>2, <1>3 DEF DepositCtx

LEMMA TransferAgain ==
    ASSUME NEW c \in TransferCtx, NEW v \in {"yes", "error"}, NEW x,
           x = [c EXCEPT !.tries = c.tries + 1, !.is_valid = v]
    PROVE  x \in TransferCtx
<1>1. c = [op |-> "transfer", id |-> c.id, tries |-> c.tries, is_valid |-> c.is_valid]
  BY DEF TransferCtx
<1>2. x = [op |-> "transfer", id |-> c.id, tries |-> c.tries + 1, is_valid |-> v]
  <2> DEFINE y == [op |-> "transfer", id |-> c.id, tries |-> c.tries + 1, is_valid |-> v]
  <2>1. DOMAIN c = {"op", "id", "tries", "is_valid"} /\ c["op"] = "transfer"
    BY <1>1
  <2>2. x = [k \in DOMAIN c |-> IF k = "is_valid" THEN v
                                ELSE IF k = "tries" THEN c.tries + 1 ELSE c[k]]
    BY <2>1
  <2>3. y = [k \in DOMAIN c |-> IF k = "is_valid" THEN v
                                ELSE IF k = "tries" THEN c.tries + 1 ELSE c[k]]
    BY <2>1
  <2> QED BY <2>2, <2>3
<1>3. c.id \in Nat /\ c.tries + 1 \in Nat
  BY DEF TransferCtx
<1> QED BY <1>2, <1>3 DEF TransferCtx

(* A repeated lookup of a deposit.                                         *)
LEMMA RetryAnswers ==
    ASSUME IndInv, AnswerInv, LookupDepositSoftError
    PROVE  AnswerInv'
<1> DEFINE c == ctx
           b == ctx.pending \/ Pends(ctx.id)
<1>1. /\ c.op = "deposit" /\ UNCHANGED <<report, vars>>
      /\ ctx' = [c EXCEPT !.tries = c.tries + 1, !.pending = b]
  BY DEF LookupDepositSoftError
<1>2. c \in DepositCtx
  BY <1>1 DEF AnswerInv, CtxType, NoRequest, TransferCtx
<1>3. b \in BOOLEAN
  BY Zenon
<1>4. UNCHANGED <<deposits, aggregation_tracking>>
  BY <1>1 DEF vars, aggVars
<1>5. /\ ctx' \in DepositCtx /\ ctx'.id = c.id /\ ctx'.pending = b
  <2> HIDE DEF c, b
  <2> QED BY <1>1, <1>2, <1>3, DepositAgain
<1>6. b => c.id \in deposits
  BY <1>1 DEF AnswerInv, CtxInv, Pends
<1>7. ASSUME report.op = "deposit", report.status = 200, report.id = c.id PROVE ~b
  <2>1. ~ctx.pending
    BY <1>1, <1>7 DEF AnswerInv, CtxInv
  <2>2. <<c.id, report.wtid>> \in aggregation_tracking
    BY <1>7 DEF AnswerInv, ReportInv
  <2>3. \A d, w : <<d, w>> \in aggregation_tracking => w \in DepositWtid(d)
    BY WtidTracked
  <2>4. ~Pends(ctx.id)
    BY <2>2, <2>3 DEF Pends
  <2> QED BY <2>1, <2>4
<1>8. CtxInv'
  <2>1. ctx'.pending => ctx'.id \in deposits'
    BY <1>4, <1>5, <1>6
  <2>2. (report'.op = "deposit" /\ report'.status = 200 /\ report'.id = ctx'.id)
            => ~ctx'.pending
    BY <1>1, <1>5, <1>7
  <2> QED BY <2>1, <2>2 DEF CtxInv
<1>9. ReportInv'
  BY <1>1, <1>4 DEF AnswerInv, ReportInv, ReplyDepositDetails, Delta
<1> QED BY <1>5, <1>8, <1>9 DEF AnswerInv, CtxType

(* The answers about a deposit.                                            *)
LEMMA AnswersStay ==
    ASSUME IndInv, AnswerInv, [TrackNext]_allVars
    PROVE  AnswerInv'
<1>1. [Next]_vars
  BY TrackStepReads
<1>2. deposits \subseteq deposits' /\ aggregation_tracking \subseteq aggregation_tracking'
  BY <1>1, StepKeeps
<1>3. CASE report' = report
  <2>1. ReportInv'
    BY <1>2, <1>3 DEF AnswerInv, ReportInv, ReplyDepositDetails, Delta
  <2>2. CASE ctx' = ctx
    BY <1>2, <1>3, <2>1, <2>2 DEF AnswerInv, CtxType, CtxInv
  <2>3. CASE CtxType' /\ ctx'.op # "deposit"
    BY <2>1, <2>3 DEF AnswerInv, CtxInv
  <2>4. CASE \E w \in 1..next_wtid : TransfersGet(w)
    <3>1. \A w \in 1..next_wtid : FreshTransfer(w) \in TransferCtx
      BY DEF IndInv, TypeOK, Uuids, FreshTransfer, TransferCtx
    <3> QED BY <2>3, <2>4, <3>1 DEF TransfersGet, CtxType, TransferCtx
  <2>5. CASE LookupTransferSoftError
    <3> DEFINE v == IF Inconsistent(LookupWireTransfer(ctx.id)) THEN "error" ELSE "yes"
    <3>1. /\ ctx.op = "transfer"
          /\ ctx' = [ctx EXCEPT !.tries = ctx.tries + 1, !.is_valid = v]
      BY <2>5 DEF LookupTransferSoftError
    <3>2. v \in {"yes", "error"}
      OBVIOUS
    <3>3. ctx \in TransferCtx
      BY <3>1 DEF AnswerInv, CtxType, NoRequest, DepositCtx
    <3> HIDE DEF v
    <3>4. ctx' \in TransferCtx
      BY <3>1, <3>2, <3>3, TransferAgain
    <3> QED BY <2>3, <3>4 DEF CtxType, TransferCtx
  <2>6. CASE ctx' = NoRequest
    BY <2>3, <2>6 DEF CtxType, NoRequest
  <2>7. ASSUME NEW d \in Asked, DepositsGet(d) PROVE AnswerInv'
    <3>1. ctx' = FreshDeposit(d)
      BY <2>7 DEF DepositsGet
    <3>2. ctx' \in DepositCtx /\ ctx'.pending = FALSE
      BY <3>1 DEF FreshDeposit, DepositCtx
    <3> QED BY <2>1, <3>2 DEF AnswerInv, CtxType, CtxInv
  <2>8. CASE LookupDepositSoftError
    BY <2>8, RetryAnswers
  <2>9. CASE LookupTransfer \/ LookupDeposit \/ LookupCrashes
    BY <2>6, <2>9 DEF LookupTransfer, LookupDeposit, LookupCrashes
  <2> QED BY <2>2, <2>4, <2>5, <2>7, <2>8, <2>9
          DEF TrackNext, TrackStep, ServerRestarts, allVars, trackVars
<1>4. CASE LookupTransfer
  <2>1. PICK w, v : w = ctx.id /\ v = ctx.is_valid
    OBVIOUS
  <2> DEFINE q == TransferReply(w, v)
  <2>2. report' = CheckTransfer(q)
    BY <1>4, <2>1 DEF LookupTransfer
  <2>3. q.op = "transfer" /\ CheckTransfer(q).op = q.op
    BY DEF TransferReply, CheckTransfer, Failure, ReplyTransferDetails
  <2>4. report'.op # "deposit" /\ ctx' = NoRequest
    BY <1>4, <2>2, <2>3 DEF LookupTransfer
  <2> QED BY <2>4 DEF AnswerInv, CtxType, CtxInv, ReportInv, NoRequest
<1>5. CASE LookupDeposit
  <2> PICK d, p : d = ctx.id /\ p = ctx.pending
    OBVIOUS
  <2> PICK r : r = report'
    OBVIOUS
  <2>1. /\ r = DepositReply(d, p) /\ ctx' = NoRequest /\ UNCHANGED vars
    BY <1>5 DEF LookupDeposit
  <2>2. UNCHANGED <<deposits, aggregation_tracking>>
    BY <2>1 DEF vars, aggVars
  <2>3. /\ r.op = "deposit" /\ r.id = d
        /\ r.status \in {200, 202} => d \in deposits
        /\ r.status = 200 =>
              /\ <<d, r.wtid>> \in aggregation_tracking
              /\ r = ReplyDepositDetails(d, r.wtid)
              /\ ~(DepositFee[d] > Amount[d])
    BY ONLY IndInv, <2>1, DepositReplyTrue
  <2>4. ReportInv'
    BY <2>2, <2>3 DEF ReportInv, ReplyDepositDetails, Delta
  <2> QED BY <2>1, <2>4 DEF AnswerInv, CtxType, CtxInv, NoRequest
<1> QED BY <1>3, <1>4, <1>5
        DEF TrackNext, TrackStep, TransfersGet, LookupTransferSoftError,
            LookupCrashes, ServerRestarts, DepositsGet, LookupDepositSoftError,
            allVars, trackVars

(* What the client was told of a deposit by handle_wtid_data and           *)
(* handle_track_transaction_request is not taken back, however often the   *)
(* transaction was repeated with the same context.  The hypothesis is a    *)
(* check of TEH_handler_deposit, which refuses a deposit that its fee      *)
(* exceeds; such a deposit would change from 202 to 500.                   *)
THEOREM AnswersAlwaysAdvance ==
    ASSUME \A d \in Asked : DepositFee[d] <= Amount[d]
    PROVE  TrackSpec => AnswersOnlyAdvance
<1> DEFINE Advances ==
        (report.op = "deposit" /\ report'.op = "deposit"
            /\ report.id = report'.id) =>
          /\ report.status = 200 => report' = report
          /\ report.status = 202 => report'.status \in {200, 202}
<1>1. TrackInit => AnswerInv
  BY DEF TrackInit, AnswerInv, CtxType, CtxInv, ReportInv, NoRequest
<1>2. IndInv /\ AnswerInv /\ [TrackNext]_allVars => [Advances]_allVars
  <2> SUFFICES ASSUME IndInv, AnswerInv, TrackNext PROVE Advances
    OBVIOUS
  <2>1. CASE report' = report
    BY <2>1
  <2>2. CASE LookupTransfer
    <3>1. PICK w, v : w = ctx.id /\ v = ctx.is_valid
      OBVIOUS
    <3> DEFINE q == TransferReply(w, v)
    <3>2. report' = CheckTransfer(q)
      BY <2>2, <3>1 DEF LookupTransfer
    <3>3. q.op = "transfer" /\ CheckTransfer(q).op = q.op
      BY DEF TransferReply, CheckTransfer, Failure, ReplyTransferDetails
    <3> QED BY <3>2, <3>3
  <2>3. CASE LookupDeposit
    <3> SUFFICES ASSUME report.op = "deposit", report.id = report'.id
                 PROVE  /\ report.status = 200 => report' = report
                        /\ report.status = 202 => report'.status \in {200, 202}
      OBVIOUS
    <3> PICK d, p : d = ctx.id /\ p = ctx.pending
      OBVIOUS
    <3> PICK r : r = report'
      OBVIOUS
    <3>1. r = DepositReply(d, p) /\ ctx.op = "deposit"
      BY <2>3 DEF LookupDeposit
    <3>2. r.id = d
      BY ONLY IndInv, <3>1, DepositReplyTrue
    <3>3. d \in Asked /\ d \in Deposits
      BY <3>1, TrackingAssumption
         DEF AnswerInv, CtxType, NoRequest, TransferCtx, DepositCtx
    <3>4. ~(DepositFee[d] > Amount[d])
      BY <3>3, DepositsAssumption
    <3>5. CASE report.status = 202
      <4>1. d \in deposits
        BY <3>2, <3>5 DEF AnswerInv, ReportInv
      <4>2. \/ r = Failure("deposit", d, 202)
            \/ r = ReplyDepositDetails(d, CHOOSE w \in DepositWtid(d) : TRUE)
        BY <3>1, <3>4, <4>1 DEF DepositReply
      <4>3. r.status \in {200, 202}
        BY <4>2 DEF Failure, ReplyDepositDetails
      <4> QED BY <3>5, <4>3
    <3>6. CASE report.status = 200
      <4>1. /\ <<d, report.wtid>> \in aggregation_tracking
            /\ report = ReplyDepositDetails(d, report.wtid)
        BY <3>2, <3>6 DEF AnswerInv, ReportInv
      <4>2. ~ctx.pending
        BY <3>1, <3>2, <3>6 DEF AnswerInv, CtxInv
      <4>3. \A w : w \in DepositWtid(d) <=> <<d, w>> \in aggregation_tracking
        BY WtidTracked
      <4>4. \A s, t \in aggregation_tracking : s[1] = t[1] => s = t
        BY DEF IndInv, DoneIsTracked
      <4>5. DepositWtid(d) = {report.wtid}
        <5> DEFINE x == report.wtid
        <5>1. <<d, x>> \in aggregation_tracking
          BY <4>1
        <5> HIDE DEF x
        <5>2. \A w : <<d, w>> \in aggregation_tracking => w = x
          <6> SUFFICES ASSUME NEW w, <<d, w>> \in aggregation_tracking PROVE w = x
            OBVIOUS
          <6>1. <<d, w>> = <<d, x>>
            BY <4>4, <5>1
          <6> QED BY <6>1
        <5>3. DepositWtid(d) = {x}
          BY <4>3, <5>1, <5>2
        <5> QED BY <5>3 DEF x
      <4>6. d \in deposits
        BY <3>2, <3>6 DEF AnswerInv, ReportInv
      <4>7. r = ReplyDepositDetails(d, CHOOSE w \in DepositWtid(d) : TRUE)
        BY <3>1, <3>4, <4>2, <4>5, <4>6 DEF DepositReply, Pends
      <4>8. (CHOOSE w \in DepositWtid(d) : TRUE) = report.wtid
        BY <4>5
      <4>9. r = report
        BY <4>1, <4>7, <4>8
      <4> QED BY <3>6, <4>9
    <3> QED BY <3>5, <3>6
  <2> QED BY <2>1, <2>2, <2>3
          DEF TrackNext, TrackStep, TransfersGet, LookupTransferSoftError,
              LookupCrashes, ServerRestarts, DepositsGet, LookupDepositSoftError,
              trackVars
<1> QED BY <1>1, <1>2, AnswersStay, TrackInvariance, PTL
        DEF TrackSpec, AnswersOnlyAdvance
=============================================================================
