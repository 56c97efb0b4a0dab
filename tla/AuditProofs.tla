---------------------------- MODULE AuditProofs ----------------------------
(***************************************************************************)
(* Proofs about Auditor, for every plan of operations, honest or not.      *)
(*                                                                         *)
(* The deposits helper lists what is missing from its mark on only.  That  *)
(* nothing below the mark is missing takes two facts: the mark stops       *)
(* before the first confirmation that is missing, and a deposit that was   *)
(* committed stays committed.  This holds with any number of open          *)
(* transactions.                                                           *)
(*                                                                         *)
(* The other theorems assume MaxOpen = 1: with two open transactions the   *)
(* one with the higher serial number may commit first, and an audit        *)
(* between the two commits moves its mark past a row that it never sees.   *)
(* With one at a time the committed rows are those with the lowest serial  *)
(* numbers, and each audit adds to what is below the marks exactly what    *)
(* was committed since the last one.                                       *)
(***************************************************************************)
EXTENDS Auditor, SumTheorems

---------------------------------------------------------------------------
(* Confirmed deposits.                                                     *)
\* Where rows are.
RowsKnown == DOMAIN row = plan /\ open \subseteq plan

\* The confirmations up to the mark are of deposits that are there, unless
\* the mark was ever a guess.
MarkInv ==
    ~dreport.guess =>
        /\ ppd \in Nat /\ ppd <= Len(dcs)
        /\ \A i \in DOMAIN dcs : i <= ppd => HaveDeposit(dcs[i], Committed)

DepositAuditInv ==
    /\ RowsKnown
    /\ dreport.guess \in BOOLEAN
    /\ dcs \in Seq(plan)
    /\ MarkInv
    /\ MissingListedUnlessGuess

(* At first there is no confirmation and no report.                        *)
LEMMA InitDepositAudit == Init => DepositAuditInv
PROOF
<1> SUFFICES ASSUME Init PROVE DepositAuditInv
  OBVIOUS
<1>1. DOMAIN row = plan /\ open = {}
  BY DEF Init, BooksInit
<1>2. /\ dcs = <<>> /\ ppd = 0
      /\ dreport = [missing |-> {}, listed |-> {}, guess |-> FALSE]
  BY DEF Init, AuditDepositsInit
<1> QED
  BY <1>1, <1>2 DEF DepositAuditInv, RowsKnown, MarkInv, MissingListedUnlessGuess,
                    MissingDepositsListed

(* No step of the exchange takes a committed row back.                     *)
LEMMA CommittedStays ==
    ASSUME RowsKnown, BooksNext
    PROVE  RowsKnown' /\ plan' = plan /\ Committed \subseteq Committed'
PROOF
<1>1. ASSUME NEW o \in plan, Insert(o)
      PROVE  RowsKnown' /\ plan' = plan /\ Committed \subseteq Committed'
  <2>1. /\ row[o].id = 0 /\ plan' = plan /\ open' = open \cup {o}
        /\ \E v : row' = [row EXCEPT ![o] = v]
    BY <1>1 DEF Insert
  <2>2. /\ DOMAIN row' = DOMAIN row
        /\ \A p \in plan \ {o} : row'[p] = row[p]
    BY <2>1 DEF RowsKnown
  <2>3. o \notin Committed
    BY <2>1 DEF Committed
  <2> QED
    BY <2>1, <2>2, <2>3 DEF RowsKnown, Committed
<1>2. ASSUME NEW o \in plan, Commit(o)
      PROVE  RowsKnown' /\ plan' = plan /\ Committed \subseteq Committed'
  BY <1>2 DEF Commit, RowsKnown, Committed
<1>3. ASSUME UNCHANGED <<plan, row, open>>
      PROVE  RowsKnown' /\ plan' = plan /\ Committed \subseteq Committed'
  BY <1>3 DEF RowsKnown, Committed
<1>4. (\E o \in plan : BankCredit(o) \/ Steal(o)) \/ BankDebit \/ Tick
         => UNCHANGED <<plan, row, open>>
  BY DEF BankCredit, Steal, BankDebit, Tick
<1> QED
  BY <1>1, <1>2, <1>3, <1>4 DEF BooksNext

(* A step that leaves the deposits helper and its table alone.             *)
LEMMA OthersDepositAudit ==
    ASSUME DepositAuditInv, RowsKnown', plan' = plan, Committed \subseteq Committed',
           UNCHANGED depositAuditVars
    PROVE  DepositAuditInv'
PROOF
<1>1. dcs' = dcs /\ ppd' = ppd /\ dreport' = dreport
  BY DEF depositAuditVars
<1>2. MarkInv'
  <2>1. \A i \in DOMAIN dcs : HaveDeposit(dcs[i], Committed)
                                => HaveDeposit(dcs[i], Committed')
    BY DEF HaveDeposit
  <2> QED
    BY <1>1, <2>1 DEF DepositAuditInv, MarkInv, HaveDeposit
<1> QED
  BY <1>1, <1>2 DEF DepositAuditInv, MissingListedUnlessGuess, MissingDepositsListed

(* A new confirmation goes to the end of the table.                        *)
LEMMA ConfirmDepositAudit ==
    ASSUME DepositAuditInv, NEW o \in plan, Confirm(o)
    PROVE  DepositAuditInv'
PROOF
<1>1. /\ dcs' = Append(dcs, o) /\ ppd' = ppd /\ dreport' = dreport
      /\ plan' = plan /\ row' = row /\ open' = open
  BY DEF Confirm, DepositConfirmation, InsertDepositConfirmation, bookVars
<1>2. dcs \in Seq(plan) /\ RowsKnown /\ Len(dcs) \in Nat
  BY DEF DepositAuditInv
<1>3. /\ dcs' \in Seq(plan) /\ Len(dcs') = Len(dcs) + 1
      /\ \A i \in 1..Len(dcs) : dcs'[i] = dcs[i]
      /\ DOMAIN dcs = 1..Len(dcs) /\ DOMAIN dcs' = 1..(Len(dcs) + 1)
  BY <1>1, <1>2
<1>4. RowsKnown' /\ Committed' = Committed
  BY <1>1, <1>2 DEF RowsKnown, Committed
<1>5. MarkInv'
  <2> SUFFICES ASSUME ~dreport.guess
               PROVE  /\ ppd \in Nat /\ ppd <= Len(dcs')
                      /\ \A i \in DOMAIN dcs' :
                            i <= ppd => HaveDeposit(dcs'[i], Committed)
    BY <1>1, <1>4 DEF MarkInv, HaveDeposit
  <2>1. /\ ppd \in Nat /\ ppd <= Len(dcs)
        /\ \A i \in DOMAIN dcs : i <= ppd => HaveDeposit(dcs[i], Committed)
    BY DEF DepositAuditInv, MarkInv
  <2>2. ASSUME NEW i \in DOMAIN dcs', i <= ppd
        PROVE  HaveDeposit(dcs'[i], Committed)
    <3>1. i \in 1..Len(dcs) /\ dcs'[i] = dcs[i]
      BY <1>2, <1>3, <2>1, <2>2
    <3> QED
      BY <1>3, <2>1, <2>2, <3>1
  <2> QED
    BY <1>2, <1>3, <2>1, <2>2
<1> QED
  BY <1>1, <1>3, <1>4, <1>5
     DEF DepositAuditInv, MissingListedUnlessGuess, MissingDepositsListed

(* A run of the helper (analyze_deposit_confirmations): it lists what is   *)
(* missing above the old mark, and below it nothing is missing; the new    *)
(* mark is before the first one missing.                                   *)
LEMMA AuditDepositAudit ==
    ASSUME DepositAuditInv, Deposits_
    PROVE  DepositAuditInv'
PROOF
<1> DEFINE S == Committed
           M == Missed(S, ppd)
           all == {i \in DOMAIN dcs : ~HaveDeposit(dcs[i], S)}
           late == Len(dcs) <= ppd
<1>1. /\ dcs' = dcs /\ plan' = plan /\ row' = row /\ open' = open
      /\ ppd' \in DepositMark(S, ppd)
      /\ dreport' = [missing |-> all, listed |-> M, guess |-> dreport.guess \/ late]
  BY DEF Deposits_, AuditDeposits, bookVars, StoreDepositProgress
<1>2. /\ RowsKnown' /\ Committed' = S /\ dcs' \in Seq(plan')
      /\ dreport'.guess \in BOOLEAN
  BY <1>1 DEF DepositAuditInv, RowsKnown, Committed
<1>3. Len(dcs) \in Nat /\ DOMAIN dcs = 1..Len(dcs)
  BY DEF DepositAuditInv
<1>4. ASSUME ~dreport'.guess
      PROVE  /\ ~dreport.guess /\ ~late /\ ppd \in Nat
             /\ \A i \in DOMAIN dcs : i <= ppd => HaveDeposit(dcs[i], S)
  BY <1>1, <1>4 DEF DepositAuditInv, MarkInv
<1>5. ASSUME ~dreport'.guess
      PROVE  M = all
  BY <1>3, <1>4, <1>5 DEF Missed
<1>6. ASSUME ~dreport'.guess
      PROVE  /\ ppd' \in Nat /\ ppd' <= Len(dcs)
             /\ \A i \in DOMAIN dcs : i <= ppd' => HaveDeposit(dcs[i], S)
  <2>1. M = all
    BY <1>5, <1>6
  <2>2. CASE M # {}
    <3>1. ppd' = Min(M) - 1
      BY <1>1, <2>2 DEF DepositMark
    <3>2. M \subseteq 1..Len(dcs)
      BY <1>3, <2>1
    <3>3. Min(M) \in M /\ \A j \in M : Min(M) <= j
      <4>1. M \subseteq Nat
        BY <1>3, <3>2
      <4>2. \E n \in M : \A m \in M : n <= m
        BY <2>2, <4>1, NatMinimum
      <4> HIDE DEF M
      <4> QED
        BY <4>2 DEF Min
    <3>4. ASSUME NEW i \in DOMAIN dcs, i <= ppd'
          PROVE  HaveDeposit(dcs[i], S)
      <4>1. i \in 1..Len(dcs) /\ i < Min(M)
        BY <1>3, <3>1, <3>2, <3>3, <3>4
      <4>2. i \notin M
        BY <1>3, <3>2, <3>3, <4>1
      <4> QED
        BY <2>1, <4>2
    <3> QED
      BY <1>3, <3>1, <3>2, <3>3, <3>4
  <2>3. CASE M = {}
    <3>1. ppd' = Len(dcs)
      BY <1>1, <1>3, <1>4, <1>6, <2>3 DEF DepositMark
    <3>2. \A i \in DOMAIN dcs : HaveDeposit(dcs[i], S)
      BY <2>1, <2>3
    <3> QED
      BY <1>3, <3>1, <3>2
  <2> QED
    BY <2>2, <2>3
<1>7. MarkInv'
  BY <1>1, <1>2, <1>6 DEF MarkInv, HaveDeposit
<1>8. MissingListedUnlessGuess'
  BY <1>1, <1>5 DEF MissingListedUnlessGuess, MissingDepositsListed
<1> QED
  BY <1>2, <1>7, <1>8 DEF DepositAuditInv

LEMMA NextDepositAudit == DepositAuditInv /\ [Next]_vars => DepositAuditInv'
PROOF
<1> SUFFICES ASSUME DepositAuditInv, [Next]_vars PROVE DepositAuditInv'
  OBVIOUS
<1>1. ASSUME UNCHANGED <<bookVars, depositAuditVars>>
      PROVE  DepositAuditInv'
  <2>1. UNCHANGED <<plan, row, open, depositAuditVars>>
    BY <1>1 DEF bookVars
  <2>2. RowsKnown' /\ plan' = plan /\ Committed \subseteq Committed'
    BY <2>1 DEF DepositAuditInv, RowsKnown, Committed
  <2> QED
    BY <2>1, <2>2, OthersDepositAudit
<1>2. CASE Exchange
  <2>1. BooksNext /\ UNCHANGED depositAuditVars
    BY <1>2 DEF Exchange, auditorVars
  <2>2. RowsKnown' /\ plan' = plan /\ Committed \subseteq Committed'
    BY <2>1, CommittedStays DEF DepositAuditInv
  <2> QED
    BY <2>1, <2>2, OthersDepositAudit
<1>3. ASSUME NEW o \in plan, Confirm(o)
      PROVE  DepositAuditInv'
  BY <1>3, ConfirmDepositAudit
<1>4. CASE Deposits_
  BY <1>4, AuditDepositAudit
<1>5. CASE Reserves_ \/ Coins_ \/ Aggregation_ \/ Wire_ \/ Fails
  BY <1>1, <1>5 DEF Reserves_, Coins_, Aggregation_, Wire_, Fails
<1>6. CASE UNCHANGED vars
  BY <1>1, <1>6 DEF vars, auditorVars
<1> QED
  BY <1>2, <1>3, <1>4, <1>5, <1>6 DEF Next

(* Until an audit stores the uninitialised mark, every report of           *)
(* taler-helper-auditor-deposits lists all the confirmed deposits that the *)
(* exchange does not have, whatever the exchange committed or left out     *)
(* between the reports (analyze_deposit_confirmations, test_dc).           *)
THEOREM MissingAlwaysListed == Spec => []MissingListedUnlessGuess
PROOF
<1>1. DepositAuditInv => MissingListedUnlessGuess
  BY DEF DepositAuditInv
<1> QED
  BY <1>1, InitDepositAudit, NextDepositAudit, PTL DEF Spec

---------------------------------------------------------------------------
(* Maxima, minima and clipped sums.                                        *)

(* A finite set of integers has a largest element, and Max is it.          *)
LEMMA MaxFinite ==
    ASSUME NEW T, IsFiniteSet(T), T # {}, T \subseteq Int
    PROVE  Max(T) \in T /\ \A x \in T : x <= Max(T)
PROOF
<1> DEFINE Top(s) == \E n \in s : \A m \in s : n >= m
           B == {s \in SUBSET T : s # {} /\ ~Top(s)}
<1>1. B = {}
  <2>1. SUFFICES ASSUME B # {} PROVE FALSE
    OBVIOUS
  <2>2. PICK s \in B : \A t \in B : Cardinality(s) <= Cardinality(t)
    BY <2>1, SmallestSubset
  <2>3. PICK x \in s : TRUE
    OBVIOUS
  <2>4. /\ IsFiniteSet(s) /\ Cardinality(s) \in Nat
        /\ Cardinality(s \ {x}) = Cardinality(s) - 1
    BY FS_Subset, FS_CardinalityType, FS_RemoveElement
  <2>5. s \ {x} \notin B
    <3> HIDE DEF B
    <3> QED
      BY <2>2, <2>4
  <2>6. CASE s \ {x} = {}
    <3>1. \A m \in s : m = x
      BY <2>6
    <3> QED
      BY <2>3, <3>1
  <2>7. CASE s \ {x} # {}
    <3>1. PICK n \in s \ {x} : \A m \in s \ {x} : n >= m
      BY <2>5, <2>7
    <3> QED
      BY <2>3, <3>1
  <2> QED
    BY <2>6, <2>7
<1>2. \E n \in T : \A m \in T : n >= m
  BY <1>1
<1> QED
  BY <1>2 DEF Max

(* The maximum that Books and AuditLib take over rows.                     *)
LEMMA MaxImage ==
    ASSUME NEW f, NEW S, IsFiniteSet(S), \A x \in S : f[x] \in Nat, NEW m \in Nat
    PROVE  LET M == {m} \cup {f[x] : x \in S}
           IN /\ Max(M) \in Nat /\ m <= Max(M)
              /\ \A x \in S : f[x] <= Max(M)
              /\ Max(M) = m \/ \E x \in S : Max(M) = f[x]
PROOF
<1> DEFINE T == {f[x] : x \in S}
           M == {m} \cup T
<1>1. IsFiniteSet(T)
  BY ImageFinite
<1>2. M = T \cup {m} /\ M \subseteq Nat /\ M \subseteq Int /\ M # {} /\ T \subseteq M /\ m \in M
  OBVIOUS
<1>3. IsFiniteSet(M)
  <2> HIDE DEF T
  <2>1. IsFiniteSet(T \cup {m})
    BY <1>1, FS_AddElement
  <2> QED
    BY <1>2, <2>1
<1>4. Max(M) \in M /\ \A x \in M : x <= Max(M)
  <2> HIDE DEF M
  <2> QED
    BY <1>2, <1>3, MaxFinite
<1>5. Max(M) = m \/ \E x \in S : Max(M) = f[x]
  BY <1>4
<1>6. \A x \in S : f[x] \in M
  OBVIOUS
<1> HIDE DEF M
<1>7. Max(M) \in Nat /\ m <= Max(M) /\ \A x \in S : f[x] <= Max(M)
  BY <1>2, <1>4, <1>6
<1> QED
  BY <1>5, <1>7 DEF M

(* A difference that is not allowed below zero.                            *)
LEMMA MaxZero ==
    ASSUME NEW x \in Int
    PROVE  /\ Max({0, x}) \in Nat
           /\ x >= 0 => Max({0, x}) = x
           /\ x < 0 => Max({0, x}) = 0
PROOF
<1>1. IsFiniteSet({0, x}) /\ {0, x} # {} /\ {0, x} \subseteq Int
  <2>1. {0, x} = {0} \cup {x}
    OBVIOUS
  <2>2. IsFiniteSet({0} \cup {x})
    BY FS_Singleton, FS_AddElement
  <2> QED
    BY <2>1, <2>2
<1>2. Max({0, x}) \in {0, x} /\ \A y \in {0, x} : y <= Max({0, x})
  BY <1>1, MaxFinite
<1> QED
  BY <1>2

(* The smaller of two numbers.                                             *)
LEMMA MinTwo ==
    ASSUME NEW x \in Int, NEW y \in Int
    PROVE  Min({x, y}) = IF x <= y THEN x ELSE y
PROOF
<1>1. CASE x <= y
  <2>1. \A z \in {x, y} : x <= z
    BY <1>1
  <2>2. \A n \in {x, y} : (\A z \in {x, y} : n <= z) => n = x
    BY <1>1
  <2> QED
    BY <1>1, <2>1, <2>2 DEF Min
<1>2. CASE ~(x <= y)
  <2>1. \A z \in {x, y} : y <= z
    BY <1>2
  <2>2. \A n \in {x, y} : (\A z \in {x, y} : n <= z) => n = y
    BY <1>2
  <2> QED
    BY <1>2, <2>1, <2>2 DEF Min
<1> QED
  BY <1>1, <1>2

\* The equation of a fold that adds changes and never goes below zero.
Clips(g, base, f, S) ==
    g = [s \in SUBSET S |-> IF s = {} THEN base
            ELSE LET x == CHOOSE y \in s : TRUE IN Clipped(f[x], g[s \ {x}])]

(* The definition that FoldFunctionOnSet stands for.                       *)
LEMMA ClippedUnfold ==
    ASSUME NEW base, NEW f, NEW S
    PROVE  FoldFunctionOnSet(Clipped, base, f, S) = (CHOOSE g : Clips(g, base, f, S))[S]
PROOF
  BY DEF FoldFunctionOnSet, MapThenFoldSet, Clips

(* Clipping is never needed when no partial sum is negative.               *)
LEMMA ClippedSum ==
    ASSUME NEW base \in Int, NEW f, NEW S, IsFiniteSet(S), \A x \in S : f[x] \in Int,
           \A s \in SUBSET S : base + SumFunctionOnSet(f, s) >= 0
    PROVE  FoldFunctionOnSet(Clipped, base, f, S) = base + SumFunctionOnSet(f, S)
PROOF
<1> DEFINE h == [s \in SUBSET S |-> base + SumFunctionOnSet(f, s)]
           g == CHOOSE k : Clips(k, base, f, S)
           B == {s \in SUBSET S : g[s] # h[s]}
<1>0. \A s \in SUBSET S : /\ IsFiniteSet(s) /\ Cardinality(s) \in Nat
                          /\ SumFunctionOnSet(f, s) \in Int
  <2> TAKE s \in SUBSET S
  <2>1. IsFiniteSet(s) /\ \A x \in s : f[x] \in Int
    BY FS_Subset
  <2> QED
    BY ONLY <2>1, SumInt, FS_CardinalityType
<1>1. ASSUME NEW s \in SUBSET S, s # {}, NEW x, x = CHOOSE y \in s : TRUE
      PROVE  /\ x \in s /\ s \ {x} \in SUBSET S
             /\ Clipped(f[x], h[s \ {x}]) = h[s]
  <2>1. x \in s /\ s \ {x} \in SUBSET S
    BY <1>1
  <2>2. SumFunctionOnSet(f, s) = f[x] + SumFunctionOnSet(f, s \ {x})
    <3>1. IsFiniteSet(s) /\ \A y \in s : f[y] \in Int
      BY <1>0
    <3> QED
      BY ONLY <2>1, <3>1, SumRemove
  <2>3. h[s \ {x}] + f[x] = h[s] /\ h[s] \in Int /\ h[s] >= 0 /\ f[x] \in Int
        /\ h[s \ {x}] \in Int
    BY <1>0, <2>1, <2>2
  <2> HIDE DEF h
  <2> QED
    BY <2>1, <2>3, MaxZero DEF Clipped
<1>2. h[{}] = base
  BY SumEmpty
<1>3. Clips(h, base, f, S)
  <2>1. ASSUME NEW s \in SUBSET S
        PROVE  h[s] = IF s = {} THEN base
                      ELSE LET x == CHOOSE y \in s : TRUE IN Clipped(f[x], h[s \ {x}])
    <3> HIDE DEF h
    <3> QED
      BY <1>1, <1>2
  <2>2. h = [s \in SUBSET S |-> h[s]]
    OBVIOUS
  <2> HIDE DEF h
  <2> QED
    BY <2>1, <2>2 DEF Clips
<1>4. Clips(g, base, f, S)
  BY <1>3
<1>5. B = {}
  <2>1. SUFFICES ASSUME B # {} PROVE FALSE
    OBVIOUS
  <2>2. PICK s \in B : \A t \in B : Cardinality(s) <= Cardinality(t)
    BY <2>1, SmallestSubset
  <2> HIDE DEF g
  <2>3. s # {}
    <3>1. g[{}] = base
      BY <1>4 DEF Clips
    <3> QED
      BY <1>2, <3>1
  <2>4. PICK x : x = CHOOSE y \in s : TRUE
    OBVIOUS
  <2>5. x \in s /\ s \ {x} \in SUBSET S
    BY <1>1, <2>3, <2>4
  <2>6. s \ {x} \notin B
    <3>1. /\ Cardinality(s \ {x}) = Cardinality(s) - 1
          /\ Cardinality(s) \in Nat
      BY <1>0, <2>5, FS_RemoveElement
    <3> HIDE DEF B
    <3> QED
      BY <2>2, <3>1
  <2>7. g[s] = Clipped(f[x], g[s \ {x}])
    BY <1>4, <2>3, <2>4 DEF Clips
  <2>8. g[s \ {x}] = h[s \ {x}]
    BY <2>5, <2>6
  <2>9. g[s] = h[s]
    <3>1. Clipped(f[x], h[s \ {x}]) = h[s]
      BY <1>1, <2>3, <2>4
    <3> HIDE DEF h
    <3> QED
      BY <2>7, <2>8, <3>1
  <2> QED
    BY <2>9
<1>6. g[S] = h[S]
  <2> HIDE DEF g, h
  <2>1. S \in SUBSET S
    OBVIOUS
  <2> QED
    BY <1>5, <2>1
<1>7. h[S] = base + SumFunctionOnSet(f, S)
  OBVIOUS
<1> HIDE DEF h
<1> QED
  BY <1>6, <1>7, ClippedUnfold

---------------------------------------------------------------------------
(* The tables.                                                             *)

(* What OpAssumption says of the operations of each kind.                  *)
LEMMA OpFacts ==
    ASSUME NEW o \in Ops
    PROVE  /\ Op[o].honest \in BOOLEAN
           /\ Op[o].kind \in {"credit", "withdraw", "close"} => Op[o].reserve \in Reserves
           /\ Op[o].kind \in {"withdraw", "deposit", "melt", "recoup", "recoup_refresh"}
                => Op[o].coin \in Coins
           /\ Op[o].kind \in {"credit", "close", "wire", "steal"}
                => Op[o].account \in Accounts
           /\ Op[o].kind \in {"credit", "deposit", "melt", "refund"}
                => Op[o].amount \in Nat
           /\ Op[o].kind = "deposit" => DenomOfCoin(Op[o].coin).deposit <= Op[o].amount
           /\ Op[o].kind = "melt" => /\ DenomOfCoin(Op[o].coin).refresh <= Op[o].amount
                                     /\ Op[o].fresh \in Coins \ {Op[o].coin}
           /\ Op[o].kind = "reveal" => Op[o].melt \in Ops /\ Op[Op[o].melt].kind = "melt"
           /\ Op[o].kind = "refund" =>
                /\ Op[o].deposit \in Ops /\ Op[Op[o].deposit].kind = "deposit"
                /\ DenomOfCoin(Op[Op[o].deposit].coin).refund <= Op[o].amount
           /\ Op[o].kind = "wire" =>
                /\ IsFiniteSet(Op[o].deposits)
                /\ \A d \in Op[o].deposits : d \in Ops /\ Op[d].kind = "deposit"
           /\ Op[o].kind = "steal" => ~Op[o].honest
           /\ Op[o].kind \in {"credit", "withdraw", "close", "deposit", "melt", "reveal",
                              "refund", "recoup", "recoup_refresh", "wire", "steal",
                              "revoke", "confirm", "time"}
PROOF
<1> DEFINE p == Op[o]
           k == p.kind
<1>0. /\ Op[o].honest \in BOOLEAN
      /\ CASE k = "credit" ->
                    p.reserve \in Reserves /\ p.account \in Accounts
                    /\ p.amount \in Nat
               [] k = "withdraw" ->
                    p.reserve \in Reserves /\ p.coin \in Coins
               [] k = "close" ->
                    p.reserve \in Reserves /\ p.account \in Accounts
               [] k = "deposit" ->
                    /\ p.coin \in Coins /\ p.amount \in Nat
                    /\ DenomOfCoin(p.coin).deposit <= p.amount
               [] k = "melt" ->
                    /\ p.coin \in Coins /\ p.amount \in Nat
                    /\ DenomOfCoin(p.coin).refresh <= p.amount
                    /\ p.fresh \in Coins \ {p.coin}
               [] k = "reveal" ->
                    p.melt \in Ops /\ Op[p.melt].kind = "melt"
               [] k = "refund" ->
                    /\ p.deposit \in Ops /\ Op[p.deposit].kind = "deposit"
                    /\ p.amount \in Nat
                    /\ DenomOfCoin(Op[p.deposit].coin).refund <= p.amount
               [] k \in {"recoup", "recoup_refresh"} -> p.coin \in Coins
               [] k = "wire" ->
                    /\ p.account \in Accounts
                    /\ IsFiniteSet(p.deposits)
                    /\ \A d \in p.deposits : d \in Ops /\ Op[d].kind = "deposit"
               [] k = "steal" ->
                    ~ p.honest /\ p.account \in Accounts
               [] OTHER -> k \in {"revoke", "confirm", "time"}
  BY OpAssumption
<1> HIDE DEF k
<1>1. CASE k = "credit" BY <1>0, <1>1 DEF k
<1>2. CASE k = "withdraw" BY <1>0, <1>2 DEF k
<1>3. CASE k = "close" BY <1>0, <1>3 DEF k
<1>4. CASE k = "deposit" BY <1>0, <1>4 DEF k
<1>5. CASE k = "melt" BY <1>0, <1>5 DEF k
<1>6. CASE k = "reveal" BY <1>0, <1>6 DEF k
<1>7. CASE k = "refund" BY <1>0, <1>7 DEF k
<1>8. CASE k \in {"recoup", "recoup_refresh"} BY <1>0, <1>8 DEF k
<1>9. CASE k = "wire" BY <1>0, <1>9 DEF k
<1>10. CASE k = "steal" BY <1>0, <1>10 DEF k
<1>11. CASE k \notin {"credit", "withdraw", "close", "deposit", "melt", "reveal", "refund",
                      "recoup", "recoup_refresh", "wire", "steal"}
  <2>1. k \in {"revoke", "confirm", "time"}
    BY <1>0, <1>11
  <2> QED
    BY <1>0, <2>1 DEF k
<1> QED
  BY <1>1, <1>2, <1>3, <1>4, <1>5, <1>6, <1>7, <1>8, <1>9, <1>10, <1>11

(* The fees and the value of a coin.                                       *)
LEMMA CoinFacts ==
    ASSUME NEW c \in Coins
    PROVE  /\ DenomOf[c] \in DOMAIN Denom
           /\ DenomOfCoin(c).withdraw \in Nat /\ DenomOfCoin(c).deposit \in Nat
           /\ DenomOfCoin(c).refresh \in Nat /\ DenomOfCoin(c).refund \in Nat
           /\ DenomOfCoin(c).value \in Nat /\ DenomOfCoin(c).value > 0
           /\ Price(c) \in Nat /\ Price(c) > 0
PROOF
<1>1. DenomOf[c] \in DOMAIN Denom
  BY BooksAssumption
<1>2. PICK d \in DOMAIN Denom : d = DenomOf[c]
  BY <1>1
<1>3. /\ {Denom[d].withdraw, Denom[d].deposit, Denom[d].refresh, Denom[d].refund}
            \subseteq Nat
      /\ Denom[d].value \in Nat \ {0}
  BY BooksAssumption
<1> QED
  BY <1>2, <1>3 DEF DenomOfCoin, Price

\* The rows of the tables, committed or not.
Numbered == {o \in plan : row[o].id > 0}

\* Rows are numbered in the order of the inserts; at most one is not
\* committed, and it is the last of its table.
RowsInv ==
    /\ plan \subseteq Ops /\ IsFiniteSet(plan) /\ DOMAIN row = plan
    /\ \A o \in plan : row[o].id \in Nat /\ row[o].amt \in Int
    /\ open \subseteq Numbered
    /\ open = {} \/ \E o \in plan : open = {o}
    /\ \A o \in open : \A p \in plan \ {o} :
          Op[p].kind = Op[o].kind => row[p].id < row[o].id
    /\ \A o \in Numbered : /\ Op[o].honest \/ Op[o].kind \in {"withdraw", "deposit", "wire"}
                           /\ Op[o].kind \notin {"steal", "confirm", "time"}
    /\ DOMAIN reserve = Reserves
    /\ \A r \in Reserves : reserve[r].balance \in Int

(* Sums of amounts are integers.                                           *)
LEMMA TotalInt ==
    ASSUME RowsInv, NEW T, T \subseteq plan
    PROVE  Total(T) \in Int /\ IsFiniteSet(T)
PROOF
<1>1. IsFiniteSet(T)
  BY FS_Subset DEF RowsInv
<1>2. \A x \in T : AmountIn[x] \in Int
  BY DEF RowsInv, AmountIn
<1>3. SumFunctionOnSet(AmountIn, T) \in Int
  BY ONLY <1>1, <1>2, SumInt
<1> QED
  BY <1>1, <1>3 DEF Total

(* What has a row is committed or open.                                    *)
LEMMA CommittedInPlan ==
    RowsInv => /\ Committed \subseteq plan
               /\ Committed \subseteq Numbered
               /\ Numbered \subseteq plan
               /\ Numbered = Committed \cup open
PROOF
  BY DEF RowsInv, Committed, Numbered

(* What was spent of a coin is an integer.                                 *)
LEMMA SpentInt ==
    ASSUME RowsInv, NEW S, S \subseteq plan, NEW c \in Coins
    PROVE  Spent(c, S) \in Int
PROOF
<1> DEFINE refunds == RowsOf(c, S, {"refund"})
           spends == RowsOf(c, S, {"deposit", "melt", "recoup", "recoup_refresh"})
           back == refunds \cup OldCoinRecoups(c, S)
<1>1. spends \subseteq plan /\ back \subseteq plan /\ refunds \subseteq plan
  BY DEF RowsOf, OldCoinRecoups, Of
<1>2. Total(spends) \in Int /\ Total(back) \in Int /\ IsFiniteSet(refunds)
  <2> HIDE DEF spends, back, refunds
  <2> QED
    BY <1>1, TotalInt
<1>3. Cardinality(refunds) \in Nat
  <2> HIDE DEF refunds
  <2> QED
    BY <1>2, FS_CardinalityType
<1>4. DenomOfCoin(c).refund \in Nat /\ DenomOfCoin(c).deposit \in Nat
  BY CoinFacts
<1>5. Cardinality(refunds) * DenomOfCoin(c).refund \in Int
  <2> HIDE DEF refunds
  <2> QED
    BY <1>3, <1>4
<1>6. Spent(c, S) = Total(spends) + Cardinality(refunds) * DenomOfCoin(c).refund
                    - Total(back) - (IF refunds = {} THEN 0 ELSE DenomOfCoin(c).deposit)
  BY DEF Spent
<1> HIDE DEF spends, back, refunds
<1> QED
  BY <1>2, <1>4, <1>5, <1>6

(* So is an amount after rounding.                                         *)
LEMMA RoundedInt ==
    ASSUME NEW a \in Int
    PROVE  RoundedDown(a) \in Int
PROOF
  BY BooksAssumption DEF RoundedDown

(* So is the total of the deposits of a transfer.                          *)
LEMMA WireTotalInt ==
    ASSUME RowsInv, NEW S, S \subseteq plan, NEW o \in Ops, Op[o].kind = "wire",
           Op[o].deposits \subseteq plan
    PROVE  WireTotal(o, S) \in Int
PROOF
<1>1. ASSUME NEW d \in Op[o].deposits
      PROVE  Contribution(d, S) \in Int
  <2> DEFINE refunds == {r \in Of(S, "refund") : Op[r].deposit = d}
  <2>1. d \in plan /\ d \in Ops /\ Op[d].kind = "deposit"
    BY OpFacts
  <2>2. DenomOfCoin(Op[d].coin).deposit \in Nat
    BY <2>1, OpFacts, CoinFacts
  <2>3. Total(refunds) \in Int
    <3>1. refunds \subseteq plan
      BY DEF Of
    <3> HIDE DEF refunds
    <3> QED
      BY <3>1, TotalInt
  <2>4. row[d].amt \in Int
    BY <2>1 DEF RowsInv
  <2> QED
    BY <2>2, <2>3, <2>4 DEF Contribution
<1> DEFINE f == [d \in Op[o].deposits |-> Contribution(d, S)]
<1>2. IsFiniteSet(Op[o].deposits)
  BY OpFacts
<1>3. \A d \in Op[o].deposits : f[d] \in Int
  BY <1>1
<1>4. SumFunctionOnSet(f, Op[o].deposits) \in Int
  <2> HIDE DEF f
  <2> QED
    BY ONLY <1>2, <1>3, SumInt
<1> QED
  BY <1>4 DEF WireTotal

\* What Insert requires of the row.
Accepted(o) == IF Op[o].honest THEN Justified(o) ELSE Fraudulent(o)

(* A transfer, honest or not, is of deposits that are committed.           *)
LEMMA AcceptedWire ==
    ASSUME NEW o \in Ops, Op[o].kind = "wire", Accepted(o)
    PROVE  Op[o].deposits \subseteq Committed
PROOF
<1>0. Op[o].honest \in BOOLEAN
  BY OpFacts
<1>1. CASE Op[o].honest
  <2>1. Justified(o)
    BY <1>1 DEF Accepted
  <2> QED
    BY <2>1 DEF Justified
<1>2. CASE ~Op[o].honest
  BY <1>2 DEF Accepted, Fraudulent
<1> QED
  BY <1>0, <1>1, <1>2

(* The amount of a new row is an integer.                                  *)
LEMMA AmountInt ==
    ASSUME RowsInv, NEW o \in plan, Accepted(o)
    PROVE  Amount(o) \in Int
PROOF
<1>0. o \in Ops /\ Committed \subseteq plan /\ Op[o].honest \in BOOLEAN
  BY CommittedInPlan, OpFacts DEF RowsInv
<1> DEFINE k == Op[o].kind
<1> HIDE DEF k
<1>1. CASE k \in {"credit", "deposit", "melt", "refund"}
  BY <1>0, <1>1, OpFacts DEF Amount, k
<1>2. CASE k = "withdraw"
  <2>1. Op[o].coin \in Coins
    BY <1>0, <1>2, OpFacts DEF k
  <2> QED
    BY <1>2, <2>1, CoinFacts DEF Amount, k
<1>3. CASE k = "close"
  <2>1. Op[o].reserve \in Reserves
    BY <1>0, <1>3, OpFacts DEF k
  <2> QED
    BY <1>3, <2>1 DEF Amount, k, RowsInv
<1>4. CASE k \in {"recoup", "recoup_refresh"}
  <2>1. Op[o].coin \in Coins
    BY <1>0, <1>4, OpFacts DEF k
  <2>2. Spent(Op[o].coin, Committed) \in Int
    BY <1>0, <2>1, SpentInt
  <2>3. DenomOfCoin(Op[o].coin).value \in Nat
    BY <2>1, CoinFacts
  <2> QED
    BY <1>4, <2>2, <2>3 DEF Amount, k
<1>5. CASE k = "wire"
  <2>1. Op[o].deposits \subseteq Committed
    BY <1>0, <1>5, AcceptedWire DEF k
  <2>2. WireTotal(o, Committed) \in Int
    BY <1>0, <1>5, <2>1, WireTotalInt DEF k
  <2>3. WireTotal(o, Committed) - WireFee \in Int
    BY <2>2, BooksAssumption
  <2>4. RoundedDown(WireTotal(o, Committed) - WireFee) \in Int
    BY <2>3, RoundedInt
  <2> QED
    BY <1>0, <1>5, <2>4 DEF Amount, k
<1>6. CASE k \notin {"credit", "deposit", "melt", "refund", "withdraw", "close", "recoup",
                     "recoup_refresh", "wire"}
  BY <1>6 DEF Amount, k
<1> QED
  BY <1>1, <1>2, <1>3, <1>4, <1>5, <1>6

(* A new serial number is larger than those in the table.                  *)
LEMMA NextSerialLarger ==
    ASSUME RowsInv, NEW k
    PROVE  /\ NextSerial(k) \in Nat /\ NextSerial(k) > 0
           /\ \A p \in plan : Op[p].kind = k => row[p].id < NextSerial(k)
PROOF
<1> DEFINE K == Of(plan, k)
           f == [p \in K |-> row[p].id]
           M == {0} \cup {f[p] : p \in K}
<1>1. IsFiniteSet(K) /\ \A p \in K : f[p] \in Nat
  BY FS_Subset DEF RowsInv, Of
<1>2. Max(M) \in Nat /\ \A p \in K : f[p] <= Max(M)
  <2> HIDE DEF K, f
  <2> QED
    BY <1>1, MaxImage
<1>3. {row[p].id : p \in K} = {f[p] : p \in K}
  OBVIOUS
<1>4. NextSerial(k) = 1 + Max(M)
  BY <1>3 DEF NextSerial
<1>5. \A p \in plan : Op[p].kind = k => p \in K /\ row[p].id = f[p]
  BY DEF Of
<1> HIDE DEF M, K, f
<1> QED
  BY <1>1, <1>2, <1>4, <1>5

(* With one transaction at a time nothing is open when a row is inserted.  *)
LEMMA InsertEffect ==
    ASSUME RowsInv, MaxOpen = 1, NEW o \in plan, Insert(o)
    PROVE  /\ open = {} /\ open' = {o} /\ plan' = plan /\ reserve' = reserve
           /\ row[o].id = 0 /\ Accepted(o)
           /\ Op[o].kind \notin {"steal", "confirm", "time"}
           /\ DOMAIN row' = plan
           /\ row'[o].id = NextSerial(Op[o].kind) /\ row'[o].amt = Amount(o)
           /\ \A p \in plan \ {o} : row'[p] = row[p]
           /\ o \notin Committed /\ Committed' = Committed
PROOF
<1>1. open = {}
  <2>1. Cardinality(open) < 1
    BY DEF Insert
  <2>2. ASSUME NEW p \in plan, open = {p} PROVE FALSE
    BY <2>1, <2>2, FS_Singleton
  <2> QED
    BY <2>2 DEF RowsInv
<1>2. /\ open' = {o} /\ plan' = plan /\ reserve' = reserve /\ row[o].id = 0
      /\ Op[o].kind \notin {"steal", "confirm", "time"}
      /\ row' = [row EXCEPT ![o] = [id |-> NextSerial(Op[o].kind),
                                    amt |-> Amount(o), at |-> now]]
  BY <1>1 DEF Insert
<1>3. Accepted(o)
  BY DEF Insert, Accepted
<1>4. /\ DOMAIN row' = plan
      /\ row'[o] = [id |-> NextSerial(Op[o].kind), amt |-> Amount(o), at |-> now]
      /\ \A p \in plan \ {o} : row'[p] = row[p]
  BY <1>2 DEF RowsInv
<1>5. o \notin Committed /\ Committed' = Committed
  BY <1>1, <1>2, <1>4 DEF Committed
<1> QED
  BY <1>1, <1>2, <1>3, <1>4, <1>5

(* An insert keeps the tables in order.                                    *)
LEMMA InsertRows ==
    ASSUME RowsInv, MaxOpen = 1, NEW o \in plan, Insert(o)
    PROVE  RowsInv'
PROOF
<1>1. /\ open' = {o} /\ plan' = plan /\ reserve' = reserve /\ DOMAIN row' = plan
      /\ row'[o].id = NextSerial(Op[o].kind) /\ row'[o].amt = Amount(o)
      /\ \A p \in plan \ {o} : row'[p] = row[p]
      /\ Accepted(o) /\ Op[o].kind \notin {"steal", "confirm", "time"}
  BY InsertEffect
<1>2. Amount(o) \in Int
  BY <1>1, AmountInt
<1>3. /\ NextSerial(Op[o].kind) \in Nat /\ NextSerial(Op[o].kind) > 0
      /\ \A p \in plan : Op[p].kind = Op[o].kind => row[p].id < NextSerial(Op[o].kind)
  BY NextSerialLarger
<1>4. Op[o].honest \/ Op[o].kind \in {"withdraw", "deposit", "wire"}
  BY <1>1 DEF Accepted, Fraudulent
<1>5. \A p \in plan : row'[p].id \in Nat /\ row'[p].amt \in Int
  BY <1>1, <1>2, <1>3 DEF RowsInv
<1>6. \A p \in plan \ {o} : Op[p].kind = Op[o].kind => row'[p].id < row'[o].id
  BY <1>1, <1>3
<1>7. o \in Numbered' /\ Numbered' \subseteq Numbered \cup {o}
  BY <1>1, <1>3 DEF Numbered
<1>8. \A p \in Numbered' : /\ Op[p].honest \/ Op[p].kind \in {"withdraw", "deposit", "wire"}
                           /\ Op[p].kind \notin {"steal", "confirm", "time"}
  BY <1>1, <1>4, <1>7 DEF RowsInv
<1> QED
  BY <1>1, <1>5, <1>6, <1>7, <1>8 DEF RowsInv

(* A commit makes the open row visible.                                    *)
LEMMA CommitEffect ==
    ASSUME RowsInv, NEW o \in plan, Commit(o)
    PROVE  /\ open = {o} /\ open' = {} /\ plan' = plan /\ row' = row
           /\ o \in Numbered /\ o \notin Committed
           /\ Committed' = Committed \cup {o}
PROOF
<1>1. o \in open /\ open' = open \ {o} /\ plan' = plan /\ row' = row
  BY DEF Commit
<1>2. open = {o}
  BY <1>1 DEF RowsInv
<1>3. open' = {} /\ o \in Numbered
  BY <1>1, <1>2 DEF RowsInv
<1> QED
  BY <1>1, <1>2, <1>3 DEF Committed, Numbered

\* The tables that a credit or recoup, and a withdrawal or close, goes to.
InRows(S) == {o \in S : Op[o].kind \in {"credit", "recoup"}}
OutRows(S) == {o \in S : Op[o].kind \in {"withdraw", "close"}}
\* What was taken from the reserve.
TakenRows(S) == {o \in OutRows(S) : Op[o].honest}

\* The balance of a reserve is what its committed rows add up to, and an
\* open withdrawal or close is within it.
BalanceInv ==
    /\ \A o \in Numbered : Op[o].kind \in {"credit", "recoup", "withdraw", "close"} =>
          /\ row[o].amt \in Nat /\ ReserveOf(o) \in Reserves
          /\ Op[o].kind = "withdraw" => row[o].amt > 0
    /\ \A r \in Reserves :
          /\ reserve[r].balance \in Nat
          /\ reserve[r].balance = Total(At(r, InRows(Committed)))
                                  - Total(At(r, TakenRows(Committed)))
    /\ \A o \in open : Op[o].kind \in {"withdraw", "close"} /\ Op[o].honest
          => row[o].amt <= reserve[Op[o].reserve].balance

\* The reserves of rows.

(* ReserveOf of a committed withdrawal's recoup is a reserve.              *)
LEMMA ReserveKnown ==
    ASSUME RowsInv, NEW o \in plan,
           \/ Op[o].kind \in {"credit", "withdraw", "close"}
           \/ Op[o].kind = "recoup" /\ Withdrawn(Op[o].coin, Committed)
    PROVE  /\ ReserveOf(o) \in Reserves
           /\ Op[o].kind \in {"withdraw", "close"} => ReserveOf(o) = Op[o].reserve
PROOF
<1>0. o \in Ops
  BY DEF RowsInv
<1>1. CASE Op[o].kind \in {"credit", "withdraw", "close"}
  BY <1>0, <1>1, OpFacts DEF ReserveOf
<1>2. CASE Op[o].kind = "recoup" /\ Withdrawn(Op[o].coin, Committed)
  <2>1. PICK v \in Of(Committed, "withdraw") : Op[v].coin = Op[o].coin
    BY <1>2 DEF Withdrawn
  <2>2. v \in Of(plan, "withdraw")
    BY CommittedInPlan DEF Of
  <2>3. WithdrawalOf(Op[o].coin) \in Of(plan, "withdraw")
    BY <2>1, <2>2 DEF WithdrawalOf
  <2>4. Op[WithdrawalOf(Op[o].coin)].reserve \in Reserves
    BY <2>3, OpFacts DEF RowsInv, Of
  <2> QED
    BY <1>2, <2>4 DEF ReserveOf
<1> QED
  BY <1>1, <1>2

(* An insert does not touch a balance, and what it will take is there.     *)
LEMMA InsertBalance ==
    ASSUME RowsInv, BalanceInv, MaxOpen = 1, NEW o \in plan, Insert(o)
    PROVE  BalanceInv'
PROOF
<1>1. /\ open' = {o} /\ plan' = plan /\ reserve' = reserve /\ DOMAIN row' = plan
      /\ row'[o].amt = Amount(o)
      /\ \A p \in plan \ {o} : row'[p] = row[p]
      /\ Accepted(o) /\ o \notin Committed /\ Committed' = Committed
  BY InsertEffect
<1>2. \A p \in plan : ReserveOf(p)' = ReserveOf(p)
  BY <1>1 DEF ReserveOf, WithdrawalOf
<1>3. Committed \subseteq plan \ {o}
  BY <1>1, CommittedInPlan
<1>4. ASSUME NEW T, T \subseteq plan \ {o}
      PROVE  SumFunctionOnSet(AmountIn', T) = SumFunctionOnSet(AmountIn, T)
  <2>1. IsFiniteSet(T)
    BY <1>4, FS_Subset DEF RowsInv
  <2>2. \A x \in T : AmountIn[x] \in Int /\ AmountIn[x] = AmountIn'[x]
    BY <1>1, <1>4 DEF AmountIn, RowsInv
  <2> QED
    BY ONLY <2>1, <2>2, SumEqual
<1>5. ASSUME NEW r \in Reserves
      PROVE  /\ reserve'[r].balance \in Nat
             /\ reserve'[r].balance = Total(At(r, InRows(Committed)))'
                                      - Total(At(r, TakenRows(Committed)))'
  <2>1. /\ At(r, InRows(Committed))' = At(r, InRows(Committed))
        /\ At(r, TakenRows(Committed))' = At(r, TakenRows(Committed))
    BY <1>1, <1>2, CommittedInPlan DEF At, InRows, TakenRows, OutRows
  <2>2. /\ At(r, InRows(Committed)) \subseteq plan \ {o}
        /\ At(r, TakenRows(Committed)) \subseteq plan \ {o}
    BY <1>3 DEF At, InRows, TakenRows, OutRows
  <2>3. /\ Total(At(r, InRows(Committed)))' = Total(At(r, InRows(Committed)))
        /\ Total(At(r, TakenRows(Committed)))' = Total(At(r, TakenRows(Committed)))
    BY <1>4, <2>1, <2>2 DEF Total
  <2> QED
    BY <1>1, <2>3 DEF BalanceInv
<1>6. /\ o \in Ops /\ Op[o].honest \in BOOLEAN
      /\ Op[o].kind \in {"withdraw", "close"} => Op[o].reserve \in Reserves
  BY OpFacts DEF RowsInv
<1>7. Op[o].kind \in {"credit", "recoup", "withdraw", "close"} =>
          /\ Amount(o) \in Nat /\ ReserveOf(o) \in Reserves
          /\ Op[o].kind = "withdraw" => Amount(o) > 0
  <2>1. CASE Op[o].kind = "credit"
    BY <1>6, <2>1, OpFacts, ReserveKnown DEF Amount
  <2>2. CASE Op[o].kind = "withdraw"
    <3>1. Op[o].coin \in Coins
      BY <1>6, <2>2, OpFacts
    <3> QED
      BY <2>2, <3>1, CoinFacts, ReserveKnown DEF Amount
  <2>3. CASE Op[o].kind = "close"
    BY <1>6, <2>3, ReserveKnown DEF Amount, BalanceInv
  <2>4. CASE Op[o].kind = "recoup"
    <3>1. Justified(o)
      BY <1>1, <2>4 DEF Accepted, Fraudulent
    <3>2. Withdrawn(Op[o].coin, Committed) /\ Amount(o) > 0
      BY <2>4, <3>1 DEF Justified
    <3>3. Amount(o) \in Int
      BY <1>1, AmountInt
    <3> QED
      BY <2>4, <3>2, <3>3, ReserveKnown
  <2> QED
    BY <2>1, <2>2, <2>3, <2>4
<1>8. Op[o].kind \in {"withdraw", "close"} /\ Op[o].honest
          => Amount(o) <= reserve[Op[o].reserve].balance
  <2>1. ASSUME Op[o].kind = "withdraw", Op[o].honest
        PROVE  Amount(o) <= reserve[Op[o].reserve].balance
    <3>1. Justified(o)
      BY <1>1, <2>1 DEF Accepted
    <3> QED
      BY <2>1, <3>1 DEF Justified
  <2>2. ASSUME Op[o].kind = "close"
        PROVE  Amount(o) <= reserve[Op[o].reserve].balance
    BY <1>6, <2>2 DEF Amount, BalanceInv
  <2> QED
    BY <2>1, <2>2
<1>9. Numbered' \subseteq Numbered \cup {o}
  BY <1>1 DEF Numbered
<1>10. \A p \in Numbered' : Op[p].kind \in {"credit", "recoup", "withdraw", "close"} =>
          /\ row'[p].amt \in Nat /\ ReserveOf(p)' \in Reserves
          /\ Op[p].kind = "withdraw" => row'[p].amt > 0
  BY <1>1, <1>2, <1>7, <1>9 DEF BalanceInv, Numbered
<1> QED
  BY <1>1, <1>5, <1>8, <1>10 DEF BalanceInv

(* A commit changes the balance of the reserve by the amount of its row.   *)
LEMMA CommitBalance ==
    ASSUME RowsInv, BalanceInv, NEW o \in plan, Commit(o)
    PROVE  BalanceInv' /\ DOMAIN reserve' = Reserves
PROOF
<1>1. /\ open = {o} /\ open' = {} /\ plan' = plan /\ row' = row
      /\ o \in Numbered /\ o \notin Committed
      /\ Committed' = Committed \cup {o}
  BY CommitEffect
<1>2. \A p \in plan : ReserveOf(p)' = ReserveOf(p)
  BY <1>1 DEF ReserveOf, WithdrawalOf
<1>3. AmountIn' = AmountIn /\ Committed \subseteq plan /\ o \in plan \ Committed
  BY <1>1, CommittedInPlan DEF AmountIn
<1>4. ASSUME NEW T, T \subseteq Committed
      PROVE  Total(T \cup {o}) = Total(T) + row[o].amt /\ Total(T) \in Int
  <2>1. IsFiniteSet(T) /\ o \notin T
    BY <1>3, <1>4, FS_Subset DEF RowsInv
  <2>2. \A x \in T \cup {o} : AmountIn[x] \in Int
    BY <1>3, <1>4 DEF RowsInv, AmountIn
  <2>3. SumFunctionOnSet(AmountIn, T \cup {o}) = SumFunctionOnSet(AmountIn, T) + AmountIn[o]
    BY ONLY <2>1, <2>2, SumAdd
  <2>4. AmountIn[o] = row[o].amt
    BY DEF AmountIn
  <2>5. Total(T) \in Int
    BY <1>3, <1>4, TotalInt
  <2> QED
    BY <2>3, <2>4, <2>5 DEF Total
<1> DEFINE in(r) == At(r, InRows(Committed))
           out(r) == At(r, TakenRows(Committed))
<1>5. \A r \in Reserves : in(r) \subseteq Committed /\ out(r) \subseteq Committed
  BY DEF At, InRows, TakenRows, OutRows
<1>6. ASSUME NEW r \in Reserves
      PROVE  /\ At(r, InRows(Committed))' =
                  IF Op[o].kind \in {"credit", "recoup"} /\ ReserveOf(o) = r
                  THEN in(r) \cup {o} ELSE in(r)
             /\ At(r, TakenRows(Committed))' =
                  IF Op[o].kind \in {"withdraw", "close"} /\ Op[o].honest /\ ReserveOf(o) = r
                  THEN out(r) \cup {o} ELSE out(r)
  <2>1. At(r, InRows(Committed))' = {p \in InRows(Committed') : ReserveOf(p)' = r}
    BY DEF At, InRows
  <2>2. At(r, TakenRows(Committed))' = {p \in TakenRows(Committed') : ReserveOf(p)' = r}
    BY DEF At, TakenRows, OutRows
  <2>3. \A p \in Committed' : ReserveOf(p)' = ReserveOf(p)
    BY <1>1, <1>2, <1>3
  <2>4. At(r, InRows(Committed))' = {p \in InRows(Committed') : ReserveOf(p) = r}
    BY <2>1, <2>3 DEF InRows
  <2>5. At(r, TakenRows(Committed))' = {p \in TakenRows(Committed') : ReserveOf(p) = r}
    BY <2>2, <2>3 DEF TakenRows, OutRows
  <2> QED
    BY <1>1, <2>4, <2>5 DEF At, InRows, TakenRows, OutRows
<1>7. \A r \in Reserves : /\ Total(in(r)) \in Int /\ Total(in(r) \cup {o}) = Total(in(r)) + row[o].amt
                          /\ Total(out(r)) \in Int /\ Total(out(r) \cup {o}) = Total(out(r)) + row[o].amt
  <2> HIDE DEF in, out
  <2> QED
    BY <1>4, <1>5
<1>8. \A r \in Reserves : /\ reserve[r].balance \in Nat
                          /\ reserve[r].balance = Total(in(r)) - Total(out(r))
  BY DEF BalanceInv
<1>10. \A r \in Reserves :
         /\ Total(At(r, InRows(Committed)))' =
              IF Op[o].kind \in {"credit", "recoup"} /\ ReserveOf(o) = r
              THEN Total(in(r)) + row[o].amt ELSE Total(in(r))
         /\ Total(At(r, TakenRows(Committed)))' =
              IF Op[o].kind \in {"withdraw", "close"} /\ Op[o].honest /\ ReserveOf(o) = r
              THEN Total(out(r)) + row[o].amt ELSE Total(out(r))
  <2> TAKE r \in Reserves
  <2>1. /\ Total(At(r, InRows(Committed)))' = Total(At(r, InRows(Committed))')
        /\ Total(At(r, TakenRows(Committed)))' = Total(At(r, TakenRows(Committed))')
    BY <1>3 DEF Total
  <2> HIDE DEF in, out
  <2> QED
    BY <1>6, <1>7, <2>1
<1>11. ASSUME NEW r \in Reserves
       PROVE  /\ DOMAIN reserve' = Reserves
              /\ reserve'[r].balance =
                  IF Op[o].kind \in {"credit", "recoup"} /\ ReserveOf(o) = r
                  THEN reserve[r].balance + row[o].amt
                  ELSE IF Op[o].kind \in {"withdraw", "close"} /\ Op[o].honest
                          /\ ReserveOf(o) = r
                  THEN reserve[r].balance - row[o].amt
                  ELSE reserve[r].balance
  <2> DEFINE k == Op[o].kind
  <2> HIDE DEF k
  <2>0. Op[o].honest \in BOOLEAN /\ DOMAIN reserve = Reserves
    BY OpFacts DEF RowsInv
  <2>1. reserve' =
         CASE k \in {"credit", "recoup"} ->
                [reserve EXCEPT ![ReserveOf(o)] =
                    Credited(ReserveOf(o), row[o].amt, row[o].at)]
           [] k \in {"withdraw", "close"} /\ Op[o].honest ->
                [reserve EXCEPT ![Op[o].reserve].balance = @ - row[o].amt]
           [] OTHER -> reserve
    BY DEF Commit, k
  <2>2. CASE k \in {"credit", "recoup"}
    <3>1. reserve' = [reserve EXCEPT ![ReserveOf(o)] =
                        Credited(ReserveOf(o), row[o].amt, row[o].at)]
      BY <2>1, <2>2
    <3>2. Credited(ReserveOf(o), row[o].amt, row[o].at).balance
            = reserve[ReserveOf(o)].balance + row[o].amt
      BY DEF Credited
    <3> QED
      BY <2>0, <2>2, <3>1, <3>2 DEF k
  <2>3. CASE k \in {"withdraw", "close"} /\ Op[o].honest
    <3>1. reserve' = [reserve EXCEPT ![Op[o].reserve].balance = @ - row[o].amt]
      BY <2>1, <2>3
    <3>2. ReserveOf(o) = Op[o].reserve
      BY <2>3, ReserveKnown DEF k
    <3>3. r = Op[o].reserve => reserve'[r].balance = reserve[r].balance - row[o].amt
      BY <2>0, <3>1
    <3>4. r # Op[o].reserve => reserve'[r] = reserve[r]
      BY <2>0, <3>1
    <3>5. DOMAIN reserve' = Reserves
      BY <2>0, <3>1
    <3> QED
      BY <2>3, <3>2, <3>3, <3>4, <3>5 DEF k
  <2>4. CASE ~(k \in {"credit", "recoup"}) /\ ~(k \in {"withdraw", "close"} /\ Op[o].honest)
    <3>1. reserve' = reserve
      BY <2>1, <2>4
    <3> QED
      BY <2>0, <2>4, <3>1 DEF k
  <2> QED
    BY <2>2, <2>3, <2>4
<1>12. /\ Op[o].kind \in {"credit", "recoup", "withdraw", "close"} => row[o].amt \in Nat
       /\ Op[o].kind \in {"withdraw", "close"} /\ Op[o].honest =>
             /\ ReserveOf(o) = Op[o].reserve /\ Op[o].reserve \in Reserves
             /\ row[o].amt <= reserve[Op[o].reserve].balance
  BY <1>1, ReserveKnown DEF BalanceInv
<1>13. \A r \in Reserves :
          /\ reserve'[r].balance \in Nat
          /\ reserve'[r].balance = Total(At(r, InRows(Committed)))'
                                   - Total(At(r, TakenRows(Committed)))'
  <2> TAKE r \in Reserves
  <2> DEFINE b == reserve[r].balance
             i == Total(in(r))
             t == Total(out(r))
             a == row[o].amt
  <2>1. b \in Nat /\ i \in Int /\ t \in Int /\ b = i - t
    BY <1>7, <1>8
  <2> HIDE DEF in, out, i, t, b, a
  <2>2. CASE Op[o].kind \in {"credit", "recoup"} /\ ReserveOf(o) = r
    <3>1. reserve'[r].balance = b + a /\ Total(At(r, InRows(Committed)))' = i + a
          /\ Total(At(r, TakenRows(Committed)))' = t /\ a \in Nat
      BY <1>10, <1>11, <1>12, <2>2 DEF i, t, b, a
    <3> QED
      BY <2>1, <3>1
  <2>3. CASE Op[o].kind \in {"withdraw", "close"} /\ Op[o].honest /\ ReserveOf(o) = r
    <3>1. reserve'[r].balance = b - a /\ Total(At(r, InRows(Committed)))' = i
          /\ Total(At(r, TakenRows(Committed)))' = t + a /\ a \in Nat /\ a <= b
      BY <1>10, <1>11, <1>12, <2>3 DEF i, t, b, a
    <3> QED
      BY <2>1, <3>1
  <2>4. CASE /\ ~(Op[o].kind \in {"credit", "recoup"} /\ ReserveOf(o) = r)
             /\ ~(Op[o].kind \in {"withdraw", "close"} /\ Op[o].honest /\ ReserveOf(o) = r)
    <3>1. reserve'[r].balance = b /\ Total(At(r, InRows(Committed)))' = i
          /\ Total(At(r, TakenRows(Committed)))' = t
      BY <1>10, <1>11, <2>4 DEF i, t, b
    <3> QED
      BY <2>1, <3>1
  <2> QED
    BY <2>2, <2>3, <2>4
<1>14. DOMAIN reserve' = Reserves
  <2>1. CASE Reserves = {}
    <3>1. DOMAIN reserve = {}
      BY <2>1 DEF RowsInv
    <3>2. DOMAIN reserve' = DOMAIN reserve
      BY Zenon DEF Commit
    <3> QED
      BY <2>1, <3>1, <3>2
  <2>2. CASE Reserves # {}
    BY <1>11, <2>2
  <2> QED
    BY <2>1, <2>2
<1>15. \A p \in Numbered' : Op[p].kind \in {"credit", "recoup", "withdraw", "close"} =>
          /\ row'[p].amt \in Nat /\ ReserveOf(p)' \in Reserves
          /\ Op[p].kind = "withdraw" => row'[p].amt > 0
  BY <1>1, <1>2 DEF BalanceInv, Numbered
<1> QED
  BY <1>1, <1>13, <1>14, <1>15 DEF BalanceInv

---------------------------------------------------------------------------
(* The balances of the reserves.                                           *)

(* A sequence has finitely many elements.                                  *)
LEMMA RangeFinite ==
    ASSUME NEW A, NEW s \in Seq(A)
    PROVE  IsFiniteSet(Range(s)) /\ Range(s) \subseteq A
PROOF
<1>1. DOMAIN s = 1..Len(s) /\ Len(s) \in Nat
  OBVIOUS
<1>2. IsFiniteSet(DOMAIN s)
  BY <1>1, FS_Interval
<1>3. IsFiniteSet({s[x] : x \in DOMAIN s})
  BY <1>2, ImageFinite
<1>4. Range(s) = {s[x] : x \in DOMAIN s}
  BY DEF Range
<1>5. \A i \in DOMAIN s : s[i] \in A
  OBVIOUS
<1> QED
  BY <1>3, <1>4, <1>5

(* Before the first audit the balances are what the rows add up to.        *)
LEMMA InitBooks == Init => RowsInv /\ BalanceInv
PROOF
<1> SUFFICES ASSUME Init PROVE RowsInv /\ BalanceInv
  OBVIOUS
<1> DEFINE serial(s, o) == CHOOSE i \in DOMAIN s : s[i] = o
           at(r, T) == {o \in T : Op[o].reserve = r}
<1>1. PICK P \in Plans :
          /\ plan = Range(P.credits) \cup Range(P.withdrawals) \cup P.then
          /\ row = [o \in plan |->
                CASE o \in Range(P.credits) -> [id |-> serial(P.credits, o),
                                   amt |-> Op[o].amount, at |-> 0]
                  [] o \in Range(P.withdrawals) -> [id |-> serial(P.withdrawals, o),
                                    amt |-> Price(Op[o].coin), at |-> 0]
                  [] OTHER -> [id |-> 0, amt |-> 0, at |-> 0]]
          /\ reserve = [r \in Reserves |->
                [balance |-> Total(at(r, Range(P.credits))) - Total(at(r, Range(P.withdrawals))),
                 expiry |-> IF at(r, Range(P.credits)) = {} THEN 0 ELSE Expiration]]
          /\ open = {}
  BY DEF Init, BooksInit
<1> DEFINE ins == Range(P.credits)
           outs == Range(P.withdrawals)
           fin(r) == [o \in at(r, ins) |-> Op[o].amount]
           fout(r) == [o \in at(r, outs) |-> Price(Op[o].coin)]
<1>2. /\ P.then \subseteq Ops /\ IsFiniteSet(P.then)
      /\ P.credits \in Seq(Ops) /\ P.withdrawals \in Seq(Ops)
      /\ \A o \in ins : Op[o].kind = "credit" /\ Op[o].honest
      /\ \A o \in outs : Op[o].kind = "withdraw" /\ Op[o].honest
      /\ \A r \in Reserves : SumFunctionOnSet(fout(r), at(r, outs))
                               <= SumFunctionOnSet(fin(r), at(r, ins))
  BY PlanAssumption
<1>3. /\ IsFiniteSet(ins) /\ ins \subseteq Ops
      /\ IsFiniteSet(outs) /\ outs \subseteq Ops
  BY <1>2, RangeFinite
<1>4. /\ plan = ins \cup outs \cup P.then
      /\ plan \subseteq Ops /\ IsFiniteSet(plan) /\ DOMAIN row = plan /\ open = {}
  BY <1>1, <1>2, <1>3, FS_Union
<1>5. /\ \A o \in ins : serial(P.credits, o) \in Nat /\ serial(P.credits, o) > 0
      /\ \A o \in outs : serial(P.withdrawals, o) \in Nat /\ serial(P.withdrawals, o) > 0
  <2>1. ASSUME NEW s \in Seq(Ops), NEW o \in Range(s)
        PROVE  serial(s, o) \in Nat /\ serial(s, o) > 0
    <3>1. \E i \in DOMAIN s : s[i] = o
      BY DEF Range
    <3>2. serial(s, o) \in DOMAIN s
      BY <3>1
    <3>3. DOMAIN s = 1..Len(s) /\ Len(s) \in Nat
      OBVIOUS
    <3> HIDE DEF serial
    <3> QED
      BY <3>2, <3>3
  <2> HIDE DEF serial
  <2> QED
    BY <1>2, <2>1
<1>6. ins \cap outs = {}
  BY <1>2
<1> HIDE DEF serial, ins, outs
<1>7. /\ \A o \in ins : row[o].id = serial(P.credits, o) /\ row[o].amt = Op[o].amount
      /\ \A o \in outs : /\ row[o].id = serial(P.withdrawals, o)
                          /\ row[o].amt = Price(Op[o].coin)
      /\ \A o \in plan : o \notin ins /\ o \notin outs => row[o].id = 0 /\ row[o].amt = 0
  <2>1. ASSUME NEW o \in ins
        PROVE  row[o].id = serial(P.credits, o) /\ row[o].amt = Op[o].amount
    <3>1. row[o] = [id |-> serial(P.credits, o), amt |-> Op[o].amount, at |-> 0]
      BY <1>1, <1>4, <1>6 DEF ins, outs
    <3> QED
      BY <3>1
  <2>2. ASSUME NEW o \in outs
        PROVE  row[o].id = serial(P.withdrawals, o) /\ row[o].amt = Price(Op[o].coin)
    <3>1. row[o] = [id |-> serial(P.withdrawals, o), amt |-> Price(Op[o].coin), at |-> 0]
      BY <1>1, <1>4, <1>6 DEF ins, outs
    <3> QED
      BY <3>1
  <2>3. ASSUME NEW o \in plan, o \notin ins, o \notin outs
        PROVE  row[o].id = 0 /\ row[o].amt = 0
    <3>1. row[o] = [id |-> 0, amt |-> 0, at |-> 0]
      BY <1>1, <2>3 DEF ins, outs
    <3> QED
      BY <3>1
  <2> QED
    BY <2>1, <2>2, <2>3
<1>8. /\ \A o \in ins : row[o].amt \in Nat
      /\ \A o \in outs : row[o].amt \in Nat /\ row[o].amt > 0
  <2>1. \A o \in ins : Op[o].amount \in Nat
    BY <1>2, <1>3, OpFacts
  <2>2. \A o \in outs : Price(Op[o].coin) \in Nat /\ Price(Op[o].coin) > 0
    BY <1>2, <1>3, OpFacts, CoinFacts
  <2>3. \A o \in ins : row[o].amt = Op[o].amount
    BY <1>7
  <2>4. \A o \in outs : row[o].amt = Price(Op[o].coin)
    BY <1>7
  <2> QED
    BY <2>1, <2>2, <2>3, <2>4
<1>9. \A o \in plan : row[o].id \in Nat /\ row[o].amt \in Int
  BY <1>4, <1>5, <1>7, <1>8
<1>10. Numbered = ins \cup outs /\ Committed = ins \cup outs
  BY <1>4, <1>5, <1>7 DEF Numbered, Committed
<1>11. \A o \in ins \cup outs : /\ ReserveOf(o) = Op[o].reserve
                                /\ ReserveOf(o) \in Reserves
  BY <1>2, <1>3, OpFacts DEF ReserveOf
<1>12. ASSUME NEW r \in Reserves
       PROVE  /\ At(r, InRows(Committed)) = at(r, ins)
              /\ At(r, TakenRows(Committed)) = at(r, outs)
  BY <1>2, <1>10, <1>11 DEF At, InRows, TakenRows, OutRows
<1>13. ASSUME NEW r \in Reserves
       PROVE  /\ Total(at(r, ins)) = SumFunctionOnSet(fin(r), at(r, ins))
              /\ Total(at(r, outs)) = SumFunctionOnSet(fout(r), at(r, outs))
              /\ Total(at(r, ins)) \in Int /\ Total(at(r, outs)) \in Int
  <2>1. /\ IsFiniteSet(at(r, ins)) /\ IsFiniteSet(at(r, outs))
    BY <1>3, FS_Subset
  <2>2. /\ \A x \in at(r, ins) : AmountIn[x] \in Int /\ AmountIn[x] = fin(r)[x]
        /\ \A x \in at(r, outs) : AmountIn[x] \in Int /\ AmountIn[x] = fout(r)[x]
    BY <1>4, <1>7, <1>8 DEF AmountIn
  <2> HIDE DEF at, fin, fout
  <2>3. SumFunctionOnSet(AmountIn, at(r, ins)) = SumFunctionOnSet(fin(r), at(r, ins))
    BY ONLY <2>1, <2>2, SumEqual
  <2>4. SumFunctionOnSet(AmountIn, at(r, outs)) = SumFunctionOnSet(fout(r), at(r, outs))
    BY ONLY <2>1, <2>2, SumEqual
  <2>5. /\ SumFunctionOnSet(AmountIn, at(r, ins)) \in Int
        /\ SumFunctionOnSet(AmountIn, at(r, outs)) \in Int
    BY ONLY <2>1, <2>2, SumInt
  <2> QED
    BY <2>3, <2>4, <2>5 DEF Total
<1>14. DOMAIN reserve = Reserves
  BY <1>1
<1>15. \A r \in Reserves : reserve[r].balance = Total(at(r, ins)) - Total(at(r, outs))
  BY <1>1 DEF ins, outs
<1>16. ASSUME NEW r \in Reserves
       PROVE  /\ reserve[r].balance \in Nat
              /\ reserve[r].balance = Total(At(r, InRows(Committed)))
                                  - Total(At(r, TakenRows(Committed)))
  <2>1. Total(at(r, outs)) <= Total(at(r, ins))
    <3>1. SumFunctionOnSet(fout(r), at(r, outs)) <= SumFunctionOnSet(fin(r), at(r, ins))
      BY <1>2 DEF ins, outs
    <3> HIDE DEF at, fin, fout
    <3> QED
      BY <1>13, <3>1
  <2>2. /\ Total(at(r, ins)) \in Int /\ Total(at(r, outs)) \in Int
        /\ reserve[r].balance = Total(at(r, ins)) - Total(at(r, outs))
    BY <1>13, <1>15
  <2>3. reserve[r].balance \in Nat
    <3> HIDE DEF at
    <3> QED
      BY <2>1, <2>2
  <2> QED
    BY <1>12, <2>2, <2>3
<1>17. RowsInv
  <2>1. \A o \in Numbered :
           /\ Op[o].honest \/ Op[o].kind \in {"withdraw", "deposit", "wire"}
           /\ Op[o].kind \notin {"steal", "confirm", "time"}
    <3>1. \A o \in ins \cup outs : Op[o].honest /\ Op[o].kind \in {"credit", "withdraw"}
      BY <1>2
    <3> QED
      BY <1>10, <3>1
  <2> QED
    BY <1>4, <1>9, <1>14, <1>16, <2>1 DEF RowsInv
<1>18. BalanceInv
  <2>1. \A o \in Numbered : Op[o].kind \in {"credit", "recoup", "withdraw", "close"} =>
          /\ row[o].amt \in Nat /\ ReserveOf(o) \in Reserves
          /\ Op[o].kind = "withdraw" => row[o].amt > 0
    BY <1>2, <1>8, <1>10, <1>11
  <2> QED
    BY <1>4, <1>16, <2>1 DEF BalanceInv
<1> QED
  BY <1>17, <1>18

(* A commit keeps the tables in order.                                     *)
LEMMA CommitRows ==
    ASSUME RowsInv, BalanceInv, NEW o \in plan, Commit(o)
    PROVE  RowsInv'
PROOF
<1>1. /\ open' = {} /\ plan' = plan /\ row' = row
  BY CommitEffect
<1>2. DOMAIN reserve' = Reserves /\ \A r \in Reserves : reserve'[r].balance \in Int
  BY CommitBalance DEF BalanceInv
<1> QED
  BY <1>1, <1>2 DEF RowsInv, Numbered

\* The steps that leave the tables alone.
BooksSame == UNCHANGED <<plan, row, open, reserve>>

(* So does a step that leaves them alone.                                  *)
LEMMA SameBooks ==
    ASSUME RowsInv, BalanceInv, BooksSame
    PROVE  RowsInv' /\ BalanceInv'
PROOF
<1>1. plan' = plan /\ row' = row /\ open' = open /\ reserve' = reserve
  BY DEF BooksSame
<1>2. \A o \in plan : ReserveOf(o)' = ReserveOf(o)
  BY <1>1 DEF ReserveOf, WithdrawalOf
<1>3. Committed' = Committed /\ AmountIn' = AmountIn /\ Numbered' = Numbered
  BY <1>1 DEF Committed, AmountIn, Numbered
<1>4. \A r : /\ At(r, InRows(Committed))' = At(r, InRows(Committed))
             /\ At(r, TakenRows(Committed))' = At(r, TakenRows(Committed))
  BY <1>1, <1>3 DEF At, InRows, TakenRows, OutRows, ReserveOf, WithdrawalOf
<1>5. \A r : /\ Total(At(r, InRows(Committed)))' = Total(At(r, InRows(Committed)))
             /\ Total(At(r, TakenRows(Committed)))' = Total(At(r, TakenRows(Committed)))
  BY <1>3, <1>4 DEF Total
<1>6. RowsInv'
  BY <1>1, <1>3 DEF RowsInv
<1>7. Numbered \subseteq plan
  BY DEF Numbered
<1>8. BalanceInv'
  BY <1>1, <1>2, <1>3, <1>5, <1>7 DEF BalanceInv
<1> QED
  BY <1>6, <1>8

(* A step of the exchange or the bank inserts a row, commits one or leaves *)
(* the tables alone.                                                       *)
LEMMA BooksCases ==
    ASSUME BooksNext
    PROVE  \/ \E o \in plan : Insert(o)
           \/ \E o \in plan : Commit(o)
           \/ BooksSame
PROOF
  BY DEF BooksNext, BankCredit, Steal, BankDebit, Tick, BooksSame

(* Every step keeps the tables in order and the balances right.            *)
LEMMA NextBooks ==
    ASSUME RowsInv, BalanceInv, MaxOpen = 1, [Next]_vars
    PROVE  RowsInv' /\ BalanceInv'
PROOF
<1>1. CASE BooksNext
  <2>1. ASSUME NEW o \in plan, Insert(o) PROVE RowsInv' /\ BalanceInv'
    BY <2>1, InsertRows, InsertBalance
  <2>2. ASSUME NEW o \in plan, Commit(o) PROVE RowsInv' /\ BalanceInv'
    BY <2>2, CommitRows, CommitBalance
  <2> QED
    BY <1>1, <2>1, <2>2, BooksCases, SameBooks
<1>2. CASE UNCHANGED bookVars
  <2>1. BooksSame
    BY <1>2 DEF bookVars, BooksSame
  <2> QED
    BY <2>1, SameBooks
<1>3. BooksNext \/ UNCHANGED bookVars
  BY DEF Next, Exchange, Confirm, Reserves_, Coins_, Aggregation_, Deposits_, Wire_, Fails,
         vars
<1> QED
  BY <1>1, <1>2, <1>3

---------------------------------------------------------------------------
(* Marks: what an audit has passed.                                        *)

\* The rows below a mark, and what a mark is: one more than the number of a
\* row, with committed rows below it.
Passed(k, m) == {o \in Of(plan, k) : row[o].id \in 1..(m - 1)}
\* A mark is 1 or after a row; what is below it is committed.
MarkOK(k, m) ==
    /\ m = 1 \/ \E o \in Of(plan, k) : row[o].id > 0 /\ m = row[o].id + 1
    /\ Passed(k, m) \subseteq Committed

(* A mark is a serial number.                                              *)
LEMMA MarkNat ==
    ASSUME RowsInv, NEW k, NEW m, MarkOK(k, m)
    PROVE  m \in Nat /\ m > 0
PROOF
  BY DEF MarkOK, RowsInv, Of

(* Before the first audit nothing is passed.                               *)
LEMMA FirstMark ==
    ASSUME RowsInv, NEW k
    PROVE  MarkOK(k, 1) /\ Passed(k, 1) = {}
PROOF
  BY DEF MarkOK, Passed, RowsInv, Of

(* A step of the books does not change what is below a mark.               *)
LEMMA MarkStep ==
    ASSUME RowsInv, MaxOpen = 1, [Next]_vars, NEW k, NEW m, MarkOK(k, m)
    PROVE  /\ MarkOK(k, m)' /\ Passed(k, m)' = Passed(k, m)
           /\ \A o \in Passed(k, m) : row'[o] = row[o]
PROOF
<1>0. m \in Nat /\ m > 0
  BY MarkNat
<1>1. ASSUME NEW o \in plan, Insert(o)
      PROVE  /\ MarkOK(k, m)' /\ Passed(k, m)' = Passed(k, m)
             /\ \A p \in Passed(k, m) : row'[p] = row[p]
  <2>1. /\ plan' = plan /\ row[o].id = 0 /\ DOMAIN row' = plan
        /\ row'[o].id = NextSerial(Op[o].kind)
        /\ \A p \in plan \ {o} : row'[p] = row[p]
        /\ Committed' = Committed
    BY <1>1, InsertEffect
  <2>2. /\ NextSerial(Op[o].kind) \in Nat /\ NextSerial(Op[o].kind) > 0
        /\ \A p \in plan : Op[p].kind = Op[o].kind => row[p].id < NextSerial(Op[o].kind)
    BY NextSerialLarger
  <2>3. \A p \in plan : row[p].id \in Nat
    BY DEF RowsInv
  <2>4. Op[o].kind = k => m <= row'[o].id
    BY <1>0, <2>1, <2>2, <2>3 DEF MarkOK, Of
  <2>5. o \notin Passed(k, m) /\ o \notin Passed(k, m)'
    BY <1>0, <2>1, <2>2, <2>4 DEF Passed, Of
  <2>6. \A p \in plan \ {o} : p \in Passed(k, m)' <=> p \in Passed(k, m)
    BY <2>1 DEF Passed, Of
  <2>7. Passed(k, m) \subseteq plan /\ Passed(k, m)' \subseteq plan
    BY <2>1 DEF Passed, Of
  <2>8. Passed(k, m)' = Passed(k, m)
    BY <2>5, <2>6, <2>7
  <2>9. m = 1 \/ \E p \in Of(plan, k)' : row'[p].id > 0 /\ m = row'[p].id + 1
    BY <2>1, <2>3 DEF MarkOK, Of
  <2> QED
    BY <2>1, <2>5, <2>7, <2>8, <2>9 DEF MarkOK
<1>2. ASSUME NEW o \in plan, Commit(o)
      PROVE  /\ MarkOK(k, m)' /\ Passed(k, m)' = Passed(k, m)
             /\ \A p \in Passed(k, m) : row'[p] = row[p]
  <2>1. plan' = plan /\ row' = row /\ Committed' = Committed \cup {o}
    BY <1>2, CommitEffect
  <2> QED
    BY <2>1 DEF MarkOK, Passed, Of
<1>3. ASSUME BooksSame
      PROVE  /\ MarkOK(k, m)' /\ Passed(k, m)' = Passed(k, m)
             /\ \A p \in Passed(k, m) : row'[p] = row[p]
  BY <1>3 DEF MarkOK, Passed, Of, BooksSame, Committed
<1>4. BooksNext \/ BooksSame
  BY DEF Next, Exchange, Confirm, Reserves_, Coins_, Aggregation_, Deposits_, Wire_, Fails,
         vars, bookVars, BooksSame
<1> QED
  BY <1>1, <1>2, <1>3, <1>4, BooksCases

(* A new mark is after the rows that were read.                            *)
LEMMA MarkAfterBounds ==
    ASSUME RowsInv, NEW T, T \subseteq plan, NEW m \in Nat
    PROVE  /\ MarkAfter(T, m) \in Nat /\ m <= MarkAfter(T, m)
           /\ \A o \in T : row[o].id < MarkAfter(T, m)
           /\ MarkAfter(T, m) = m \/ \E o \in T : MarkAfter(T, m) = row[o].id + 1
PROOF
<1> DEFINE f == [o \in T |-> row[o].id + 1]
           M == {m} \cup {f[o] : o \in T}
<1>1. IsFiniteSet(T)
  BY FS_Subset DEF RowsInv
<1>2. \A o \in T : f[o] \in Nat /\ f[o] = row[o].id + 1 /\ row[o].id \in Nat
  BY DEF RowsInv
<1>3. {row[o].id + 1 : o \in T} = {f[o] : o \in T}
  OBVIOUS
<1>4. MarkAfter(T, m) = Max(M)
  BY <1>3 DEF MarkAfter
<1>5. /\ Max(M) \in Nat /\ m <= Max(M)
      /\ \A o \in T : f[o] <= Max(M)
      /\ Max(M) = m \/ \E o \in T : Max(M) = f[o]
  <2>1. \A o \in T : f[o] \in Nat
    BY <1>2
  <2> HIDE DEF f
  <2> QED
    BY <1>1, <2>1, MaxImage
<1> HIDE DEF M, f
<1> QED
  BY <1>2, <1>4, <1>5

(* An audit passes all the committed rows: those below the mark and those  *)
(* it reads.                                                               *)
LEMMA MarkAudit ==
    ASSUME RowsInv, NEW k, NEW m, MarkOK(k, m)
    PROVE  LET T == Above(k, Committed, m)
               n == MarkAfter(T, m)
           IN /\ MarkOK(k, n) /\ Passed(k, n) = Of(Committed, k)
              /\ Passed(k, n) = Passed(k, m) \cup T /\ Passed(k, m) \cap T = {}
PROOF
<1> DEFINE T == Above(k, Committed, m)
           n == MarkAfter(T, m)
<1>0. m \in Nat /\ m > 0
  BY MarkNat
<1>1. T \subseteq plan /\ Committed \subseteq plan
  BY CommittedInPlan DEF Above, Of
<1>2. /\ n \in Nat /\ m <= n
      /\ \A o \in T : row[o].id < n
      /\ n = m \/ \E o \in T : n = row[o].id + 1
  <2> HIDE DEF T
  <2> QED
    BY <1>0, <1>1, MarkAfterBounds
<1> HIDE DEF n
<1>3. \A o \in Committed : row[o].id \in Nat /\ row[o].id > 0
  BY DEF RowsInv, Committed
<1>4. n = 1 \/ \E o \in Of(plan, k) : row[o].id > 0 /\ n = row[o].id + 1
  <2>1. CASE n = m
    BY <2>1 DEF MarkOK
  <2>2. ASSUME NEW o \in T, n = row[o].id + 1
        PROVE  \E p \in Of(plan, k) : row[p].id > 0 /\ n = row[p].id + 1
    BY <1>1, <1>3, <2>2 DEF Above, Of
  <2> QED
    BY <1>2, <2>1, <2>2
<1>5. ASSUME NEW o \in open PROVE o \notin Passed(k, n)
  <2>1. SUFFICES ASSUME o \in Of(plan, k), row[o].id \in 1..(n - 1) PROVE FALSE
    BY DEF Passed
  <2>2. o \notin Committed
    BY DEF Committed
  <2>3. row[o].id \in Nat /\ row[o].id >= m
    BY <1>0, <2>1, <2>2 DEF MarkOK, Passed, RowsInv, Of
  <2>4. PICK p \in T : n = row[p].id + 1
    BY <1>0, <1>2, <2>1, <2>3
  <2>5. p \in Committed /\ p # o /\ Op[p].kind = Op[o].kind
    BY <2>1, <2>2 DEF Above, Of
  <2>6. row[p].id < row[o].id
    BY <1>1, <2>5 DEF RowsInv
  <2> QED
    BY <1>1, <1>3, <2>1, <2>3, <2>4, <2>5, <2>6
<1>6. Passed(k, n) \subseteq Committed
  BY <1>5 DEF Passed, Of, Committed
<1>7. ASSUME NEW o \in Of(Committed, k) PROVE o \in Passed(k, n)
  <2>1. o \in Of(plan, k) /\ row[o].id \in Nat /\ row[o].id > 0
    BY <1>1, <1>3 DEF Of
  <2>2. row[o].id < n
    <3>1. CASE row[o].id >= m
      <4>1. o \in T
        BY <3>1 DEF Above
      <4> QED
        BY <1>2, <4>1
    <3>2. CASE row[o].id < m
      BY <1>0, <1>2, <2>1, <3>2
    <3> QED
      BY <1>0, <2>1, <3>1, <3>2
  <2> QED
    BY <1>2, <2>1, <2>2 DEF Passed
<1>8. Passed(k, n) = Of(Committed, k)
  BY <1>6, <1>7 DEF Passed, Of
<1>9. Passed(k, m) \cap T = {}
  BY <1>0 DEF Passed, Above, Of
<1>10. Passed(k, m) \cup T = Of(Committed, k)
  <2>1. Passed(k, m) \subseteq Of(Committed, k) /\ T \subseteq Of(Committed, k)
    BY DEF MarkOK, Passed, Of, Above
  <2>2. ASSUME NEW o \in Of(Committed, k), o \notin T
        PROVE  o \in Passed(k, m)
    BY <1>0, <1>1, <1>3, <2>2 DEF Passed, Of, Above
  <2> QED
    BY <2>1, <2>2
<1>11. MarkOK(k, n)
  BY <1>4, <1>6 DEF MarkOK
<1> QED
  BY <1>8, <1>9, <1>10, <1>11 DEF n

---------------------------------------------------------------------------
(* Kinds of alarms.                                                        *)

\* A step that adds alarms of these kinds only.
Adds(K) == alarms \subseteq alarms' /\ \A a \in alarms' \ alarms : a[1] \in K

(* What is in a set of alarms.                                             *)
LEMMA AlarmKind ==
    ASSUME NEW k, NEW T, NEW a \in Alarm(k, T)
    PROVE  a[1] = k /\ a[2] \in T /\ a = <<k, a[2]>>
PROOF
  BY DEF Alarm

\* The kinds of alarms of each helper.
ReserveAlarms == {"irregular recoup", "closing fee", "insufficient balance",
                  "reserve balance", "not closed"}
CoinAlarms == {"coin history", "melt cost", "not revoked", "emergency"}
AggregationAlarms == {"wire out amount", "wire fee", "coin in aggregation"}
AllWireAlarms == WireAlarms \cup {"lag"}

(* The kinds of alarms that each helper raises.                            *)
LEMMA ReserveAdds == Reserves_ => Adds(ReserveAlarms)
PROOF
<1> SUFFICES ASSUME Reserves_ PROVE Adds(ReserveAlarms)
  OBVIOUS
<1>1. \E X, Y, Z, V, U :
         alarms' = alarms \cup (Alarm("irregular recoup", X) \cup Alarm("closing fee", Y)
                                \cup Alarm("insufficient balance", Z)
                                \cup Alarm("reserve balance", V) \cup Alarm("not closed", U))
  BY DEF Reserves_, AuditReserves, Raise
<1>2. \A k \in ReserveAlarms : \A T : \A a \in Alarm(k, T) : a[1] \in ReserveAlarms
  BY AlarmKind
<1>3. {"irregular recoup", "closing fee", "insufficient balance", "reserve balance",
       "not closed"} \subseteq ReserveAlarms
  BY DEF ReserveAlarms
<1> QED
  BY <1>1, <1>2, <1>3 DEF Adds

LEMMA CoinAdds == Coins_ => Adds(CoinAlarms)
PROOF
<1> SUFFICES ASSUME Coins_ PROVE Adds(CoinAlarms)
  OBVIOUS
<1>1. \/ alarms' = alarms
      \/ \E X, Y, Z, V : alarms' = alarms \cup (Alarm("coin history", X) \cup Alarm("melt cost", Y)
                           \cup Alarm("not revoked", Z) \cup Alarm("emergency", V))
  BY DEF Coins_, AuditCoins, Raise
<1> QED
  BY <1>1, AlarmKind DEF Adds, CoinAlarms

LEMMA AggregationAdds == Aggregation_ => Adds(AggregationAlarms)
PROOF
<1> SUFFICES ASSUME Aggregation_ PROVE Adds(AggregationAlarms)
  OBVIOUS
<1>1. \E X, Y, Z : alarms' = alarms \cup (Alarm("wire out amount", X) \cup Alarm("wire fee", Y)
                           \cup Alarm("coin in aggregation", Z))
  BY DEF Aggregation_, AuditAggregation, Raise
<1> QED
  BY <1>1, AlarmKind DEF Adds, AggregationAlarms

LEMMA DepositAdds == Deposits_ => Adds({"deposit missing"})
PROOF
  BY AlarmKind DEF Deposits_, AuditDeposits, Raise, Adds

LEMMA WireAdds == Wire_ => Adds(AllWireAlarms)
PROOF
<1> SUFFICES ASSUME Wire_ PROVE Adds(AllWireAlarms)
  OBVIOUS
<1>1. \/ alarms' = alarms
      \/ \E X : alarms' = alarms \cup Alarm("credit not at bank", X)
      \/ \E X, Y : alarms' = alarms \cup (Alarm("transfer not at bank", X)
                                          \cup Alarm("debit not in books", Y))
      \/ \E X, Y : alarms' = alarms \cup (Alarm("closure lag", X) \cup Alarm("lag", Y))
  <2>1. CASE BeginTransaction \/ WireFails
    BY <2>1 DEF BeginTransaction, WireFails, libVars
  <2>2. CASE ProcessCredits
    BY <2>2 DEF ProcessCredits, Raise
  <2>3. CASE ProcessDebits
    BY <2>3 DEF ProcessDebits, Raise
  <2>4. CASE Conclude
    BY <2>4 DEF Conclude, Raise
  <2> QED
    BY <2>1, <2>2, <2>3, <2>4 DEF Wire_, AuditWireNext
<1>2. \A k \in AllWireAlarms : \A T : \A a \in Alarm(k, T) : a[1] \in AllWireAlarms
  BY AlarmKind
<1>3. {"credit not at bank", "transfer not at bank", "debit not in books", "closure lag",
       "lag"} \subseteq AllWireAlarms
  BY DEF AllWireAlarms, WireAlarms
<1> QED
  BY <1>1, <1>2, <1>3 DEF Adds

(* No other step raises an alarm.                                          *)
LEMMA OtherAdds ==
    Exchange \/ (\E o \in plan : Confirm(o)) \/ Fails \/ UNCHANGED vars => Adds({})
PROOF
  BY DEF Exchange, Confirm, Fails, HelperFails, vars, auditorVars, libVars, Adds

(* The plan of a behaviour stays.                                          *)
LEMMA PlanStays == ASSUME [Next]_vars PROVE plan' = plan
PROOF
<1>1. BooksNext => plan' = plan
  BY DEF BooksNext, Insert, Commit, BankCredit, Steal, BankDebit, Tick
<1> QED
  BY <1>1 DEF Next, Exchange, Confirm, Reserves_, Coins_, Aggregation_, Deposits_, Wire_,
              Fails, vars, bookVars

---------------------------------------------------------------------------
(* The reserves helper.                                                    *)

\* The rows that the reserves helper has passed.
AuditedIn == Passed("credit", ppr.in) \cup Passed("recoup", ppr.recoup)
AuditedOut == Passed("withdraw", ppr.out) \cup Passed("close", ppr.close)

\* An alarm about the balance of a reserve.
Suspect(r) == <<"insufficient balance", r>> \in alarms \/ <<"reserve balance", r>> \in alarms

Balances == [r \in Reserves |-> rinfo[r].balance]

\* What the auditor remembers of a reserve without such an alarm is what the
\* audited rows add up to, and none of them is dishonest.
ReserveAuditInv ==
    /\ MarkOK("credit", ppr.in) /\ MarkOK("recoup", ppr.recoup)
    /\ MarkOK("withdraw", ppr.out) /\ MarkOK("close", ppr.close)
    /\ \A r \in Reserves : rinfo[r].balance \in Nat
    /\ \A r \in Reserves : ~Suspect(r) =>
          /\ rinfo[r].balance = Total(At(r, AuditedIn)) - Total(At(r, AuditedOut))
          /\ \A o \in At(r, AuditedOut) : Op[o].honest
    /\ Honest => /\ \A r \in Reserves : ~Suspect(r)
                 /\ rsum.escrow = SumFunctionOnSet(Balances, Reserves)
                 /\ rsum.fees = FeesOut(AuditedOut)

(* Fees are integers.                                                      *)
LEMMA FeeInt ==
    ASSUME RowsInv, NEW T, T \subseteq plan
    PROVE  /\ \A o \in T : FeeIn[o] \in Int
           /\ FeesOut(T) \in Int
PROOF
<1>1. ASSUME NEW o \in plan PROVE FeeIn[o] \in Int
  <2>0. o \in Ops /\ row[o].amt \in Int /\ ClosingFee \in Nat
    BY BooksAssumption DEF RowsInv
  <2>1. CASE Op[o].kind = "close"
    <3>1. Min({row[o].amt, ClosingFee}) \in Int
      BY <2>0, MinTwo
    <3> QED
      BY <2>1, <3>1 DEF FeeIn, ClosingFeeOf
  <2>2. CASE Op[o].kind = "withdraw"
    <3>1. Op[o].coin \in Coins
      BY <2>0, <2>2, OpFacts
    <3> QED
      BY <2>2, <3>1, CoinFacts DEF FeeIn
  <2>3. CASE Op[o].kind \notin {"close", "withdraw"}
    BY <2>3 DEF FeeIn
  <2> QED
    BY <2>1, <2>2, <2>3
<1>2. IsFiniteSet(T) /\ \A o \in T : FeeIn[o] \in Int
  BY <1>1, TotalInt
<1>3. SumFunctionOnSet(FeeIn, T) \in Int
  BY ONLY <1>2, SumInt
<1> QED
  BY <1>2, <1>3 DEF FeesOut

(* Rows that do not change keep their totals.                              *)
LEMMA TotalKept ==
    ASSUME RowsInv, NEW T, T \subseteq plan, plan' = plan, \A o \in T : row'[o] = row[o]
    PROVE  /\ SumFunctionOnSet(AmountIn', T) = SumFunctionOnSet(AmountIn, T)
           /\ SumFunctionOnSet(FeeIn', T) = SumFunctionOnSet(FeeIn, T)
PROOF
<1>1. IsFiniteSet(T)
  BY FS_Subset DEF RowsInv
<1>2. \A x \in T : AmountIn[x] \in Int /\ AmountIn[x] = AmountIn'[x]
  BY DEF AmountIn, RowsInv
<1>3. \A x \in T : FeeIn[x] \in Int /\ FeeIn[x] = FeeIn'[x]
  <2>1. \A x \in T : FeeIn[x] \in Int
    BY FeeInt
  <2>2. \A x \in T : FeeIn[x] = FeeIn'[x]
    BY DEF FeeIn
  <2> QED
    BY <2>1, <2>2
<1>4. SumFunctionOnSet(AmountIn', T) = SumFunctionOnSet(AmountIn, T)
  BY ONLY <1>1, <1>2, SumEqual
<1>5. SumFunctionOnSet(FeeIn', T) = SumFunctionOnSet(FeeIn, T)
  BY ONLY <1>1, <1>3, SumEqual
<1> QED
  BY <1>4, <1>5

(* The steps of everything but the reserves helper.                        *)
LEMMA OthersReserveAudit ==
    ASSUME RowsInv, ReserveAuditInv, MaxOpen = 1, [Next]_vars,
           UNCHANGED reserveAuditVars,
           \A a \in alarms' \ alarms : a[1] \notin {"insufficient balance", "reserve balance"},
           alarms \subseteq alarms'
    PROVE  ReserveAuditInv'
PROOF
<1>1. ppr' = ppr /\ rinfo' = rinfo /\ rsum' = rsum /\ plan' = plan
  BY PlanStays DEF reserveAuditVars
<1>2. PICK p : p = ppr
  OBVIOUS
<1>3. /\ MarkOK("credit", p.in) /\ MarkOK("recoup", p.recoup)
      /\ MarkOK("withdraw", p.out) /\ MarkOK("close", p.close)
  BY <1>2 DEF ReserveAuditInv
<1>4. /\ MarkOK("credit", p.in)' /\ Passed("credit", p.in)' = Passed("credit", p.in)
      /\ \A o \in Passed("credit", p.in) : row'[o] = row[o]
  BY <1>3, MarkStep
<1>5. /\ MarkOK("recoup", p.recoup)' /\ Passed("recoup", p.recoup)' = Passed("recoup", p.recoup)
      /\ \A o \in Passed("recoup", p.recoup) : row'[o] = row[o]
  BY <1>3, MarkStep
<1>6. /\ MarkOK("withdraw", p.out)' /\ Passed("withdraw", p.out)' = Passed("withdraw", p.out)
      /\ \A o \in Passed("withdraw", p.out) : row'[o] = row[o]
  BY <1>3, MarkStep
<1>7. /\ MarkOK("close", p.close)' /\ Passed("close", p.close)' = Passed("close", p.close)
      /\ \A o \in Passed("close", p.close) : row'[o] = row[o]
  BY <1>3, MarkStep
<1>8. p' = p
  OBVIOUS
<1>9. /\ MarkOK("credit", ppr.in)' /\ MarkOK("recoup", ppr.recoup)'
      /\ MarkOK("withdraw", ppr.out)' /\ MarkOK("close", ppr.close)'
  BY <1>1, <1>2, <1>4, <1>5, <1>6, <1>7 DEF MarkOK, Passed
<1>10. /\ AuditedIn = Passed("credit", p.in) \cup Passed("recoup", p.recoup)
       /\ AuditedOut = Passed("withdraw", p.out) \cup Passed("close", p.close)
  BY <1>2 DEF AuditedIn, AuditedOut
<1>11. /\ AuditedIn' = Passed("credit", p.in)' \cup Passed("recoup", p.recoup)'
       /\ AuditedOut' = Passed("withdraw", p.out)' \cup Passed("close", p.close)'
  BY <1>1, <1>2 DEF AuditedIn, AuditedOut, Passed
<1>12. AuditedIn' = AuditedIn /\ AuditedOut' = AuditedOut
  BY <1>4, <1>5, <1>6, <1>7, <1>10, <1>11
<1>13. \A o \in AuditedIn \cup AuditedOut : row'[o] = row[o] /\ o \in plan
  BY <1>4, <1>5, <1>6, <1>7, <1>10 DEF Passed, Of
<1>14. \A o \in plan : ReserveOf(o)' = ReserveOf(o)
  BY ONLY <1>1 DEF ReserveOf, WithdrawalOf, Of
<1>15. \A r : At(r, AuditedIn)' = At(r, AuditedIn) /\ At(r, AuditedOut)' = At(r, AuditedOut)
  BY <1>12, <1>13, <1>14 DEF At
<1>16. ASSUME NEW T, T \subseteq AuditedIn \cup AuditedOut
       PROVE  /\ SumFunctionOnSet(AmountIn', T) = Total(T)
              /\ SumFunctionOnSet(FeeIn', T) = FeesOut(T)
  <2>1. T \subseteq plan /\ \A o \in T : row'[o] = row[o]
    BY <1>13, <1>16
  <2> QED
    BY <1>1, <2>1, TotalKept DEF Total, FeesOut
<1>17. \A r : /\ Total(At(r, AuditedIn))' = Total(At(r, AuditedIn))
              /\ Total(At(r, AuditedOut))' = Total(At(r, AuditedOut))
  <2> TAKE r
  <2>1. /\ At(r, AuditedIn) \subseteq AuditedIn \cup AuditedOut
        /\ At(r, AuditedOut) \subseteq AuditedIn \cup AuditedOut
    BY DEF At
  <2>2. /\ Total(At(r, AuditedIn))' = SumFunctionOnSet(AmountIn', At(r, AuditedIn)')
        /\ Total(At(r, AuditedOut))' = SumFunctionOnSet(AmountIn', At(r, AuditedOut)')
    BY DEF Total
  <2> QED
    BY <1>15, <1>16, <2>1, <2>2
<1>18. FeesOut(AuditedOut)' = FeesOut(AuditedOut)
  <2>1. FeesOut(AuditedOut)' = SumFunctionOnSet(FeeIn', AuditedOut')
    BY DEF FeesOut
  <2> QED
    BY <1>12, <1>16, <2>1
<1>19. \A r : Suspect(r)' <=> Suspect(r)
  <2>1. \A r : /\ <<"insufficient balance", r>>[1] = "insufficient balance"
               /\ <<"reserve balance", r>>[1] = "reserve balance"
    OBVIOUS
  <2>2. \A r : /\ <<"insufficient balance", r>> \notin alarms' \ alarms
               /\ <<"reserve balance", r>> \notin alarms' \ alarms
    BY <2>1
  <2> QED
    BY <2>2 DEF Suspect
<1>20. Honest' = Honest /\ Balances' = Balances
  BY <1>1 DEF Honest, Balances
<1> QED
  BY <1>1, <1>9, <1>15, <1>17, <1>18, <1>19, <1>20 DEF ReserveAuditInv

(* The rows of a reserve in a disjoint union.                              *)
LEMMA TotalUnion ==
    ASSUME RowsInv, NEW A, NEW B, A \subseteq plan, B \subseteq plan, A \cap B = {}
    PROVE  /\ Total(A \cup B) = Total(A) + Total(B)
           /\ FeesOut(A \cup B) = FeesOut(A) + FeesOut(B)
PROOF
<1>1. IsFiniteSet(A) /\ IsFiniteSet(B)
  BY TotalInt
<1>2. \A x \in A \cup B : AmountIn[x] \in Int
  BY DEF RowsInv, AmountIn
<1>3. \A x \in A \cup B : FeeIn[x] \in Int
  <2>1. A \cup B \subseteq plan
    OBVIOUS
  <2> QED
    BY <2>1, FeeInt
<1>4. SumFunctionOnSet(AmountIn, A \cup B)
        = SumFunctionOnSet(AmountIn, A) + SumFunctionOnSet(AmountIn, B)
  BY ONLY <1>1, <1>2, A \cap B = {}, SumUnion
<1>5. SumFunctionOnSet(FeeIn, A \cup B)
        = SumFunctionOnSet(FeeIn, A) + SumFunctionOnSet(FeeIn, B)
  BY ONLY <1>1, <1>3, A \cap B = {}, SumUnion
<1> QED
  BY <1>4, <1>5 DEF Total, FeesOut

(* Amounts that are not negative add up.                                   *)
LEMMA TotalNat ==
    ASSUME RowsInv, NEW T, T \subseteq plan, \A o \in T : row[o].amt \in Nat
    PROVE  Total(T) \in Nat /\ \A o \in T : row[o].amt <= Total(T)
PROOF
<1>1. IsFiniteSet(T)
  BY TotalInt
<1>2. \A x \in T : AmountIn[x] \in Nat /\ AmountIn[x] = row[x].amt
  BY DEF AmountIn
<1>3. SumFunctionOnSet(AmountIn, T) \in Nat
  BY <1>1, <1>2, SumNat
<1>4. ASSUME NEW o \in T PROVE row[o].amt <= SumFunctionOnSet(AmountIn, T)
  <2>1. SumFunctionOnSet(AmountIn, T) = AmountIn[o] + SumFunctionOnSet(AmountIn, T \ {o})
    <3>1. \A x \in T : AmountIn[x] \in Int
      BY <1>2
    <3> QED
      BY ONLY <1>1, <3>1, o \in T, SumRemove
  <2>2. SumFunctionOnSet(AmountIn, T \ {o}) \in Nat
    <3>1. IsFiniteSet(T \ {o}) /\ \A x \in T \ {o} : AmountIn[x] \in Nat
      BY <1>1, <1>2, FS_RemoveElement
    <3> QED
      BY ONLY <3>1, SumNat
  <2> QED
    BY <1>2, <2>1, <2>2
<1> QED
  BY <1>3, <1>4 DEF Total

(* AlarmKind, for a given value.                                           *)
LEMMA AlarmIn ==
    ASSUME NEW k, NEW T, NEW a, a \in Alarm(k, T)
    PROVE  a[1] = k /\ a[2] \in T
PROOF
  BY DEF Alarm

(* A run of the reserves helper: it adds what is above its marks to what   *)
(* it had, complains about a reserve whose rows take more than they bring, *)
(* and agrees with the exchange about the others.                          *)
LEMMA AuditReserveAudit ==
    ASSUME RowsInv, BalanceInv, ReserveAuditInv, Reserves_
    PROVE  ReserveAuditInv'
PROOF
<1> DEFINE S == Committed
           ins == ReservesInAbove(S, ppr.in)
           outs == WithdrawalsAbove(S, ppr.out)
           recoups == RecoupAbove(S, ppr.recoup)
           closed == ReserveClosedAbove(S, ppr.close)
           in == ins \cup recoups
           out == outs \cup closed
           touched == ReservesOf(in \cup out)
<1>1. /\ ppr' = [in |-> MarkAfter(ins, ppr.in), out |-> MarkAfter(outs, ppr.out),
                 recoup |-> MarkAfter(recoups, ppr.recoup),
                 close |-> MarkAfter(closed, ppr.close)]
      /\ rinfo' = [r \in Reserves |-> IF r \in touched THEN InfoAfter(r, in, out) ELSE rinfo[r]]
      /\ rsum' = [escrow |-> EscrowAfter(touched, in, out), fees |-> rsum.fees + FeesOut(out)]
      /\ alarms \subseteq alarms'
      /\ \A a \in alarms' \ alarms :
            /\ a[1] = "insufficient balance" => /\ a[2] \in touched
                                                /\ InsufficientBalance(a[2], in, out)
            /\ a[1] = "reserve balance" => /\ a[2] \in touched
                                           /\ SummaryWrong(a[2], in, out)
      /\ \A r \in touched : /\ InsufficientBalance(r, in, out) => Suspect(r)'
                            /\ SummaryWrong(r, in, out) => Suspect(r)'
  <2>1. AuditReserves
    BY DEF Reserves_
  <2>2. /\ ppr' = [in |-> MarkAfter(ins, ppr.in), out |-> MarkAfter(outs, ppr.out),
                 recoup |-> MarkAfter(recoups, ppr.recoup),
                 close |-> MarkAfter(closed, ppr.close)]
        /\ rinfo' = [r \in Reserves |-> IF r \in touched THEN InfoAfter(r, in, out) ELSE rinfo[r]]
        /\ rsum' = [escrow |-> EscrowAfter(touched, in, out), fees |-> rsum.fees + FeesOut(out)]
    BY <2>1 DEF AuditReserves, StoreReserveProgress, StoreReserveInfo, StoreReserveSummary
  <2>3. PICK X, Y, Z : alarms' = alarms \cup (Alarm("irregular recoup", X)
                \cup Alarm("closing fee", Y)
                \cup Alarm("insufficient balance",
                           {r \in touched : InsufficientBalance(r, in, out)})
                \cup Alarm("reserve balance",
                           {r \in touched : SummaryWrong(r, in, out)})
                \cup Alarm("not closed", Z))
    BY <2>1 DEF AuditReserves, Raise
  <2> HIDE DEF touched, in, out
  <2> DEFINE I == {r \in touched : InsufficientBalance(r, in, out)}
             W == {r \in touched : SummaryWrong(r, in, out)}
  <2>4. \A r \in touched : /\ InsufficientBalance(r, in, out) <=> r \in I
                           /\ SummaryWrong(r, in, out) <=> r \in W
    OBVIOUS
  <2>5. I \subseteq touched /\ W \subseteq touched
    OBVIOUS
  <2>6. alarms' = alarms \cup (Alarm("irregular recoup", X) \cup Alarm("closing fee", Y)
                \cup Alarm("insufficient balance", I) \cup Alarm("reserve balance", W)
                \cup Alarm("not closed", Z))
    BY <2>3
  <2> HIDE DEF I, W
  <2>7. \A a \in alarms' \ alarms : /\ a[1] = "insufficient balance" => a[2] \in I
                                    /\ a[1] = "reserve balance" => a[2] \in W
    <3> TAKE a \in alarms' \ alarms
    <3>2. \/ a \in Alarm("irregular recoup", X) \/ a \in Alarm("closing fee", Y)
          \/ a \in Alarm("insufficient balance", I) \/ a \in Alarm("reserve balance", W)
          \/ a \in Alarm("not closed", Z)
      BY <2>6
    <3>3. CASE a \in Alarm("irregular recoup", X)
      <4>1. a[1] = "irregular recoup" /\ a[2] \in X
        BY ONLY <3>3, AlarmIn, Zenon
      <4> QED
        BY ONLY <4>1
    <3>4. CASE a \in Alarm("closing fee", Y)
      <4>1. a[1] = "closing fee" /\ a[2] \in Y
        BY ONLY <3>4, AlarmIn, Zenon
      <4> QED
        BY ONLY <4>1
    <3>5. CASE a \in Alarm("insufficient balance", I)
      <4>1. a[1] = "insufficient balance" /\ a[2] \in I
        BY ONLY <3>5, AlarmIn, Zenon
      <4> QED
        BY ONLY <4>1
    <3>6. CASE a \in Alarm("reserve balance", W)
      <4>1. a[1] = "reserve balance" /\ a[2] \in W
        BY ONLY <3>6, AlarmIn, Zenon
      <4> QED
        BY ONLY <4>1
    <3>7. CASE a \in Alarm("not closed", Z)
      <4>1. a[1] = "not closed" /\ a[2] \in Z
        BY ONLY <3>7, AlarmIn, Zenon
      <4> QED
        BY ONLY <4>1
    <3> QED
      BY ONLY <3>2, <3>3, <3>4, <3>5, <3>6, <3>7
  <2>8. /\ \A r \in I : <<"insufficient balance", r>> \in alarms'
        /\ \A r \in W : <<"reserve balance", r>> \in alarms'
    BY <2>6 DEF Alarm
  <2>9. alarms \subseteq alarms'
    BY <2>6
  <2>10. \A r \in touched : /\ InsufficientBalance(r, in, out) => Suspect(r)'
                            /\ SummaryWrong(r, in, out) => Suspect(r)'
    BY <2>4, <2>8 DEF Suspect
  <2> QED
    BY <2>2, <2>4, <2>5, <2>7, <2>9, <2>10
<1>2. plan' = plan /\ row' = row /\ open' = open /\ reserve' = reserve
  BY DEF Reserves_, bookVars
<1>3. /\ MarkOK("credit", ppr.in) /\ MarkOK("recoup", ppr.recoup)
      /\ MarkOK("withdraw", ppr.out) /\ MarkOK("close", ppr.close)
  BY DEF ReserveAuditInv
<1>4. PICK p : p = [in |-> MarkAfter(ins, ppr.in), out |-> MarkAfter(outs, ppr.out),
                 recoup |-> MarkAfter(recoups, ppr.recoup),
                 close |-> MarkAfter(closed, ppr.close)]
  OBVIOUS
<1>5. /\ MarkOK("credit", p.in) /\ Passed("credit", p.in) = Of(S, "credit")
      /\ Passed("credit", p.in) = Passed("credit", ppr.in) \cup ins
      /\ Passed("credit", ppr.in) \cap ins = {}
  BY <1>3, <1>4, MarkAudit DEF ReservesInAbove
<1>6. /\ MarkOK("recoup", p.recoup) /\ Passed("recoup", p.recoup) = Of(S, "recoup")
      /\ Passed("recoup", p.recoup) = Passed("recoup", ppr.recoup) \cup recoups
      /\ Passed("recoup", ppr.recoup) \cap recoups = {}
  BY <1>3, <1>4, MarkAudit DEF RecoupAbove
<1>7. /\ MarkOK("withdraw", p.out) /\ Passed("withdraw", p.out) = Of(S, "withdraw")
      /\ Passed("withdraw", p.out) = Passed("withdraw", ppr.out) \cup outs
      /\ Passed("withdraw", ppr.out) \cap outs = {}
  BY <1>3, <1>4, MarkAudit DEF WithdrawalsAbove
<1>8. /\ MarkOK("close", p.close) /\ Passed("close", p.close) = Of(S, "close")
      /\ Passed("close", p.close) = Passed("close", ppr.close) \cup closed
      /\ Passed("close", ppr.close) \cap closed = {}
  BY <1>3, <1>4, MarkAudit DEF ReserveClosedAbove
<1>9. /\ MarkOK("credit", ppr.in)' /\ MarkOK("recoup", ppr.recoup)'
      /\ MarkOK("withdraw", ppr.out)' /\ MarkOK("close", ppr.close)'
  <2>1. ppr' = p
    BY <1>1, <1>4
  <2> HIDE DEF S
  <2> QED
    BY <1>2, <1>5, <1>6, <1>7, <1>8, <2>1 DEF MarkOK, Passed, Of, Committed
<1>10. AuditedIn' = InRows(S) /\ AuditedOut' = OutRows(S)
  <2>1. ppr' = p
    BY <1>1, <1>4
  <2>2. /\ AuditedIn' = Passed("credit", p.in) \cup Passed("recoup", p.recoup)
        /\ AuditedOut' = Passed("withdraw", p.out) \cup Passed("close", p.close)
    BY <1>2, <2>1 DEF AuditedIn, AuditedOut, Passed, Of
  <2> HIDE DEF S
  <2> QED
    BY <1>5, <1>6, <1>7, <1>8, <2>2 DEF InRows, OutRows, Of
<1>11. /\ InRows(S) = AuditedIn \cup in /\ AuditedIn \cap in = {}
       /\ OutRows(S) = AuditedOut \cup out /\ AuditedOut \cap out = {}
  <2>1. /\ ins \subseteq Of(S, "credit") /\ recoups \subseteq Of(S, "recoup")
        /\ outs \subseteq Of(S, "withdraw") /\ closed \subseteq Of(S, "close")
    BY DEF ReservesInAbove, RecoupAbove, WithdrawalsAbove, ReserveClosedAbove, Above
  <2> HIDE DEF S, ins, recoups, outs, closed
  <2>2. /\ InRows(S) = Of(S, "credit") \cup Of(S, "recoup")
        /\ OutRows(S) = Of(S, "withdraw") \cup Of(S, "close")
    BY DEF InRows, OutRows, Of
  <2>3. Of(S, "credit") \cap Of(S, "recoup") = {} /\ Of(S, "withdraw") \cap Of(S, "close") = {}
    BY DEF Of
  <2> QED
    BY <1>5, <1>6, <1>7, <1>8, <2>1, <2>2, <2>3 DEF AuditedIn, AuditedOut
<1>12. /\ InRows(S) \subseteq Committed /\ OutRows(S) \subseteq Committed
       /\ InRows(S) \subseteq plan /\ OutRows(S) \subseteq plan
       /\ \A o \in InRows(S) \cup OutRows(S) :
             row[o].amt \in Nat /\ ReserveOf(o) \in Reserves
  BY CommittedInPlan DEF InRows, OutRows, BalanceInv
<1> HIDE DEF S, ins, recoups, outs, closed, in, out
<1>13. touched \subseteq Reserves /\ IsFiniteSet(touched)
  <2>1. touched \subseteq Reserves
    BY <1>11, <1>12 DEF ReservesOf
  <2> QED
    BY <2>1, BooksAssumption, FS_Subset
<1>14. ASSUME NEW r
       PROVE  /\ Total(At(r, InRows(S))) = Total(At(r, AuditedIn)) + Total(At(r, in))
              /\ Total(At(r, OutRows(S))) = Total(At(r, AuditedOut)) + Total(At(r, out))
              /\ Total(At(r, in)) \in Nat /\ Total(At(r, out)) \in Nat
              /\ Total(At(r, AuditedIn)) \in Nat /\ Total(At(r, AuditedOut)) \in Nat
  <2>1. /\ At(r, InRows(S)) = At(r, AuditedIn) \cup At(r, in)
        /\ At(r, OutRows(S)) = At(r, AuditedOut) \cup At(r, out)
        /\ At(r, AuditedIn) \cap At(r, in) = {} /\ At(r, AuditedOut) \cap At(r, out) = {}
        /\ At(r, AuditedIn) \subseteq plan /\ At(r, in) \subseteq plan
        /\ At(r, AuditedOut) \subseteq plan /\ At(r, out) \subseteq plan
    BY <1>11, <1>12 DEF At
  <2>2. \A o \in At(r, AuditedIn) \cup At(r, in) \cup At(r, AuditedOut) \cup At(r, out) :
           row[o].amt \in Nat
    BY <1>11, <1>12 DEF At
  <2>3. /\ Total(At(r, AuditedIn) \cup At(r, in)) = Total(At(r, AuditedIn)) + Total(At(r, in))
        /\ Total(At(r, AuditedOut) \cup At(r, out))
             = Total(At(r, AuditedOut)) + Total(At(r, out))
    BY <2>1, TotalUnion
  <2>4. /\ Total(At(r, in)) \in Nat /\ Total(At(r, out)) \in Nat
        /\ Total(At(r, AuditedIn)) \in Nat /\ Total(At(r, AuditedOut)) \in Nat
    BY <2>1, <2>2, TotalNat
  <2> QED
    BY <2>1, <2>3, <2>4
<1> DEFINE I(r) == Total(At(r, in))
           O(r) == Total(At(r, out))
           b(r) == rinfo[r].balance
           new(r) == b(r) + I(r) - O(r)
<1>15. \A r \in Reserves : b(r) \in Nat /\ I(r) \in Nat /\ O(r) \in Nat
  BY <1>14 DEF ReserveAuditInv
<1>16. ASSUME NEW r \in Reserves
       PROVE  /\ rinfo'[r].balance \in Nat
              /\ new(r) >= 0 => rinfo'[r].balance = new(r)
  <2>1. CASE r \notin touched
    <3>1. At(r, in) = {} /\ At(r, out) = {}
      BY <2>1 DEF At, ReservesOf
    <3>2. I(r) = 0 /\ O(r) = 0
      BY <3>1, SumEmpty DEF Total
    <3>3. rinfo'[r] = rinfo[r]
      BY <1>1, <2>1
    <3> HIDE DEF I, O
    <3> QED
      BY <1>15, <3>2, <3>3
  <2>2. CASE r \in touched
    <3>1. rinfo'[r] = InfoAfter(r, in, out)
      BY <1>1, <2>2
    <3>2. NewBalance(r, in, out) = Max({0, b(r) + I(r) - O(r)})
      BY DEF NewBalance
    <3>3. b(r) + I(r) - O(r) \in Int /\ b(r) + I(r) - O(r) = new(r)
      <4> HIDE DEF b, I, O
      <4> QED
        BY <1>15
    <3>4. /\ NewBalance(r, in, out) \in Nat
          /\ new(r) >= 0 => NewBalance(r, in, out) = new(r)
      <4> HIDE DEF new, b, I, O
      <4> QED
        BY <3>2, <3>3, MaxZero
    <3>5. CASE b(r) + I(r) = 0
      <4>1. rinfo'[r].balance = 0
        BY <3>1, <3>5 DEF InfoAfter, NoInfo
      <4>2. new(r) >= 0 => new(r) = 0
        <5> HIDE DEF b, I, O
        <5> QED
          BY <1>15, <3>5
      <4> QED
        BY <4>1, <4>2
    <3>6. CASE b(r) + I(r) # 0
      <4>1. rinfo'[r].balance = NewBalance(r, in, out)
        BY <3>1, <3>6 DEF InfoAfter
      <4> QED
        BY <3>4, <4>1
    <3> QED
      BY <3>5, <3>6
  <2> QED
    BY <2>1, <2>2
<1>17. ASSUME NEW r \in Reserves
       PROVE  /\ Total(At(r, AuditedIn))' = Total(At(r, InRows(S)))
              /\ Total(At(r, AuditedOut))' = Total(At(r, OutRows(S)))
              /\ At(r, AuditedOut)' = At(r, OutRows(S))
  <2>1. \A o : ReserveOf(o)' = ReserveOf(o)
    BY ONLY <1>2 DEF ReserveOf, WithdrawalOf, Of
  <2>2. AmountIn' = AmountIn
    BY <1>2 DEF AmountIn
  <2>3. At(r, AuditedIn)' = At(r, InRows(S)) /\ At(r, AuditedOut)' = At(r, OutRows(S))
    BY <1>10, <2>1 DEF At
  <2> QED
    BY <2>2, <2>3 DEF Total
<1>18. ASSUME NEW r \in Reserves, ~Suspect(r)
       PROVE  /\ new(r) = Total(At(r, InRows(S))) - Total(At(r, OutRows(S)))
  <2>1. b(r) = Total(At(r, AuditedIn)) - Total(At(r, AuditedOut))
    BY <1>18 DEF ReserveAuditInv
  <2> HIDE DEF b
  <2> QED
    BY <1>14, <1>15, <2>1
<1>19. ASSUME NEW r \in Reserves
       PROVE  LET D == {o \in OutRows(S) : ~Op[o].honest}
              IN /\ Total(At(r, OutRows(S))) = Total(At(r, TakenRows(S))) + Total(At(r, D))
                 /\ Total(At(r, D)) \in Nat /\ Total(At(r, TakenRows(S))) \in Nat
                 /\ At(r, D) # {} => Total(At(r, D)) > 0
                 /\ reserve[r].balance = Total(At(r, InRows(S))) - Total(At(r, TakenRows(S)))
                 /\ reserve[r].balance \in Nat
  <2> DEFINE D == {o \in OutRows(S) : ~Op[o].honest}
  <2>1. /\ At(r, OutRows(S)) = At(r, TakenRows(S)) \cup At(r, D)
        /\ At(r, TakenRows(S)) \cap At(r, D) = {}
        /\ At(r, TakenRows(S)) \subseteq plan /\ At(r, D) \subseteq plan
    BY <1>12 DEF At, TakenRows
  <2>2. /\ \A o \in At(r, D) : row[o].amt \in Nat /\ row[o].amt > 0
        /\ \A o \in At(r, TakenRows(S)) : row[o].amt \in Nat
    <3>1. \A o \in At(r, D) : Op[o].kind = "withdraw" /\ o \in Numbered
      BY <1>12, CommittedInPlan DEF RowsInv, At, OutRows
    <3> QED
      BY <1>12, <3>1 DEF BalanceInv, At, TakenRows
  <2>3. Total(At(r, OutRows(S))) = Total(At(r, TakenRows(S))) + Total(At(r, D))
    <3> HIDE DEF D
    <3>1. Total(At(r, TakenRows(S)) \cup At(r, D)) = Total(At(r, TakenRows(S))) + Total(At(r, D))
      BY <2>1, TotalUnion
    <3> QED
      BY <2>1, <3>1
  <2>4. /\ Total(At(r, D)) \in Nat /\ Total(At(r, TakenRows(S))) \in Nat
        /\ \A o \in At(r, D) : row[o].amt <= Total(At(r, D))
    <3> HIDE DEF D
    <3> QED
      BY <2>1, <2>2, TotalNat
  <2>5. At(r, D) # {} => Total(At(r, D)) > 0
    <3> HIDE DEF D
    <3> QED
      BY <2>2, <2>4
  <2>6. /\ reserve[r].balance = Total(At(r, InRows(S))) - Total(At(r, TakenRows(S)))
        /\ reserve[r].balance \in Nat
    BY DEF BalanceInv, S
  <2> QED
    BY <2>3, <2>4, <2>5, <2>6
<1>20. ASSUME NEW r \in Reserves, ~Suspect(r)'
       PROVE  /\ rinfo'[r].balance = Total(At(r, AuditedIn))' - Total(At(r, AuditedOut))'
              /\ \A o \in At(r, AuditedOut)' : Op[o].honest
  <2>0. ~Suspect(r)
    BY <1>1, <1>20 DEF Suspect
  <2>1. new(r) = Total(At(r, InRows(S))) - Total(At(r, OutRows(S)))
    BY <1>18, <2>0
  <2>2. CASE r \in touched
    <3>1. ~InsufficientBalance(r, in, out) /\ ~SummaryWrong(r, in, out)
      BY <1>1, <1>20, <2>2
    <3>2. new(r) >= 0
      <4>1. ~(b(r) + I(r) < O(r))
        BY <3>1 DEF InsufficientBalance
      <4> HIDE DEF b, I, O
      <4> QED
        BY <1>15, <4>1
    <3>3. rinfo'[r].balance = new(r)
      BY <1>16, <3>2
    <3>4. NewBalance(r, in, out) = new(r)
      <4>1. NewBalance(r, in, out) = Max({0, b(r) + I(r) - O(r)})
        BY DEF NewBalance
      <4>2. b(r) + I(r) - O(r) \in Int /\ b(r) + I(r) - O(r) = new(r)
        <5> HIDE DEF b, I, O
        <5> QED
          BY <1>15
      <4> HIDE DEF new, b, I, O
      <4> QED
        BY <3>2, <4>1, <4>2, MaxZero
    <3>5. reserve[r].balance = new(r)
      BY <3>1, <3>4 DEF SummaryWrong
    <3> DEFINE D == {o \in OutRows(S) : ~Op[o].honest}
    <3>6. At(r, D) = {}
      <4>1. /\ Total(At(r, OutRows(S))) = Total(At(r, TakenRows(S))) + Total(At(r, D))
            /\ Total(At(r, D)) \in Nat /\ Total(At(r, TakenRows(S))) \in Nat
            /\ At(r, D) # {} => Total(At(r, D)) > 0
            /\ reserve[r].balance = Total(At(r, InRows(S))) - Total(At(r, TakenRows(S)))
        BY <1>19
      <4>2. Total(At(r, InRows(S))) \in Nat
        BY <1>14
      <4> HIDE DEF D, new
      <4> QED
        BY <2>1, <3>5, <4>1, <4>2
    <3>7. \A o \in At(r, OutRows(S)) : Op[o].honest
      BY <3>6 DEF At
    <3> HIDE DEF new
    <3> QED
      BY <1>17, <2>1, <3>3, <3>7
  <2>3. CASE r \notin touched
    <3>1. At(r, in) = {} /\ At(r, out) = {}
      BY <2>3 DEF At, ReservesOf
    <3>2. I(r) = 0 /\ O(r) = 0
      BY <3>1, SumEmpty DEF Total
    <3>3. rinfo'[r] = rinfo[r]
      BY <1>1, <2>3
    <3>4. At(r, OutRows(S)) = At(r, AuditedOut)
      BY <1>11, <3>1 DEF At
    <3>5. \A o \in At(r, AuditedOut) : Op[o].honest
      BY <2>0 DEF ReserveAuditInv
    <3>6. new(r) = rinfo[r].balance
      <4>1. b(r) = rinfo[r].balance
        OBVIOUS
      <4> HIDE DEF b, I, O
      <4> QED
        BY <1>15, <3>2, <4>1
    <3> HIDE DEF new
    <3> QED
      BY <1>17, <2>1, <3>3, <3>4, <3>5, <3>6
  <2> QED
    BY <2>2, <2>3
<1>21. ASSUME Honest
       PROVE  /\ \A r \in Reserves : ~Suspect(r)'
              /\ \A r \in Reserves : new(r) >= 0 /\ rinfo'[r].balance = new(r)
  <2>1. ASSUME NEW r \in Reserves
        PROVE  new(r) = reserve[r].balance /\ new(r) >= 0
    <3>1. ~Suspect(r)
      BY <1>21 DEF ReserveAuditInv
    <3>2. new(r) = Total(At(r, InRows(S))) - Total(At(r, OutRows(S)))
      BY <1>18, <3>1
    <3>3. OutRows(S) = TakenRows(S)
      BY <1>12, <1>21 DEF Honest, TakenRows, OutRows
    <3>4. /\ reserve[r].balance = Total(At(r, InRows(S))) - Total(At(r, TakenRows(S)))
          /\ reserve[r].balance \in Nat
      BY <1>19
    <3> HIDE DEF new
    <3> QED
      BY <3>2, <3>3, <3>4
  <2>2. ASSUME NEW r \in Reserves
        PROVE  ~InsufficientBalance(r, in, out) /\ ~SummaryWrong(r, in, out)
    <3>1. new(r) = reserve[r].balance /\ new(r) >= 0
      BY <2>1
    <3>2. ~(b(r) + I(r) < O(r))
      <4> HIDE DEF b, I, O
      <4> QED
        BY <1>15, <3>1
    <3>3. NewBalance(r, in, out) = new(r)
      <4>1. NewBalance(r, in, out) = Max({0, b(r) + I(r) - O(r)})
        BY DEF NewBalance
      <4>2. b(r) + I(r) - O(r) \in Int /\ b(r) + I(r) - O(r) = new(r)
        <5> HIDE DEF b, I, O
        <5> QED
          BY <1>15
      <4> HIDE DEF new, b, I, O
      <4> QED
        BY <3>1, <4>1, <4>2, MaxZero
    <3> QED
      BY <3>1, <3>2, <3>3 DEF InsufficientBalance, SummaryWrong
  <2>3. ASSUME NEW r \in Reserves PROVE ~Suspect(r)'
    <3>1. ~Suspect(r)
      BY <1>21 DEF ReserveAuditInv
    <3>2. /\ <<"insufficient balance", r>>[1] = "insufficient balance"
          /\ <<"insufficient balance", r>>[2] = r
          /\ <<"reserve balance", r>>[1] = "reserve balance"
          /\ <<"reserve balance", r>>[2] = r
      OBVIOUS
    <3>3. /\ <<"insufficient balance", r>> \notin alarms' \ alarms
          /\ <<"reserve balance", r>> \notin alarms' \ alarms
      BY <1>1, <2>2, <3>2
    <3> QED
      BY <3>1, <3>3 DEF Suspect
  <2> HIDE DEF new
  <2> QED
    BY <1>16, <2>1, <2>3
<1>22. ASSUME Honest
       PROVE  rsum'.escrow = SumFunctionOnSet(Balances', Reserves)
  <2> DEFINE d == [r \in touched |-> I(r) - O(r)]
             f(s) == [r \in Reserves |-> IF r \in s THEN Balances[r] + d[r] ELSE Balances[r]]
             Sum == SumFunctionOnSet(Balances, Reserves)
  <2>1. /\ \A r \in Reserves : Balances[r] \in Int /\ Balances[r] = b(r)
        /\ \A r \in touched : d[r] \in Int /\ d[r] = I(r) - O(r)
    <3>1. \A r \in Reserves : Balances[r] = b(r)
      BY DEF Balances
    <3>2. \A r \in touched : d[r] = I(r) - O(r)
      OBVIOUS
    <3> HIDE DEF b, d, I, O, touched
    <3> QED
      BY <1>13, <1>15, <3>1, <3>2
  <2>2. IsFiniteSet(Reserves)
    BY BooksAssumption
  <2>3. Sum \in Int
    <3>1. \A r \in Reserves : Balances[r] \in Int
      BY <2>1
    <3> QED
      BY ONLY <2>2, <3>1, SumInt
  <2>4. ASSUME NEW s \in SUBSET touched
        PROVE  /\ SumFunctionOnSet(f(s), Reserves) = Sum + SumFunctionOnSet(d, s)
               /\ SumFunctionOnSet(f(s), Reserves) >= 0
    <3> DEFINE c == f(s)
    <3>1. /\ s \in SUBSET Reserves /\ \A k \in s : d[k] \in Int
          /\ \A k \in Reserves : Balances[k] \in Int
          /\ \A k \in Reserves : c[k] = IF k \in s THEN Balances[k] + d[k] ELSE Balances[k]
      <4>1. s \in SUBSET Reserves
        BY <1>13
      <4>2. \A k \in s : d[k] \in Int
        <5> HIDE DEF d
        <5> QED
          BY <2>1
      <4> HIDE DEF d
      <4> QED
        BY <2>1, <4>1, <4>2
    <3>2. SumFunctionOnSet(c, Reserves) = Sum + SumFunctionOnSet(d, s)
      <4> HIDE DEF c, d
      <4> QED
        BY ONLY <2>2, <3>1, SumShift
    <3>3. \A k \in Reserves : c[k] \in Nat
      <4> TAKE k \in Reserves
      <4>1. CASE k \in s
        <5>1. c[k] = b(k) + (I(k) - O(k)) /\ new(k) >= 0
          <6>1. d[k] = I(k) - O(k)
            BY <2>1, <4>1
          <6>2. Balances[k] = b(k)
            BY <2>1
          <6> HIDE DEF d, b, c, I, O
          <6> QED
            BY <1>21, <1>22, <3>1, <4>1, <6>1, <6>2
        <5> HIDE DEF b, c, I, O
        <5> QED
          BY <1>15, <5>1
      <4>2. CASE k \notin s
        <5>1. c[k] = b(k)
          BY <2>1, <4>2
        <5> QED
          BY <1>15, <5>1
      <4> QED
        BY <4>1, <4>2
    <3>4. SumFunctionOnSet(c, Reserves) \in Nat
      <4> HIDE DEF c
      <4> QED
        BY ONLY <2>2, <3>3, SumNat
    <3> QED
      BY <3>2, <3>4
  <2>5. rsum.escrow = Sum
    BY <1>22 DEF ReserveAuditInv
  <2>6. FoldFunctionOnSet(Clipped, Sum, d, touched) = Sum + SumFunctionOnSet(d, touched)
    <3>1. \A s \in SUBSET touched : Sum + SumFunctionOnSet(d, s) >= 0
      <4> HIDE DEF Sum, d, touched, f
      <4> QED
        BY <2>4
    <3>2. \A r \in touched : d[r] \in Int
      BY <2>1
    <3> HIDE DEF Sum, d, touched
    <3> QED
      BY ONLY <1>13, <2>3, <3>1, <3>2, ClippedSum
  <2>7. rsum'.escrow = FoldFunctionOnSet(Clipped, Sum, d, touched)
    BY <1>1, <2>5 DEF EscrowAfter
  <2>8. SumFunctionOnSet(f(touched), Reserves) = SumFunctionOnSet(Balances', Reserves)
    <3>1. \A k \in Reserves : Balances'[k] = new(k)
      <4>1. \A k \in Reserves : Balances'[k] = rinfo'[k].balance
        BY DEF Balances
      <4> HIDE DEF new
      <4> QED
        BY <1>21, <1>22, <4>1
    <3>2. \A k \in Reserves : f(touched)[k] \in Int /\ f(touched)[k] = new(k)
      <4> TAKE k \in Reserves
      <4>1. CASE k \in touched
        <5>1. f(touched)[k] = b(k) + (I(k) - O(k))
          <6>1. d[k] = I(k) - O(k)
            BY <2>1, <4>1
          <6>2. Balances[k] = b(k)
            BY <2>1
          <6> HIDE DEF d, b, I, O
          <6> QED
            BY <4>1, <6>1, <6>2
        <5> HIDE DEF b, I, O, f
        <5> QED
          BY <1>15, <5>1
      <4>2. CASE k \notin touched
        <5>1. At(k, in) = {} /\ At(k, out) = {}
          BY <4>2 DEF At, ReservesOf
        <5>2. I(k) = 0 /\ O(k) = 0
          BY <5>1, SumEmpty DEF Total
        <5>3. f(touched)[k] = b(k)
          BY <2>1, <4>2
        <5> HIDE DEF b, I, O, f
        <5> QED
          BY <1>15, <5>2, <5>3
      <4> QED
        BY <4>1, <4>2
    <3>3. \A k \in Reserves : f(touched)[k] \in Int /\ f(touched)[k] = Balances'[k]
      <4> HIDE DEF f, new
      <4> QED
        BY <3>1, <3>2
    <3> HIDE DEF f
    <3> QED
      BY ONLY <2>2, <3>3, SumEqual
  <2>9. SumFunctionOnSet(f(touched), Reserves) = Sum + SumFunctionOnSet(d, touched)
    <3>1. touched \in SUBSET touched
      OBVIOUS
    <3> HIDE DEF f, d, Sum, touched
    <3> QED
      BY <2>4, <3>1
  <2> HIDE DEF f, d, Sum
  <2> QED
    BY <2>6, <2>7, <2>8, <2>9
<1>23. ASSUME Honest
       PROVE  rsum'.fees = FeesOut(AuditedOut)'
  <2>1. rsum'.fees = rsum.fees + FeesOut(out)
    BY <1>1
  <2>2. rsum.fees = FeesOut(AuditedOut)
    BY <1>23 DEF ReserveAuditInv
  <2>3. FeesOut(AuditedOut \cup out) = FeesOut(AuditedOut) + FeesOut(out)
    BY <1>11, <1>12, TotalUnion
  <2>4. FeeIn' = FeeIn
    BY <1>2 DEF FeeIn
  <2>5. FeesOut(AuditedOut)' = FeesOut(OutRows(S))
    BY <1>10, <2>4 DEF FeesOut
  <2> QED
    BY <1>11, <2>1, <2>2, <2>3, <2>5
<1>24. Honest' = Honest
  BY <1>2 DEF Honest
<1> QED
  BY <1>9, <1>16, <1>20, <1>21, <1>22, <1>23, <1>24 DEF ReserveAuditInv

(* Before the first audit nothing was audited.                             *)
LEMMA InitReserveAudit == Init /\ RowsInv => ReserveAuditInv
PROOF
<1> SUFFICES ASSUME Init, RowsInv PROVE ReserveAuditInv
  OBVIOUS
<1>1. /\ ppr.in = 1 /\ ppr.out = 1 /\ ppr.recoup = 1 /\ ppr.close = 1
      /\ \A r \in Reserves : rinfo[r].balance = 0
      /\ rsum.escrow = 0 /\ rsum.fees = 0
      /\ alarms = {}
  BY DEF Init, AuditReservesInit, LibInit, NoInfo
<1>2. AuditedIn = {} /\ AuditedOut = {}
  BY <1>1, FirstMark DEF AuditedIn, AuditedOut
<1>3. /\ MarkOK("credit", ppr.in) /\ MarkOK("recoup", ppr.recoup)
      /\ MarkOK("withdraw", ppr.out) /\ MarkOK("close", ppr.close)
  BY <1>1, FirstMark
<1>4. \A r : At(r, AuditedIn) = {} /\ At(r, AuditedOut) = {}
  BY <1>2 DEF At
<1>5. Total({}) = 0 /\ FeesOut({}) = 0
  BY SumEmpty DEF Total, FeesOut
<1>6. SumFunctionOnSet(Balances, Reserves) = 0
  <2>1. \A r \in Reserves : Balances[r] = 0
    BY <1>1 DEF Balances
  <2>2. IsFiniteSet(Reserves)
    BY BooksAssumption
  <2> QED
    BY ONLY <2>1, <2>2, SumZero
<1>7. \A r : ~Suspect(r)
  BY <1>1 DEF Suspect
<1>8. \A r \in Reserves :
          /\ rinfo[r].balance = Total(At(r, AuditedIn)) - Total(At(r, AuditedOut))
          /\ \A o \in At(r, AuditedOut) : Op[o].honest
  BY <1>1, <1>4, <1>5
<1> QED
  BY <1>1, <1>2, <1>3, <1>5, <1>6, <1>7, <1>8 DEF ReserveAuditInv

(* Every step keeps the balances of the audit right.                       *)
LEMMA NextReserveAudit ==
    ASSUME RowsInv, BalanceInv, ReserveAuditInv, MaxOpen = 1, [Next]_vars
    PROVE  ReserveAuditInv'
PROOF
<1> DEFINE two == {"insufficient balance", "reserve balance"}
<1>1. ASSUME NEW K, K \cap two = {}, Adds(K), UNCHANGED reserveAuditVars
      PROVE  ReserveAuditInv'
  <2>1. \A a \in alarms' \ alarms : a[1] \notin {"insufficient balance", "reserve balance"}
    BY <1>1 DEF Adds
  <2>2. alarms \subseteq alarms'
    BY <1>1 DEF Adds
  <2> QED
    BY <1>1, <2>1, <2>2, OthersReserveAudit
<1>2. CASE Reserves_
  BY <1>2, AuditReserveAudit
<1>3. CASE Coins_
  <2>1. CoinAlarms \cap two = {} /\ UNCHANGED reserveAuditVars
    BY <1>3 DEF CoinAlarms, Coins_
  <2> QED
    BY <1>1, <1>3, <2>1, CoinAdds
<1>4. CASE Aggregation_
  <2>1. AggregationAlarms \cap two = {} /\ UNCHANGED reserveAuditVars
    BY <1>4 DEF AggregationAlarms, Aggregation_
  <2> QED
    BY <1>1, <1>4, <2>1, AggregationAdds
<1>5. CASE Deposits_
  <2>1. {"deposit missing"} \cap two = {} /\ UNCHANGED reserveAuditVars
    BY <1>5 DEF Deposits_
  <2> QED
    BY <1>1, <1>5, <2>1, DepositAdds
<1>6. CASE Wire_
  <2>1. AllWireAlarms \cap two = {} /\ UNCHANGED reserveAuditVars
    BY <1>6 DEF AllWireAlarms, WireAlarms, Wire_
  <2> QED
    BY <1>1, <1>6, <2>1, WireAdds
<1>7. CASE Exchange \/ (\E o \in plan : Confirm(o)) \/ Fails \/ UNCHANGED vars
  <2>1. {} \cap two = {} /\ UNCHANGED reserveAuditVars
    BY <1>7 DEF Exchange, Confirm, Fails, vars, auditorVars
  <2> QED
    BY <1>1, <1>7, <2>1, OtherAdds
<1> QED
  BY <1>2, <1>3, <1>4, <1>5, <1>6, <1>7 DEF Next

(* The balances of all reserves add up to the amounts of all rows.         *)
LEMMA EscrowTotal ==
    ASSUME RowsInv, NEW T, T \subseteq plan, \A o \in T : ReserveOf(o) \in Reserves
    PROVE  Total(T) = SumFunctionOnSet([r \in Reserves |-> Total(At(r, T))], Reserves)
PROOF
<1> DEFINE g == [o \in T |-> ReserveOf(o)]
           h == [r \in Reserves |-> SumFunctionOnSet(AmountIn, {o \in T : g[o] = r})]
<1>1. IsFiniteSet(T) /\ IsFiniteSet(Reserves)
  BY TotalInt, BooksAssumption
<1>2. \A o \in T : AmountIn[o] \in Int /\ g[o] \in Reserves
  BY DEF RowsInv, AmountIn
<1>3. SumFunctionOnSet(AmountIn, T) = SumFunctionOnSet(h, Reserves)
  <2> HIDE DEF g
  <2> QED
    BY ONLY <1>1, <1>2, SumByKey
<1>4. \A r : {o \in T : g[o] = r} = At(r, T)
  BY DEF At
<1>5. h = [r \in Reserves |-> Total(At(r, T))]
  <2> HIDE DEF g
  <2> QED
    BY <1>4 DEF Total
<1> QED
  BY <1>3, <1>5 DEF Total

(* The invariant implies the property.                                     *)
LEMMA ReserveAuditAgrees == RowsInv /\ BalanceInv /\ ReserveAuditInv => ReserveBooksAgree
PROOF
<1> SUFFICES ASSUME RowsInv, BalanceInv, ReserveAuditInv, Honest
             PROVE  LET T == AuditedReserveRows
                        in == {o \in T : Op[o].kind \in {"credit", "recoup"}}
                        out == T \ in
                    IN /\ \A r \in Reserves :
                             rinfo[r].balance = Total(At(r, in)) - Total(At(r, out))
                       /\ rsum.escrow = Total(in) - Total(out)
                       /\ rsum.fees = FeesOut(out)
  BY DEF ReserveBooksAgree
<1> DEFINE T == AuditedReserveRows
           in == {o \in T : Op[o].kind \in {"credit", "recoup"}}
           out == T \ in
<1>1. in = AuditedIn /\ out = AuditedOut
  <2> DEFINE mark == [credit |-> ppr.in, withdraw |-> ppr.out, recoup |-> ppr.recoup,
                      close |-> ppr.close]
  <2>1. /\ DOMAIN mark = {"credit", "withdraw", "recoup", "close"}
        /\ mark["credit"] = ppr.in /\ mark["withdraw"] = ppr.out
        /\ mark["recoup"] = ppr.recoup /\ mark["close"] = ppr.close
    OBVIOUS
  <2>2. T = {o \in plan : /\ Op[o].kind \in DOMAIN mark
                          /\ row[o].id \in 1..(mark[Op[o].kind] - 1)}
    BY DEF AuditedReserveRows
  <2> HIDE DEF mark, T
  <2>3. \A o \in plan : /\ o \in in <=> o \in AuditedIn
                        /\ o \in out <=> o \in AuditedOut
    BY <2>1, <2>2 DEF AuditedIn, AuditedOut, Passed, Of
  <2>4. in \subseteq plan /\ out \subseteq plan
        /\ AuditedIn \subseteq plan /\ AuditedOut \subseteq plan
    BY <2>2 DEF AuditedIn, AuditedOut, Passed, Of
  <2> QED
    BY <2>3, <2>4
<1>2. \A r \in Reserves :
         rinfo[r].balance = Total(At(r, AuditedIn)) - Total(At(r, AuditedOut))
  BY DEF ReserveAuditInv
<1>3. /\ AuditedIn \subseteq plan /\ AuditedOut \subseteq plan
      /\ \A o \in AuditedIn \cup AuditedOut : ReserveOf(o) \in Reserves
  <2>1. AuditedIn \subseteq Committed /\ AuditedOut \subseteq Committed
    BY DEF ReserveAuditInv, MarkOK, AuditedIn, AuditedOut
  <2>2. \A o \in AuditedIn \cup AuditedOut :
           Op[o].kind \in {"credit", "recoup", "withdraw", "close"}
    BY DEF AuditedIn, AuditedOut, Passed, Of
  <2> QED
    BY <2>1, <2>2, CommittedInPlan DEF BalanceInv
<1> DEFINE fi == [r \in Reserves |-> Total(At(r, AuditedIn))]
           fo == [r \in Reserves |-> Total(At(r, AuditedOut))]
<1>4. Total(AuditedIn) = SumFunctionOnSet(fi, Reserves)
  BY <1>3, EscrowTotal
<1>5. Total(AuditedOut) = SumFunctionOnSet(fo, Reserves)
  BY <1>3, EscrowTotal
<1>6. /\ \A r \in Reserves : fi[r] \in Int /\ fo[r] \in Int
      /\ \A r \in Reserves : Balances[r] = fi[r] - fo[r]
  <2>1. \A r \in Reserves : At(r, AuditedIn) \subseteq plan /\ At(r, AuditedOut) \subseteq plan
    BY <1>3 DEF At
  <2>2. \A r \in Reserves : Total(At(r, AuditedIn)) \in Int /\ Total(At(r, AuditedOut)) \in Int
    BY <2>1, TotalInt
  <2> QED
    BY <1>2, <2>2 DEF Balances
<1>7. \A r \in Reserves : /\ Balances[r] \in Int /\ fo[r] \in Int
                          /\ fi[r] = Balances[r] + fo[r]
  <2> HIDE DEF fi, fo
  <2> QED
    BY <1>6
<1>8. IsFiniteSet(Reserves)
  BY BooksAssumption
<1> HIDE DEF fi, fo
<1>9. SumFunctionOnSet(fi, Reserves)
        = SumFunctionOnSet(Balances, Reserves) + SumFunctionOnSet(fo, Reserves)
  BY ONLY <1>7, <1>8, SumPlus
<1>10. SumFunctionOnSet(Balances, Reserves) \in Int /\ SumFunctionOnSet(fo, Reserves) \in Int
  <2>1. \A r \in Reserves : Balances[r] \in Int
    BY <1>7
  <2>2. \A r \in Reserves : fo[r] \in Int
    BY <1>7
  <2>3. SumFunctionOnSet(Balances, Reserves) \in Int
    BY ONLY <1>8, <2>1, SumInt
  <2>4. SumFunctionOnSet(fo, Reserves) \in Int
    BY ONLY <1>8, <2>2, SumInt
  <2> QED
    BY <2>3, <2>4
<1>11. rsum.escrow = SumFunctionOnSet(Balances, Reserves) /\ rsum.fees = FeesOut(AuditedOut)
  BY DEF ReserveAuditInv
<1>12. rsum.escrow = Total(AuditedIn) - Total(AuditedOut)
  BY <1>4, <1>5, <1>9, <1>10, <1>11
<1> QED
  BY <1>1, <1>2, <1>11, <1>12

(* With one open transaction at a time the balances, the escrow and the    *)
(* fees that analyze_reserves carries from audit to audit are what all the *)
(* rows below its marks add up to, whatever the exchange does between the  *)
(* audits.                                                                 *)
THEOREM ReserveBooksAlwaysAgree == ASSUME MaxOpen = 1 PROVE Spec => []ReserveBooksAgree
PROOF
<1> DEFINE Inv == RowsInv /\ BalanceInv /\ ReserveAuditInv
<1>1. Init => Inv
  BY InitBooks, InitReserveAudit
<1>2. Inv /\ [Next]_vars => Inv'
  BY NextBooks, NextReserveAudit
<1>3. Inv => ReserveBooksAgree
  BY ReserveAuditAgrees
<1> QED
  BY <1>1, <1>2, <1>3, PTL DEF Spec

---------------------------------------------------------------------------
(* The fields of the wire helper.                                          *)

\* The fields of the wire helper's records.
IsProgress(q) == DOMAIN q = {"in", "out", "in_off", "out_off"}
IsPoint(p) ==
    /\ DOMAIN p = {"account", "close", "time"}
    /\ DOMAIN p.account = Accounts
    /\ \A a \in Accounts : IsProgress(p.account[a])
IsWire(v) ==
    /\ DOMAIN v = {"phase", "pp", "snap", "todo", "in_map", "closures"}
    /\ IsPoint(v.pp)
WireShape ==
    /\ IsPoint(wpp) /\ IsWire(w)
    /\ w.phase \in {"idle", "credits", "debits", "conclude"}
    /\ w.phase \in {"credits", "debits"} => w.todo \in Seq(Accounts) /\ w.todo # <<>>

(* The helper's variables after the debits of an account.                  *)
WithDebits(v, a, n, l, C) ==
    [v EXCEPT !.closures = C, !.pp.account[a].out = n, !.pp.account[a].out_off = l]
(* The fields of that record.                                              *)
LEMMA DebitsRecord ==
    ASSUME NEW v, NEW a \in Accounts, NEW n, NEW l, NEW C, IsWire(v), NEW U,
           U = WithDebits(v, a, n, l, C)
    PROVE     /\ IsWire(U)
              /\ U.phase = v.phase /\ U.snap = v.snap /\ U.todo = v.todo
              /\ U.in_map = v.in_map
              /\ U.closures = C /\ U.pp.close = v.pp.close /\ U.pp.time = v.pp.time
              /\ \A b \in Accounts \ {a} : U.pp.account[b] = v.pp.account[b]
              /\ U.pp.account[a].in = v.pp.account[a].in
              /\ U.pp.account[a].in_off = v.pp.account[a].in_off
              /\ U.pp.account[a].out = n /\ U.pp.account[a].out_off = l
PROOF
<1> DEFINE u == [v EXCEPT !.closures = C, !.pp.account[a].out = n,
                          !.pp.account[a].out_off = l]
<1>u. U = u
  BY DEF WithDebits
<1>0. /\ DOMAIN v = {"phase", "pp", "snap", "todo", "in_map", "closures"}
      /\ DOMAIN v.pp = {"account", "close", "time"}
      /\ DOMAIN v.pp.account = Accounts
      /\ \A b \in Accounts : DOMAIN v.pp.account[b] = {"in", "out", "in_off", "out_off"}
  BY DEF IsWire, IsPoint, IsProgress
<1>1. DOMAIN v.pp.account[a] = {"in", "out", "in_off", "out_off"}
  BY <1>0
<1>2. /\ u.phase = v.phase /\ u.snap = v.snap /\ u.todo = v.todo
      /\ u.in_map = v.in_map /\ u.closures = C
  BY <1>0
<1>3. DOMAIN u = {"phase", "pp", "snap", "todo", "in_map", "closures"}
  BY <1>0
<1>4. u.pp.close = v.pp.close /\ u.pp.time = v.pp.time
  BY <1>0
<1>5. DOMAIN u.pp = {"account", "close", "time"}
  BY <1>0
<1>6. DOMAIN u.pp.account = Accounts
  BY <1>0
<1>7. \A b \in Accounts \ {a} : u.pp.account[b] = v.pp.account[b]
  BY <1>0
<1>8. u.pp.account[a] = [v.pp.account[a] EXCEPT !.out = n, !.out_off = l]
  BY <1>0, <1>1
<1> DEFINE q == u.pp.account[a]
<1>9. /\ q.in = v.pp.account[a].in /\ q.in_off = v.pp.account[a].in_off
      /\ q.out = n /\ q.out_off = l /\ DOMAIN q = {"in", "out", "in_off", "out_off"}
  <2> HIDE DEF q
  <2>1. q = [v.pp.account[a] EXCEPT !.out = n, !.out_off = l]
    BY <1>8 DEF q
  <2> QED
    BY ONLY <1>1, <2>1
<1> HIDE DEF u
<1>10. \A b \in Accounts : DOMAIN u.pp.account[b] = {"in", "out", "in_off", "out_off"}
  BY <1>0, <1>7, <1>9
<1> QED
  BY ONLY <1>u, <1>2, <1>3, <1>4, <1>5, <1>6, <1>7, <1>9, <1>10
     DEF IsWire, IsPoint, IsProgress, q

(* The helper's variables after the credits of an account.                 *)
WithCredits(v, a, n, l, M) ==
    [v EXCEPT !.in_map = M, !.pp.account[a].in = n, !.pp.account[a].in_off = l]
(* The fields of that record.                                              *)
LEMMA CreditsRecord ==
    ASSUME NEW v, NEW a \in Accounts, NEW n, NEW l, NEW M, IsWire(v), NEW U,
           U = WithCredits(v, a, n, l, M)
    PROVE     /\ IsWire(U)
              /\ U.phase = v.phase /\ U.snap = v.snap /\ U.todo = v.todo
              /\ U.in_map = M
              /\ U.closures = v.closures /\ U.pp.close = v.pp.close
              /\ U.pp.time = v.pp.time
              /\ \A b \in Accounts \ {a} : U.pp.account[b] = v.pp.account[b]
              /\ U.pp.account[a].in = n /\ U.pp.account[a].in_off = l
              /\ U.pp.account[a].out = v.pp.account[a].out
              /\ U.pp.account[a].out_off = v.pp.account[a].out_off
PROOF
<1> DEFINE u == [v EXCEPT !.in_map = M, !.pp.account[a].in = n,
                          !.pp.account[a].in_off = l]
<1>u. U = u
  BY DEF WithCredits
<1>0. /\ DOMAIN v = {"phase", "pp", "snap", "todo", "in_map", "closures"}
      /\ DOMAIN v.pp = {"account", "close", "time"}
      /\ DOMAIN v.pp.account = Accounts
      /\ \A b \in Accounts : DOMAIN v.pp.account[b] = {"in", "out", "in_off", "out_off"}
  BY DEF IsWire, IsPoint, IsProgress
<1>1. DOMAIN v.pp.account[a] = {"in", "out", "in_off", "out_off"}
  BY <1>0
<1>2. /\ u.phase = v.phase /\ u.snap = v.snap /\ u.todo = v.todo
      /\ u.in_map = M /\ u.closures = v.closures
  BY <1>0
<1>3. DOMAIN u = {"phase", "pp", "snap", "todo", "in_map", "closures"}
  BY <1>0
<1>4. u.pp.close = v.pp.close /\ u.pp.time = v.pp.time
  BY <1>0
<1>5. DOMAIN u.pp = {"account", "close", "time"}
  BY <1>0
<1>6. DOMAIN u.pp.account = Accounts
  BY <1>0
<1>7. \A b \in Accounts \ {a} : u.pp.account[b] = v.pp.account[b]
  BY <1>0
<1>8. u.pp.account[a] = [v.pp.account[a] EXCEPT !.in = n, !.in_off = l]
  BY <1>0, <1>1
<1> DEFINE q == u.pp.account[a]
<1>9. /\ q.in = n /\ q.in_off = l
      /\ q.out = v.pp.account[a].out /\ q.out_off = v.pp.account[a].out_off
      /\ DOMAIN q = {"in", "out", "in_off", "out_off"}
  <2> HIDE DEF q
  <2>1. q = [v.pp.account[a] EXCEPT !.in = n, !.in_off = l]
    BY <1>8 DEF q
  <2> QED
    BY ONLY <1>1, <2>1
<1> HIDE DEF u
<1>10. \A b \in Accounts : DOMAIN u.pp.account[b] = {"in", "out", "in_off", "out_off"}
  BY <1>0, <1>7, <1>9
<1> QED
  BY ONLY <1>u, <1>2, <1>3, <1>4, <1>5, <1>6, <1>7, <1>9, <1>10
     DEF IsWire, IsPoint, IsProgress, q

(* The helper goes on with the next account, or with the next phase.       *)
LEMMA NextAccountEffect ==
    ASSUME NEW v, NEW t, IsWire(v), v.todo = t,
           v.phase = "credits" \/ v.phase = "debits", t \in Seq(Accounts), t # <<>>,
           NEW n, n = NextAccount(v)
    PROVE     /\ IsWire(n) /\ n.pp = v.pp /\ n.snap = v.snap /\ n.in_map = v.in_map
              /\ n.closures = v.closures
              /\ \/ n.phase = v.phase /\ n.todo = Tail(t) /\ Tail(t) # <<>>
                 \/ /\ Len(t) = 1 /\ v.phase = "credits"
                    /\ n.phase = "debits" /\ n.todo = AccountList
                 \/ /\ Len(t) = 1 /\ v.phase = "debits"
                    /\ n.phase = "conclude" /\ n.todo = <<>>
PROOF
<1>0. PICK k \in Nat : k = Len(t) /\ k # 0
  OBVIOUS
<1>1. k > 1 \/ k = 1
  BY ONLY k \in Nat, <1>0
<1>d. DOMAIN v = {"phase", "pp", "snap", "todo", "in_map", "closures"}
  BY DEF IsWire
<1>2. CASE k > 1
  <2>2. n = [v EXCEPT !.todo = Tail(t)]
    BY <1>0, <1>2 DEF NextAccount
  <2>3. Len(Tail(t)) = k - 1 /\ Len(<<>>) = 0
    BY <1>0
  <2>4. Tail(t) # <<>>
    <3>1. SUFFICES ASSUME Tail(t) = <<>> PROVE FALSE
      OBVIOUS
    <3>2. k - 1 = 0
      BY ONLY <2>3, <3>1
    <3> QED
      BY ONLY k \in Nat, <1>2, <3>2
  <2> QED
    BY <1>d, <2>2, <2>4 DEF IsWire
<1>3. CASE k = 1 /\ v.phase = "credits"
  <2>0. Len(v.todo) = 1
    BY ONLY <1>0, <1>3, v.todo = t
  <2>1. ~(Len(v.todo) > 1)
    BY ONLY <2>0
  <2>2. n = [v EXCEPT !.phase = "debits", !.todo = AccountList]
    BY ONLY n = NextAccount(v), <1>3, <2>1 DEF NextAccount
  <2> QED
    BY <1>0, <1>3, <1>d, <2>2 DEF IsWire
<1>4. CASE k = 1 /\ v.phase = "debits"
  <2>0. Len(v.todo) = 1
    BY ONLY <1>0, <1>4, v.todo = t
  <2>1. ~(Len(v.todo) > 1)
    BY ONLY <2>0
  <2>2. n = [v EXCEPT !.phase = "conclude", !.todo = <<>>]
    BY ONLY n = NextAccount(v), <1>4, <2>1 DEF NextAccount
  <2> QED
    BY <1>0, <1>4, <1>d, <2>2 DEF IsWire
<1> QED
  BY <1>1, <1>2, <1>3, <1>4

(* process_debits for one account.                                         *)
LEMMA DebitsEffect ==
    ASSUME WireShape, ProcessDebits
    PROVE  LET a == Head(w.todo)
               p == w.pp.account[a]
               new == History(debits, a, p.out_off)
               out == {debits[i] : i \in new}
               rows == WireOutRows(a)
           IN /\ a \in Accounts /\ wpp' = wpp /\ w.phase = "debits"
              /\ w'.snap = w.snap /\ w'.in_map = w.in_map
              /\ w'.closures = w.closures
                                \ {o \in out \ rows : ExplainedBy(o, w.closures)}
              /\ w'.pp.close = w.pp.close /\ w'.pp.time = w.pp.time
              /\ \A b \in Accounts \ {a} : w'.pp.account[b] = w.pp.account[b]
              /\ w'.pp.account[a].in = p.in /\ w'.pp.account[a].in_off = p.in_off
              /\ w'.pp.account[a].out = MarkAfter(rows \cap out, p.out)
              /\ w'.pp.account[a].out_off = LastOf(new, p.out_off)
              /\ \/ w'.phase = "debits" /\ w'.todo = Tail(w.todo) /\ Tail(w.todo) # <<>>
                 \/ w'.phase = "conclude" /\ Len(w.todo) = 1
              /\ WireShape'
PROOF
<1> DEFINE a == Head(w.todo)
           p == w.pp.account[a]
           new == History(debits, a, p.out_off)
           out == {debits[i] : i \in new}
           rows == WireOutRows(a)
           C == w.closures \ {o \in out \ rows : ExplainedBy(o, w.closures)}
           n == MarkAfter(rows \cap out, p.out)
           l == LastOf(new, p.out_off)
           v == [w EXCEPT !.closures = C, !.pp.account[a].out = n,
                          !.pp.account[a].out_off = l]
<1>1. w' = NextAccount(v) /\ wpp' = wpp /\ w.phase = "debits"
  BY DEF ProcessDebits
<1>2. w.todo \in Seq(Accounts) /\ w.todo # <<>> /\ a \in Accounts /\ IsWire(w)
  <2>1. w.todo \in Seq(Accounts) /\ w.todo # <<>> /\ IsWire(w)
    BY ONLY <1>1, WireShape DEF WireShape
  <2>2. Head(w.todo) \in Accounts
    BY ONLY <2>1
  <2> QED
    BY <2>1, <2>2
<1> HIDE DEF C, n, l, new, out, rows
<1>3. /\ IsWire(v)
      /\ v.phase = w.phase /\ v.snap = w.snap /\ v.todo = w.todo /\ v.in_map = w.in_map
      /\ v.closures = C /\ v.pp.close = w.pp.close /\ v.pp.time = w.pp.time
      /\ \A b \in Accounts \ {a} : v.pp.account[b] = w.pp.account[b]
      /\ v.pp.account[a].in = p.in /\ v.pp.account[a].in_off = p.in_off
      /\ v.pp.account[a].out = n /\ v.pp.account[a].out_off = l
  <2> HIDE DEF a, v
  <2>1. v = WithDebits(w, a, n, l, C)
    BY DEF v, WithDebits
  <2> QED
    BY ONLY <1>2, <2>1, DebitsRecord
<1> HIDE DEF v
<1>4. /\ IsWire(w') /\ w'.pp = v.pp /\ w'.snap = v.snap /\ w'.in_map = v.in_map
      /\ w'.closures = v.closures
      /\ \/ w'.phase = "debits" /\ w'.todo = Tail(w.todo) /\ Tail(w.todo) # <<>>
         \/ w'.phase = "conclude" /\ Len(w.todo) = 1
  <2> HIDE DEF a
  <2> QED
    <3>1. IsWire(v) /\ v.todo = w.todo /\ v.phase = "debits" /\ w' = NextAccount(v)
      BY ONLY <1>1, <1>3
    <3>2. w.todo \in Seq(Accounts) /\ w.todo # <<>>
      BY ONLY <1>2
    <3>3. PICK t, n1, v1 : t = w.todo /\ n1 = w' /\ v1 = v
      OBVIOUS
    <3>4. /\ IsWire(v1) /\ v1.todo = t /\ v1.phase = "debits" /\ n1 = NextAccount(v1)
          /\ t \in Seq(Accounts) /\ t # <<>>
      BY ONLY <3>1, <3>2, <3>3
    <3>5. /\ IsWire(n1) /\ n1.pp = v1.pp /\ n1.snap = v1.snap /\ n1.in_map = v1.in_map
          /\ n1.closures = v1.closures
      BY ONLY <3>4, NextAccountEffect
    <3>6. \/ n1.phase = v1.phase /\ n1.todo = Tail(t) /\ Tail(t) # <<>>
          \/ /\ Len(t) = 1 /\ v1.phase = "credits"
             /\ n1.phase = "debits" /\ n1.todo = AccountList
          \/ /\ Len(t) = 1 /\ v1.phase = "debits"
             /\ n1.phase = "conclude" /\ n1.todo = <<>>
      BY ONLY <3>4, NextAccountEffect
    <3> QED
      BY ONLY <3>3, <3>4, <3>5, <3>6
<1>5. WireShape'
  <2>1. Tail(w.todo) \in Seq(Accounts)
    BY <1>2
  <2>2. IsPoint(wpp)' /\ IsWire(w)'
    BY <1>1, <1>4 DEF WireShape, IsPoint, IsWire, IsProgress
  <2> QED
    BY <1>4, <2>1, <2>2 DEF WireShape
<1> QED
  BY <1>1, <1>2, <1>3, <1>4, <1>5 DEF C, n, l, new, out, rows

(* process_credits for one account.                                        *)
LEMMA CreditsEffect ==
    ASSUME WireShape, ProcessCredits
    PROVE  LET a == Head(w.todo)
               p == w.pp.account[a]
               rows == ReserveInRows(a)
               map == w.in_map \cup rows
               new == History(credits, a, p.in_off)
               ends == {i \in new : credits[i] \notin map}
               found == {i \in new : \A j \in ends : i < j}
               left == map \ {credits[i] : i \in found}
           IN /\ a \in Accounts /\ wpp' = wpp /\ w.phase = "credits"
              /\ w'.snap = w.snap /\ w'.closures = w.closures
              /\ w'.in_map = IF ends = {} THEN {} ELSE left
              /\ w'.pp.close = w.pp.close /\ w'.pp.time = w.pp.time
              /\ \A b \in Accounts \ {a} : w'.pp.account[b] = w.pp.account[b]
              /\ w'.pp.account[a].out = p.out /\ w'.pp.account[a].out_off = p.out_off
              /\ w'.pp.account[a].in = MarkAfter(rows, p.in)
              /\ w'.pp.account[a].in_off = LastOf(found, p.in_off)
              /\ \/ w'.phase = "credits" /\ w'.todo = Tail(w.todo) /\ Tail(w.todo) # <<>>
                 \/ /\ w'.phase = "debits" /\ w'.todo = AccountList
                    /\ Len(w.todo) = 1
              /\ WireShape'
PROOF
<1> DEFINE a == Head(w.todo)
           p == w.pp.account[a]
           rows == ReserveInRows(a)
           map == w.in_map \cup rows
           new == History(credits, a, p.in_off)
           ends == {i \in new : credits[i] \notin map}
           found == {i \in new : \A j \in ends : i < j}
           left == map \ {credits[i] : i \in found}
           M == IF ends = {} THEN {} ELSE left
           n == MarkAfter(rows, p.in)
           l == LastOf(found, p.in_off)
           v == [w EXCEPT !.in_map = M, !.pp.account[a].in = n,
                          !.pp.account[a].in_off = l]
<1>1. w' = NextAccount(v) /\ wpp' = wpp /\ w.phase = "credits"
  BY DEF ProcessCredits
<1>2. w.todo \in Seq(Accounts) /\ w.todo # <<>> /\ a \in Accounts /\ IsWire(w)
  <2>1. w.todo \in Seq(Accounts) /\ w.todo # <<>> /\ IsWire(w)
    BY ONLY <1>1, WireShape DEF WireShape
  <2>2. Head(w.todo) \in Accounts
    BY ONLY <2>1
  <2> QED
    BY <2>1, <2>2
<1> HIDE DEF M, n, l
<1>3. /\ IsWire(v)
      /\ v.phase = w.phase /\ v.snap = w.snap /\ v.todo = w.todo /\ v.in_map = M
      /\ v.closures = w.closures /\ v.pp.close = w.pp.close /\ v.pp.time = w.pp.time
      /\ \A b \in Accounts \ {a} : v.pp.account[b] = w.pp.account[b]
      /\ v.pp.account[a].in = n /\ v.pp.account[a].in_off = l
      /\ v.pp.account[a].out = p.out /\ v.pp.account[a].out_off = p.out_off
  <2> HIDE DEF a, v
  <2>1. v = WithCredits(w, a, n, l, M)
    BY DEF v, WithCredits
  <2> QED
    BY ONLY <1>2, <2>1, CreditsRecord
<1> HIDE DEF v
<1>4. /\ IsWire(w') /\ w'.pp = v.pp /\ w'.snap = v.snap /\ w'.in_map = v.in_map
      /\ w'.closures = v.closures
      /\ \/ w'.phase = "credits" /\ w'.todo = Tail(w.todo) /\ Tail(w.todo) # <<>>
         \/ w'.phase = "debits" /\ w'.todo = AccountList /\ Len(w.todo) = 1
  <2> HIDE DEF a
  <2> QED
    <3>1. IsWire(v) /\ v.todo = w.todo /\ v.phase = "credits" /\ w' = NextAccount(v)
      BY ONLY <1>1, <1>3
    <3>2. w.todo \in Seq(Accounts) /\ w.todo # <<>>
      BY ONLY <1>2
    <3>3. PICK t, n1, v1 : t = w.todo /\ n1 = w' /\ v1 = v
      OBVIOUS
    <3>4. /\ IsWire(v1) /\ v1.todo = t /\ v1.phase = "credits" /\ n1 = NextAccount(v1)
          /\ t \in Seq(Accounts) /\ t # <<>>
      BY ONLY <3>1, <3>2, <3>3
    <3>5. /\ IsWire(n1) /\ n1.pp = v1.pp /\ n1.snap = v1.snap /\ n1.in_map = v1.in_map
          /\ n1.closures = v1.closures
      BY ONLY <3>4, NextAccountEffect
    <3>6. \/ n1.phase = v1.phase /\ n1.todo = Tail(t) /\ Tail(t) # <<>>
          \/ /\ Len(t) = 1 /\ v1.phase = "credits"
             /\ n1.phase = "debits" /\ n1.todo = AccountList
          \/ /\ Len(t) = 1 /\ v1.phase = "debits"
             /\ n1.phase = "conclude" /\ n1.todo = <<>>
      BY ONLY <3>4, NextAccountEffect
    <3> QED
      BY ONLY <3>3, <3>4, <3>5, <3>6
<1>5. WireShape'
  <2>1. Tail(w.todo) \in Seq(Accounts)
    BY <1>2
  <2>2. IsPoint(wpp)' /\ IsWire(w)'
    BY <1>1, <1>4 DEF WireShape, IsPoint, IsWire, IsProgress
  <2> QED
    BY <1>4, <2>1, <2>2, WireAssumption DEF WireShape
<1> QED
  BY <1>1, <1>2, <1>3, <1>4, <1>5 DEF M, n, l

---------------------------------------------------------------------------
(* The bank.                                                               *)

\* The bank's books: every transfer once, of the kinds that there are; what
\* the exchange transferred is committed.
BankInv ==
    /\ prewire \in Seq(plan) /\ credits \in Seq(plan) /\ debits \in Seq(plan)
    /\ \A i \in DOMAIN prewire : Op[prewire[i]].kind \in {"wire", "close"}
    /\ \A i \in DOMAIN credits : Op[credits[i]].kind = "credit"
    /\ \A i \in DOMAIN debits :
          \/ Op[debits[i]].kind = "steal"
          \/ Op[debits[i]].kind \in {"wire", "close"} /\ debits[i] \in Committed
    /\ \A i, j \in DOMAIN credits : credits[i] = credits[j] => i = j
    /\ \A i, j \in DOMAIN debits : debits[i] = debits[j] => i = j

(* The minimum of a set of natural numbers.                                *)
LEMMA MinNat ==
    ASSUME NEW T, T \subseteq Nat, T # {}
    PROVE  Min(T) \in T /\ \A x \in T : Min(T) <= x
PROOF
<1>1. \E n \in T : \A m \in T : n <= m
  BY NatMinimum
<1> QED
  BY <1>1 DEF Min

(* The bank begins with the credits of the plan.                           *)
LEMMA InitBank == Init => BankInv
PROOF
<1> SUFFICES ASSUME Init PROVE BankInv
  OBVIOUS
<1>1. PICK P \in Plans :
          /\ plan = Range(P.credits) \cup Range(P.withdrawals) \cup P.then
          /\ credits = P.credits /\ prewire = <<>> /\ debits = <<>>
  BY DEF Init, BooksInit
<1>2. /\ P.credits \in Seq(Ops)
      /\ \A i, j \in DOMAIN P.credits : P.credits[i] = P.credits[j] => i = j
      /\ \A o \in Range(P.credits) : Op[o].kind = "credit"
  BY PlanAssumption
<1>3. \A i \in DOMAIN P.credits : P.credits[i] \in Range(P.credits)
  BY DEF Range
<1>4. credits \in Seq(plan)
  <2>1. \A i \in 1..Len(P.credits) : P.credits[i] \in plan
    BY <1>1, <1>2, <1>3
  <2> QED
    BY <1>1, <1>2, <2>1
<1> QED
  BY <1>1, <1>2, <1>3, <1>4 DEF BankInv

(* A new element at the end of a sequence of distinct elements.            *)
LEMMA AppendFacts ==
    ASSUME NEW A, NEW s \in Seq(A), NEW x \in A
    PROVE  /\ Append(s, x) \in Seq(A) /\ Len(Append(s, x)) = Len(s) + 1
           /\ DOMAIN s = 1..Len(s) /\ Len(s) \in Nat
           /\ DOMAIN Append(s, x) = 1..(Len(s) + 1)
           /\ \A i \in DOMAIN s : i \in DOMAIN Append(s, x) /\ Append(s, x)[i] = s[i]
           /\ Append(s, x)[Len(s) + 1] = x
           /\ \A i \in DOMAIN Append(s, x) : i \in DOMAIN s \/ i = Len(s) + 1
PROOF
  OBVIOUS

(* The elements stay distinct.                                             *)
LEMMA AppendDistinct ==
    ASSUME NEW A, NEW s \in Seq(A), NEW x \in A, NEW t, t = Append(s, x),
           \A i, j \in DOMAIN s : s[i] = s[j] => i = j,
           \A i \in DOMAIN s : s[i] # x
    PROVE  \A i, j \in DOMAIN t : t[i] = t[j] => i = j
PROOF
<1>1. /\ \A i \in DOMAIN s : t[i] = s[i]
      /\ t[Len(s) + 1] = x
      /\ \A i \in DOMAIN t : i \in DOMAIN s \/ i = Len(s) + 1
  BY AppendFacts
<1> QED
  BY <1>1

(* What is committed stays committed, and its rows stay.                   *)
LEMMA CommittedKept ==
    ASSUME RowsInv, MaxOpen = 1, [Next]_vars
    PROVE  /\ plan' = plan /\ Committed \subseteq Committed'
           /\ Numbered \subseteq Numbered'
           /\ \A o \in Numbered : row'[o] = row[o]
PROOF
<1>1. ASSUME NEW o \in plan, Insert(o)
      PROVE  /\ Committed \subseteq Committed' /\ Numbered \subseteq Numbered'
             /\ \A p \in Numbered : row'[p] = row[p]
  <2>1. /\ plan' = plan /\ row[o].id = 0 /\ Committed' = Committed
        /\ \A p \in plan \ {o} : row'[p] = row[p]
    BY <1>1, InsertEffect
  <2> QED
    BY <2>1 DEF Numbered
<1>2. ASSUME NEW o \in plan, Commit(o)
      PROVE  /\ Committed \subseteq Committed' /\ Numbered \subseteq Numbered'
             /\ \A p \in Numbered : row'[p] = row[p]
  BY <1>2, CommitEffect DEF Numbered
<1>3. ASSUME BooksSame
      PROVE  /\ Committed \subseteq Committed' /\ Numbered \subseteq Numbered'
             /\ \A p \in Numbered : row'[p] = row[p]
  BY <1>3 DEF BooksSame, Committed, Numbered
<1>4. BooksNext \/ BooksSame
  BY DEF Next, Exchange, Confirm, Reserves_, Coins_, Aggregation_, Deposits_, Wire_, Fails,
         vars, bookVars, BooksSame
<1> QED
  BY <1>1, <1>2, <1>3, <1>4, BooksCases, PlanStays

(* Every step keeps the histories of the bank, and adds to the debits at   *)
(* the end.                                                                *)
LEMMA NextBank ==
    ASSUME RowsInv, MaxOpen = 1, [Next]_vars, BankInv
    PROVE  BankInv' /\ (debits' = debits \/ \E x \in plan : debits' = Append(debits, x))
PROOF
<1>0. plan' = plan /\ Committed \subseteq Committed'
  BY CommittedKept
<1>d. ASSUME NEW x \in plan, debits' = Append(debits, x), prewire' = prewire,
             credits' = credits, \A i \in DOMAIN debits : debits[i] # x,
             \/ Op[x].kind = "steal"
             \/ Op[x].kind \in {"wire", "close"} /\ x \in Committed
      PROVE  BankInv'
  <2>1. debits \in Seq(plan)
    BY DEF BankInv
  <2>2. /\ debits' \in Seq(plan)
        /\ \A i \in DOMAIN debits : debits'[i] = debits[i]
        /\ debits'[Len(debits) + 1] = x
        /\ \A i \in DOMAIN debits' : i \in DOMAIN debits \/ i = Len(debits) + 1
    BY ONLY <1>d, <2>1, AppendFacts
  <2>3. \A i, j \in DOMAIN debits' : debits'[i] = debits'[j] => i = j
    <3>1. \A i, j \in DOMAIN debits : debits[i] = debits[j] => i = j
      BY DEF BankInv
    <3> QED
      BY ONLY <1>d, <2>2, <3>1
  <2>4. \A i \in DOMAIN debits' :
          \/ Op[debits'[i]].kind = "steal"
          \/ Op[debits'[i]].kind \in {"wire", "close"} /\ debits'[i] \in Committed'
    <3>1. \A i \in DOMAIN debits :
          \/ Op[debits[i]].kind = "steal"
          \/ Op[debits[i]].kind \in {"wire", "close"} /\ debits[i] \in Committed
      BY DEF BankInv
    <3> QED
      BY ONLY <1>0, <1>d, <2>2, <3>1
  <2> QED
    BY <1>0, <1>d, <2>2, <2>3, <2>4 DEF BankInv
<1>1. ASSUME NEW o \in plan, Insert(o)
      PROVE  BankInv' /\ debits' = debits
  <2>1. /\ credits' = credits /\ debits' = debits
        /\ \/ prewire' = prewire
           \/ prewire' = Append(prewire, o) /\ Op[o].kind \in {"wire", "close"}
    BY <1>1 DEF Insert
  <2>2. prewire \in Seq(plan) /\ \A i \in DOMAIN prewire : Op[prewire[i]].kind \in {"wire", "close"}
    BY DEF BankInv
  <2>3. prewire' \in Seq(plan) /\ \A i \in DOMAIN prewire' : Op[prewire'[i]].kind \in {"wire", "close"}
    <3>1. CASE prewire' = Append(prewire, o) /\ Op[o].kind \in {"wire", "close"}
      <4>1. /\ prewire' \in Seq(plan)
            /\ \A i \in DOMAIN prewire : prewire'[i] = prewire[i]
            /\ prewire'[Len(prewire) + 1] = o
            /\ \A i \in DOMAIN prewire' : i \in DOMAIN prewire \/ i = Len(prewire) + 1
        BY ONLY <2>2, <3>1, o \in plan, AppendFacts
      <4> QED
        BY ONLY <2>2, <3>1, <4>1
    <3> QED
      BY <2>1, <2>2, <3>1
  <2> QED
    BY <1>0, <2>1, <2>3 DEF BankInv
<1>2. ASSUME NEW o \in plan, Commit(o)
      PROVE  BankInv' /\ debits' = debits
  <2>1. credits' = credits /\ debits' = debits /\ prewire' = prewire
    BY <1>2 DEF Commit
  <2> QED
    BY <1>0, <2>1 DEF BankInv
<1>3. ASSUME NEW o \in plan, BankCredit(o)
      PROVE  BankInv' /\ debits' = debits
  <2>1. /\ credits' = Append(credits, o) /\ debits' = debits /\ prewire' = prewire
        /\ Op[o].kind = "credit" /\ \A i \in DOMAIN credits : credits[i] # o
    BY <1>3 DEF BankCredit
  <2>2. /\ credits \in Seq(plan) /\ \A i \in DOMAIN credits : Op[credits[i]].kind = "credit"
        /\ \A i, j \in DOMAIN credits : credits[i] = credits[j] => i = j
    BY DEF BankInv
  <2>3. /\ credits' \in Seq(plan)
        /\ \A i \in DOMAIN credits : credits'[i] = credits[i]
        /\ credits'[Len(credits) + 1] = o
        /\ \A i \in DOMAIN credits' : i \in DOMAIN credits \/ i = Len(credits) + 1
    BY ONLY <2>1, <2>2, o \in plan, AppendFacts
  <2>4. \A i \in DOMAIN credits' : Op[credits'[i]].kind = "credit"
    BY ONLY <2>1, <2>2, <2>3
  <2>5. \A i, j \in DOMAIN credits' : credits'[i] = credits'[j] => i = j
    BY ONLY <2>1, <2>2, <2>3
  <2> QED
    BY <1>0, <2>1, <2>3, <2>4, <2>5 DEF BankInv
<1>4. ASSUME NEW o \in plan, Steal(o)
      PROVE  BankInv' /\ debits' = Append(debits, o)
  BY <1>d, <1>4 DEF Steal
<1>5. ASSUME BankDebit
      PROVE  BankInv' /\ \E x \in plan : debits' = Append(debits, x)
  <2> DEFINE x == prewire[Min(Unfinished)]
  <2>1. /\ Unfinished # {} /\ debits' = Append(debits, x)
        /\ prewire' = prewire /\ credits' = credits
    BY <1>5 DEF BankDebit
  <2>2. Min(Unfinished) \in Unfinished
    <3>1. Unfinished \subseteq Nat
      BY DEF Unfinished, BankInv
    <3> QED
      BY <2>1, <3>1, MinNat
  <2>3. /\ x \in plan /\ x \in Committed /\ Op[x].kind \in {"wire", "close"}
        /\ \A j \in DOMAIN debits : debits[j] # x
    BY <2>2 DEF Unfinished, BankInv
  <2> HIDE DEF x
  <2> QED
    BY <1>d, <2>1, <2>3
<1>6. ASSUME UNCHANGED <<credits, debits, prewire>>
      PROVE  BankInv' /\ debits' = debits
  BY <1>0, <1>6 DEF BankInv
<1>7. \/ \E o \in plan : Insert(o) \/ Commit(o) \/ BankCredit(o) \/ Steal(o)
      \/ BankDebit
      \/ UNCHANGED <<credits, debits, prewire>>
  BY DEF Next, Exchange, Confirm, Reserves_, Coins_, Aggregation_, Deposits_, Wire_, Fails,
         vars, bookVars, BooksNext, Tick
<1> QED
  BY <1>1, <1>2, <1>3, <1>4, <1>5, <1>6, <1>7

---------------------------------------------------------------------------
(* Thefts.                                                                 *)

(* The helper begins with its fields.                                      *)
LEMMA InitShape == Init => WireShape
PROOF
<1> SUFFICES ASSUME Init PROVE WireShape
  OBVIOUS
<1>1. /\ wpp = [account |-> [a \in Accounts |-> [in |-> 1, out |-> 1, in_off |-> 0,
                                                 out_off |-> 0]],
                close |-> 1, time |-> 0]
      /\ w = IdleWire
  BY DEF Init, AuditWireInit
<1>2. IsPoint(wpp)
  BY <1>1 DEF IsPoint, IsProgress
<1>3. w.pp = wpp /\ w.phase = "idle"
      /\ DOMAIN w = {"phase", "pp", "snap", "todo", "in_map", "closures"}
  BY <1>1 DEF IdleWire
<1> QED
  BY <1>2, <1>3 DEF WireShape, IsWire

(* The steps of the wire helper that do not look at the bank.              *)
LEMMA BeginEffect ==
    ASSUME WireShape, BeginTransaction
    PROVE  /\ w.phase = "idle" /\ w'.phase = "credits" /\ w'.snap = Committed
           /\ w'.todo = AccountList /\ w'.in_map = {}
           /\ w'.closures = ReserveClosedAbove(Committed, wpp.close)
           /\ w'.pp.account = wpp.account /\ w'.pp.time = wpp.time
           /\ w'.pp.close = MarkAfter(ReserveClosedAbove(Committed, wpp.close), wpp.close)
           /\ wpp' = wpp /\ disturbed' = disturbed /\ alarms' = alarms
           /\ WireShape'
PROOF
<1> DEFINE closed == ReserveClosedAbove(Committed, wpp.close)
           m == MarkAfter(closed, wpp.close)
           p == [wpp EXCEPT !.close = m]
<1>1. /\ w' = [phase |-> "credits", snap |-> Committed, todo |-> AccountList,
               pp |-> p, in_map |-> {}, closures |-> closed]
      /\ w.phase = "idle" /\ wpp' = wpp /\ disturbed' = disturbed /\ alarms' = alarms
  BY DEF BeginTransaction, libVars
<1>2. DOMAIN wpp = {"account", "close", "time"}
  BY DEF WireShape, IsPoint
<1> HIDE DEF m, closed
<1>3. /\ p.account = wpp.account /\ p.time = wpp.time /\ p.close = m
      /\ DOMAIN p = {"account", "close", "time"}
  BY <1>2
<1> HIDE DEF p
<1>4. /\ w'.phase = "credits" /\ w'.snap = Committed /\ w'.todo = AccountList
      /\ w'.in_map = {} /\ w'.closures = closed /\ w'.pp = p
      /\ DOMAIN w' = {"phase", "pp", "snap", "todo", "in_map", "closures"}
  BY <1>1
<1>5. IsPoint(p)
  BY <1>3 DEF WireShape, IsPoint
<1>6. IsWire(w') /\ IsPoint(wpp')
  BY <1>1, <1>4, <1>5 DEF IsWire, WireShape
<1>7. WireShape'
  BY <1>4, <1>6, WireAssumption DEF WireShape, IsWire, IsPoint, IsProgress
<1> QED
  BY <1>1, <1>3, <1>4, <1>7 DEF m, closed

(* The commit of the wire helper.                                          *)
LEMMA ConcludeEffect ==
    ASSUME WireShape, Conclude
    PROVE  /\ w.phase = "conclude" /\ w'.phase = "idle" /\ w'.pp = wpp'
           /\ w'.snap = {} /\ w'.in_map = {} /\ w'.closures = {}
           /\ wpp'.account = w.pp.account /\ wpp'.close = CloseMark
           /\ disturbed' = disturbed
           /\ alarms' = alarms \cup (Alarm("closure lag", PendingClosures) \cup Alarm("lag", Late))
           /\ WireShape'
PROOF
<1>1. /\ w.phase = "conclude" /\ disturbed' = disturbed
      /\ wpp' = [account |-> w.pp.account, close |-> CloseMark, time |-> Before(WireGrace)]
      /\ w' = [IdleWire EXCEPT !.pp = wpp']
      /\ alarms' = alarms \cup (Alarm("closure lag", PendingClosures) \cup Alarm("lag", Late))
  BY DEF Conclude, StoreWireProgress, Raise
<1>2. /\ w'.phase = "idle" /\ w'.pp = wpp' /\ w'.snap = {} /\ w'.in_map = {}
      /\ w'.closures = {}
      /\ DOMAIN w' = {"phase", "pp", "snap", "todo", "in_map", "closures"}
  BY <1>1 DEF IdleWire
<1>3. /\ wpp'.account = w.pp.account /\ wpp'.close = CloseMark
      /\ DOMAIN wpp' = {"account", "close", "time"}
  BY ONLY <1>1
<1>4. IsPoint(wpp')
  BY <1>3 DEF WireShape, IsWire, IsPoint
<1>5. WireShape'
  <2>1. IsWire(w')
    BY <1>2, <1>4 DEF IsWire
  <2> QED
    BY <1>2, <1>4, <2>1 DEF WireShape, IsWire, IsPoint, IsProgress
<1> QED
  BY <1>1, <1>2, <1>3, <1>5

(* The roll back of the wire helper.                                       *)
LEMMA FailEffect ==
    ASSUME WireShape, WireFails
    PROVE  /\ w'.phase = "idle" /\ w'.pp = wpp /\ wpp' = wpp /\ alarms' = alarms
           /\ w'.snap = {} /\ w'.in_map = {} /\ w'.closures = {}
           /\ disturbed' = disturbed /\ WireShape'
PROOF
<1>1. w' = IdleWire /\ wpp' = wpp /\ alarms' = alarms /\ disturbed' = disturbed
  BY DEF WireFails
<1>2. /\ w'.phase = "idle" /\ w'.pp = wpp /\ w'.snap = {} /\ w'.in_map = {}
      /\ w'.closures = {}
      /\ DOMAIN w' = {"phase", "pp", "snap", "todo", "in_map", "closures"}
  BY <1>1 DEF IdleWire
<1>3. IsPoint(wpp)
  BY DEF WireShape
<1>4. IsWire(w')
  BY <1>2, <1>3 DEF IsWire
<1>5. WireShape'
  BY <1>1, <1>2, <1>3, <1>4 DEF WireShape, IsWire, IsPoint, IsProgress
<1> QED
  BY <1>1, <1>2, <1>5

(* Every step keeps the fields.                                            *)
LEMMA NextShape ==
    ASSUME WireShape, [Next]_vars
    PROVE  WireShape'
PROOF
<1>1. CASE Wire_
  BY <1>1, BeginEffect, CreditsEffect, DebitsEffect, ConcludeEffect, FailEffect
     DEF Wire_, AuditWireNext
<1>2. CASE UNCHANGED wireAuditVars
  <2>1. w' = w /\ wpp' = wpp
    BY <1>2 DEF wireAuditVars
  <2> QED
    BY <2>1 DEF WireShape, IsWire, IsPoint, IsProgress
<1> QED
  BY <1>1, <1>2 DEF Next, Exchange, Confirm, Reserves_, Coins_, Aggregation_, Deposits_,
                    Fails, vars, auditorVars

(* The offset after a history.                                             *)
LEMMA LastOfBounds ==
    ASSUME NEW H, NEW n \in Nat, H \subseteq 1..n, NEW off \in Nat
    PROVE  /\ LastOf(H, off) \in Nat /\ off <= LastOf(H, off)
           /\ \A h \in H : h <= LastOf(H, off)
           /\ LastOf(H, off) = off \/ LastOf(H, off) \in H
PROOF
<1> DEFINE T == {off} \cup H
<1>1. IsFiniteSet(T)
  <2>1. IsFiniteSet(1..n)
    BY FS_Interval
  <2>2. IsFiniteSet(H)
    BY <2>1, FS_Subset
  <2> QED
    BY <2>2, FS_AddElement
<1>2. T # {} /\ T \subseteq Int /\ T \subseteq Nat
  OBVIOUS
<1>3. Max(T) \in T /\ \A x \in T : x <= Max(T)
  <2> HIDE DEF T
  <2> QED
    BY <1>1, <1>2, MaxFinite
<1>4. LastOf(H, off) = Max(T)
  BY DEF LastOf
<1> QED
  BY <1>2, <1>3, <1>4

\* The thefts up to the offset of a progress record have their alarms.
TheftsReported(p) ==
    /\ \A a \in Accounts :
          p.account[a].out_off \in Nat /\ p.account[a].out_off <= Len(debits)
    /\ \A i \in DOMAIN debits :
          Op[debits[i]].kind = "steal"
          /\ i <= p.account[Op[debits[i]].account].out_off =>
             <<"debit not in books", debits[i]>> \in alarms

\* In both progress records of the wire helper.
TheftInv ==
    /\ \A o \in w.closures : Op[o].kind = "close"
    /\ TheftsReported(wpp)
    /\ TheftsReported(w.pp)

(* A new debit is beyond the offsets.                                      *)
LEMMA TheftsStay ==
    ASSUME BankInv, RowsInv, NEW p, TheftsReported(p), alarms \subseteq alarms',
           debits' = debits \/ \E x \in plan : debits' = Append(debits, x)
    PROVE  TheftsReported(p)'
PROOF
<1>0. debits \in Seq(plan) /\ Len(debits) \in Nat /\ DOMAIN debits = 1..Len(debits)
  BY DEF BankInv
<1>1. CASE debits' = debits
  BY <1>1 DEF TheftsReported
<1>2. ASSUME NEW x \in plan, debits' = Append(debits, x)
      PROVE  TheftsReported(p)'
  <2>1. /\ Len(debits') = Len(debits) + 1
        /\ \A i \in DOMAIN debits : debits'[i] = debits[i]
        /\ debits'[Len(debits) + 1] = x
        /\ \A i \in DOMAIN debits' : i \in DOMAIN debits \/ i = Len(debits) + 1
    BY ONLY <1>0, <1>2, AppendFacts
  <2>2. \A a \in Accounts :
          p.account[a].out_off \in Nat /\ p.account[a].out_off <= Len(debits)
    BY DEF TheftsReported
  <2>3. \A a \in Accounts : p.account[a].out_off <= Len(debits')
    BY <1>0, <2>1, <2>2
  <2>4. ASSUME NEW i \in DOMAIN debits', Op[debits'[i]].kind = "steal",
               i <= p.account[Op[debits'[i]].account].out_off
        PROVE  <<"debit not in books", debits'[i]>> \in alarms'
    <3>1. CASE i \in DOMAIN debits
      BY <2>1, <2>4, <3>1 DEF TheftsReported
    <3>2. CASE i = Len(debits) + 1
      <4>1. x \in Ops /\ Op[x].kind = "steal"
        BY <2>1, <2>4, <3>2 DEF RowsInv
      <4>2. Op[x].account \in Accounts
        BY <4>1, OpFacts
      <4>3. p.account[Op[x].account].out_off \in Nat
            /\ p.account[Op[x].account].out_off <= Len(debits)
        BY <2>2, <4>2
      <4>4. Len(debits) + 1 <= p.account[Op[x].account].out_off
        BY <2>1, <2>4, <3>2
      <4>5. PICK n, m : n = Len(debits) /\ m = p.account[Op[x].account].out_off
        OBVIOUS
      <4>6. n \in Nat /\ m \in Nat /\ m <= n /\ n + 1 <= m
        BY ONLY <1>0, <4>3, <4>4, <4>5
      <4>7. FALSE
        BY ONLY <4>6, SMT
      <4> QED
        BY <4>7
    <3> QED
      BY <2>1, <3>1, <3>2
  <2> QED
    BY <2>2, <2>3, <2>4 DEF TheftsReported
<1> QED
  BY <1>1, <1>2

(* process_debits complains about every theft that it finds.               *)
LEMMA DebitsTheft ==
    ASSUME RowsInv, BankInv, WireShape, TheftInv, ProcessDebits, UNCHANGED bookVars
    PROVE  TheftInv'
PROOF
<1> DEFINE a == Head(w.todo)
           p == w.pp.account[a]
           new == History(debits, a, p.out_off)
           out == {debits[i] : i \in new}
           rows == WireOutRows(a)
<1>1. /\ a \in Accounts /\ wpp' = wpp
      /\ w'.closures \subseteq w.closures
      /\ \A b \in Accounts \ {a} : w'.pp.account[b] = w.pp.account[b]
      /\ w'.pp.account[a].out_off = LastOf(new, p.out_off)
  BY DebitsEffect
<1>2. /\ debits' = debits
      /\ alarms \subseteq alarms'
      /\ Alarm("debit not in books", Unjustified(out, rows, w.closures)) \subseteq alarms'
  BY DEF ProcessDebits, Raise, bookVars
<1>3. debits \in Seq(plan) /\ Len(debits) \in Nat /\ DOMAIN debits = 1..Len(debits)
  BY DEF BankInv
<1>4. /\ new \subseteq 1..Len(debits)
      /\ p.out_off \in Nat /\ p.out_off <= Len(debits)
      /\ \A i \in DOMAIN debits : i \in new <=> i > p.out_off /\ Op[debits[i]].account = a
  BY <1>1, <1>3 DEF History, TheftInv, TheftsReported
<1>5. \A i \in new : Op[debits[i]].kind = "steal"
          => <<"debit not in books", debits[i]>> \in alarms'
  <2> TAKE i \in new
  <2> HAVE Op[debits[i]].kind = "steal"
  <2>1. debits[i] \in out
    OBVIOUS
  <2>2. debits[i] \notin rows
    BY DEF WireOutRows, WireOutAboveByAccount, Above, Of
  <2>3. debits[i] \notin w.closures
    BY DEF TheftInv
  <2>4. debits[i] \in Unjustified(out, rows, w.closures)
    BY <2>1, <2>2, <2>3 DEF Unjustified, ExplainedBy
  <2> QED
    BY <1>2, <2>4 DEF Alarm
<1> HIDE DEF rows, out, new
<1>6. PICK l, n, f : l = LastOf(new, p.out_off) /\ n = Len(debits) /\ f = p.out_off
  OBVIOUS
<1>7. /\ l \in Nat /\ f \in Nat /\ n \in Nat /\ f <= l /\ l <= n
      /\ \A h \in new : h <= l
  <2>1. /\ LastOf(new, p.out_off) \in Nat /\ p.out_off <= LastOf(new, p.out_off)
        /\ \A h \in new : h <= LastOf(new, p.out_off)
        /\ LastOf(new, p.out_off) = p.out_off \/ LastOf(new, p.out_off) \in new
    <3>1. new \subseteq 1..Len(debits) /\ p.out_off \in Nat /\ Len(debits) \in Nat
      BY <1>3, <1>4
    <3> QED
      BY ONLY <3>1, LastOfBounds
  <2>2. new \subseteq 1..n /\ f <= n /\ n \in Nat
    BY <1>3, <1>4, <1>6
  <2>3. l \in Nat /\ f \in Nat /\ f <= l /\ (l = f \/ l \in new)
    BY ONLY <1>4, <1>6, <2>1, ZenonT(40)
  <2>4. \A h \in new : h <= l
    BY ONLY <1>6, <2>1
  <2>5. l = f \/ l \in 1..n
    BY ONLY <2>2, <2>3
  <2>6. l <= n
    BY ONLY <2>2, <2>3, <2>5
  <2> QED
    BY ONLY <2>2, <2>3, <2>4, <2>6
<1>8. TheftsReported(w.pp)'
  <2>1. ASSUME NEW b \in Accounts
        PROVE  w'.pp.account[b].out_off \in Nat /\ w'.pp.account[b].out_off <= Len(debits)
    <3>1. CASE b = a
      BY ONLY <1>1, <1>6, <1>7, <3>1
    <3>2. CASE b # a
      BY <1>1, <3>2 DEF TheftInv, TheftsReported
    <3> QED
      BY <3>1, <3>2
  <2>2. ASSUME NEW i \in DOMAIN debits, Op[debits[i]].kind = "steal",
               i <= w'.pp.account[Op[debits[i]].account].out_off
        PROVE  <<"debit not in books", debits[i]>> \in alarms'
    <3>1. debits[i] \in Ops
      BY <1>3 DEF RowsInv
    <3>2. Op[debits[i]].account \in Accounts
      BY <2>2, <3>1, OpFacts
    <3>3. CASE i \in new
      BY <1>5, <2>2, <3>3
    <3>4. CASE i \notin new
      <4>1. i <= w.pp.account[Op[debits[i]].account].out_off
        <5>1. CASE Op[debits[i]].account = a
          <6>1. ~(i > f) /\ i \in Nat
            BY <1>3, <1>4, <1>6, <3>4, <5>1
          <6>2. i <= f
            BY ONLY <1>7, <6>1
          <6> QED
            BY <1>6, <5>1, <6>2
        <5>2. CASE Op[debits[i]].account # a
          BY <1>1, <2>2, <3>2, <5>2
        <5> QED
          BY <5>1, <5>2
      <4> QED
        BY <1>2, <2>2, <4>1 DEF TheftInv, TheftsReported
    <3> QED
      BY <3>3, <3>4
  <2> QED
    BY <1>2, <2>1, <2>2 DEF TheftsReported
<1>9. TheftsReported(wpp)'
  BY <1>1, <1>2 DEF TheftInv, TheftsReported
<1> QED
  BY <1>1, <1>8, <1>9 DEF TheftInv

(* Before the first audit no offset is beyond a debit.                     *)
LEMMA InitTheft == Init => TheftInv
PROOF
<1> SUFFICES ASSUME Init PROVE TheftInv
  OBVIOUS
<1>1. /\ wpp = [account |-> [a \in Accounts |-> [in |-> 1, out |-> 1, in_off |-> 0,
                                                 out_off |-> 0]],
                close |-> 1, time |-> 0]
      /\ w = IdleWire
      /\ debits = <<>>
  BY DEF Init, AuditWireInit, BooksInit
<1>2. w.pp = wpp /\ w.closures = {}
  BY <1>1 DEF IdleWire
<1>3. \A a \in Accounts : wpp.account[a].out_off = 0
  BY <1>1
<1>4. Len(debits) = 0 /\ DOMAIN debits = {}
  BY <1>1
<1>5. TheftsReported(wpp)
  <2>1. \A a \in Accounts : wpp.account[a].out_off \in Nat /\ wpp.account[a].out_off <= Len(debits)
    BY <1>3, <1>4
  <2> QED
    BY <1>4, <2>1 DEF TheftsReported
<1> QED
  BY <1>2, <1>5 DEF TheftInv

(* Every step keeps the thefts up to the offsets reported.                 *)
LEMMA NextTheft ==
    ASSUME RowsInv, MaxOpen = 1, BankInv, WireShape, TheftInv, [Next]_vars
    PROVE  TheftInv'
PROOF
<1>0. debits' = debits \/ \E x \in plan : debits' = Append(debits, x)
  BY NextBank
<1>1. ASSUME NEW p, TheftsReported(p), alarms \subseteq alarms'
      PROVE  TheftsReported(p)'
  BY <1>0, <1>1, TheftsStay
<1>2. CASE Wire_
  <2>0. UNCHANGED bookVars /\ debits' = debits
    BY <1>2 DEF Wire_, bookVars
  <2>1. CASE BeginTransaction
    <3>1. /\ w'.pp.account = wpp.account /\ wpp' = wpp /\ alarms' = alarms
          /\ w'.closures = ReserveClosedAbove(Committed, wpp.close)
      BY <2>1, BeginEffect
    <3>2. TheftsReported(wpp)' /\ TheftsReported(w.pp)'
      BY <2>0, <3>1 DEF TheftInv, TheftsReported
    <3> QED
      BY <3>1, <3>2 DEF TheftInv, ReserveClosedAbove, Above, Of
  <2>2. CASE ProcessCredits
    <3> DEFINE a == Head(w.todo)
    <3>1. /\ wpp' = wpp /\ w'.closures = w.closures
          /\ \A b \in Accounts \ {a} : w'.pp.account[b] = w.pp.account[b]
          /\ w'.pp.account[a].out_off = w.pp.account[a].out_off
      BY <2>2, CreditsEffect
    <3>2. alarms \subseteq alarms'
      BY <2>2 DEF ProcessCredits, Raise
    <3>3. \A b \in Accounts : w'.pp.account[b].out_off = w.pp.account[b].out_off
      BY <3>1
    <3>4. \A i \in DOMAIN debits : Op[debits[i]].kind = "steal"
              => Op[debits[i]].account \in Accounts
      <4>1. \A i \in DOMAIN debits : debits[i] \in Ops
        BY DEF RowsInv, BankInv
      <4> QED
        BY <4>1, OpFacts
    <3>5. TheftsReported(wpp)'
      BY <2>0, <3>1, <3>2 DEF TheftInv, TheftsReported
    <3>6. TheftsReported(w.pp)'
      BY <2>0, <3>2, <3>3, <3>4 DEF TheftInv, TheftsReported
    <3> QED
      BY <3>1, <3>5, <3>6 DEF TheftInv
  <2>3. CASE ProcessDebits
    BY <2>0, <2>3, DebitsTheft
  <2>4. CASE Conclude
    <3>1. /\ wpp'.account = w.pp.account /\ w'.pp = wpp' /\ w'.closures = {}
          /\ alarms \subseteq alarms'
      BY <2>4, ConcludeEffect
    <3>2. TheftsReported(wpp)' /\ TheftsReported(w.pp)'
      BY <2>0, <3>1 DEF TheftInv, TheftsReported
    <3> QED
      BY <3>1, <3>2 DEF TheftInv
  <2>5. CASE WireFails
    <3>1. w'.pp = wpp /\ wpp' = wpp /\ w'.closures = {} /\ alarms' = alarms
      BY <2>5, FailEffect
    <3>2. TheftsReported(wpp)' /\ TheftsReported(w.pp)'
      BY <2>0, <3>1 DEF TheftInv, TheftsReported
    <3> QED
      BY <3>1, <3>2 DEF TheftInv
  <2> QED
    BY <1>2, <2>1, <2>2, <2>3, <2>4, <2>5 DEF Wire_, AuditWireNext
<1>3. CASE ~Wire_
  <2>1. UNCHANGED wireAuditVars /\ alarms \subseteq alarms'
    <3>1. UNCHANGED wireAuditVars
      BY <1>3 DEF Next, Exchange, Confirm, Reserves_, Coins_, Aggregation_, Deposits_,
                    Fails, vars, auditorVars
    <3>2. alarms \subseteq alarms'
      BY <1>3, ReserveAdds, CoinAdds, AggregationAdds, DepositAdds, OtherAdds
         DEF Next, Adds
    <3> QED
      BY <3>1, <3>2
  <2>2. PICK p, q : p = wpp /\ q = w.pp
    OBVIOUS
  <2>3. TheftsReported(p)' /\ TheftsReported(q)'
    BY <1>1, <2>1, <2>2 DEF TheftInv
  <2>4. w' = w /\ wpp' = wpp
    BY <2>1 DEF wireAuditVars
  <2> QED
    BY <2>2, <2>3, <2>4 DEF TheftInv, TheftsReported
<1> QED
  BY <1>2, <1>3

---------------------------------------------------------------------------
(* Refunds and transfers.                                                  *)

(* What a step of the whole system does to the books.                      *)
LEMMA StepCases ==
    ASSUME [Next]_vars
    PROVE  \/ \E o \in plan : Insert(o)
           \/ \E o \in plan : Commit(o)
           \/ BooksSame
PROOF
<1>1. BooksNext \/ BooksSame
  BY DEF Next, Exchange, Confirm, Reserves_, Coins_, Aggregation_, Deposits_, Wire_, Fails,
         vars, bookVars, BooksSame
<1> QED
  BY <1>1, BooksCases

\* The refunds of a deposit.
RefundsOf(d, S) == {r \in Of(S, "refund") : Op[r].deposit = d}

\* The rows of deposits, melts and refunds have the amounts that were asked
\* for, and a recoup is of a positive amount.  The refunds of a deposit are not
\* more than the deposit.
RefundInv ==
    /\ \A o \in Numbered :
          /\ Op[o].kind \in {"deposit", "melt", "refund"} => row[o].amt = Op[o].amount
          /\ Op[o].kind \in {"recoup", "recoup_refresh"} => row[o].amt \in Nat
    /\ \A r \in Of(Numbered, "refund") : Op[r].deposit \in Committed
    /\ \A d \in Of(Numbered, "deposit") : Total(RefundsOf(d, Numbered)) <= row[d].amt

\* A transfer pays what its deposits were worth when it was made; they are
\* worth the same ever after, because they are not refunded any more.
WireInv ==
    /\ \A o \in Of(Numbered, "wire") :
          /\ Op[o].deposits \subseteq Committed
          /\ row[o].amt = RoundedDown(WireTotal(o, Committed) - WireFee)
                          + (IF Op[o].honest THEN 0 ELSE 1)
          /\ Op[o].honest => WireFee <= WireTotal(o, Committed)
    /\ \A r \in Of(open, "refund") : \A o \in Of(Numbered, "wire") :
          Op[r].deposit \notin Op[o].deposits

(* A refund is of a deposit that was not wired.                            *)
LEMMA InsertRefund ==
    ASSUME RowsInv, RefundInv, MaxOpen = 1, NEW o \in plan, Insert(o)
    PROVE  RefundInv'
PROOF
<1>1. /\ open = {} /\ open' = {o} /\ plan' = plan /\ row[o].id = 0 /\ Accepted(o)
      /\ row'[o].amt = Amount(o) /\ row'[o].id = NextSerial(Op[o].kind)
      /\ \A p \in plan \ {o} : row'[p] = row[p]
      /\ o \notin Committed /\ Committed' = Committed
  BY InsertEffect
<1>2. Numbered' = Numbered \cup {o} /\ Numbered = Committed /\ o \notin Numbered
  BY <1>1, NextSerialLarger DEF Numbered, Committed
<1>3. o \in Ops /\ Numbered \subseteq plan /\ Op[o].honest \in BOOLEAN
  BY CommittedInPlan, OpFacts DEF RowsInv
<1>4. Op[o].kind \in {"deposit", "melt", "refund"} => Amount(o) = Op[o].amount
  BY DEF Amount
<1>5. Op[o].kind \in {"recoup", "recoup_refresh", "refund"} => Justified(o)
  BY <1>1 DEF Accepted, Fraudulent
<1>6. Op[o].kind \in {"recoup", "recoup_refresh"} => Amount(o) \in Nat
  <2> SUFFICES ASSUME Op[o].kind \in {"recoup", "recoup_refresh"} PROVE Amount(o) \in Nat
    OBVIOUS
  <2>1. Amount(o) \in 1..DenomOfCoin(Op[o].coin).value
    BY <1>5 DEF Justified
  <2>2. DenomOfCoin(Op[o].coin).value \in Nat
    BY <1>3, OpFacts, CoinFacts
  <2> QED
    BY <2>1, <2>2
<1>7. \A p \in Numbered' :
          /\ Op[p].kind \in {"deposit", "melt", "refund"} => row'[p].amt = Op[p].amount
          /\ Op[p].kind \in {"recoup", "recoup_refresh"} => row'[p].amt \in Nat
  BY <1>1, <1>2, <1>3, <1>4, <1>6 DEF RefundInv
<1>8. Op[o].kind = "refund" =>
          /\ Op[o].deposit \in Committed
          /\ Total(RefundsOf(Op[o].deposit, Committed)) + Op[o].amount <= row[Op[o].deposit].amt
  BY <1>5 DEF Justified, RefundsOf
<1>9. \A r \in Of(Numbered, "refund")' : Op[r].deposit \in Committed'
  BY <1>1, <1>2, <1>8 DEF RefundInv, Of
<1>10. ASSUME NEW d \in Of(Numbered, "deposit")'
       PROVE  Total(RefundsOf(d, Numbered))' <= row'[d].amt
  <2> DEFINE R == RefundsOf(d, Numbered)
             Q == RefundsOf(d, Numbered')
  <2>1. R \subseteq plan \ {o} /\ R \subseteq plan
    BY <1>2, <1>3 DEF RefundsOf, Of
  <2>2. IsFiniteSet(R) /\ Total(R) \in Int
    <3> HIDE DEF R
    <3> QED
      BY <2>1, TotalInt
  <2>3. SumFunctionOnSet(AmountIn', R) = Total(R)
    <3>1. \A p \in R : row'[p] = row[p]
      BY <1>1, <2>1
    <3> HIDE DEF R
    <3> QED
      BY <1>1, <2>1, <3>1, TotalKept DEF Total
  <2>4. Total(RefundsOf(d, Numbered))' = SumFunctionOnSet(AmountIn', Q)
    BY DEF Total, RefundsOf, Of
  <2>5. CASE o \in Q
    <3>1. Op[o].kind = "refund" /\ Op[o].deposit = d /\ Q = R \cup {o}
      BY <1>2, <2>5 DEF RefundsOf, Of
    <3>2. d \in Committed /\ Total(R) + Op[o].amount <= row[d].amt /\ d # o
      BY <1>1, <1>2, <1>8, <3>1
    <3>3. \A p \in R \cup {o} : AmountIn'[p] \in Int
      <4>1. \A p \in R : AmountIn'[p] = row[p].amt /\ row[p].amt \in Int
        BY <1>1, <2>1 DEF AmountIn, RowsInv
      <4>2. AmountIn'[o] = row'[o].amt /\ row'[o].amt \in Int
        BY <1>1, AmountInt DEF AmountIn
      <4> QED
        BY <4>1, <4>2
    <3>4. o \notin R
      BY <2>1
    <3> HIDE DEF R, Q
    <3>5. SumFunctionOnSet(AmountIn', R \cup {o}) = SumFunctionOnSet(AmountIn', R) + AmountIn'[o]
      BY ONLY <2>2, <3>3, <3>4, SumAdd
    <3>6. AmountIn'[o] = Op[o].amount
      BY <1>1, <1>4, <3>1 DEF AmountIn
    <3>7. row'[d] = row[d]
      BY <1>1, <1>2, <1>3, <3>2
    <3> QED
      BY <2>3, <2>4, <3>1, <3>2, <3>5, <3>6, <3>7
  <2>6. CASE o \notin Q
    <3>1. Q = R
      BY <1>2, <2>6 DEF RefundsOf, Of
    <3>2. CASE d = o
      <4>1. R = {}
        BY <1>1, <1>2, <3>2 DEF RefundInv, RefundsOf, Of
      <4>2. Total(R) = 0
        BY <4>1, SumEmpty DEF Total
      <4>3. row'[d].amt = Op[o].amount /\ Op[o].amount \in Nat
        BY <1>1, <1>3, <1>4, <3>2, OpFacts DEF Of
      <4> QED
        BY <2>3, <2>4, <3>1, <4>2, <4>3
    <3>3. CASE d # o
      <4>1. d \in Of(Numbered, "deposit") /\ d \in plan
        BY <1>2, <1>3, <3>3 DEF Of
      <4> QED
        BY <1>1, <2>3, <2>4, <3>1, <3>3, <4>1 DEF RefundInv
    <3> QED
      BY <3>2, <3>3
  <2> QED
    BY <2>5, <2>6
<1> QED
  BY <1>7, <1>9, <1>10 DEF RefundInv

(* Every step keeps the refunds within their deposits.                     *)
LEMMA NextRefund ==
    ASSUME RowsInv, RefundInv, MaxOpen = 1, [Next]_vars
    PROVE  RefundInv'
PROOF
<1>1. ASSUME NEW o \in plan, Insert(o)
      PROVE  RefundInv'
  BY <1>1, InsertRefund
<1>2. ASSUME row' = row, plan' = plan
      PROVE  RefundInv'
  <2>1. Committed \subseteq Committed'
    BY CommittedKept
  <2>2. Numbered' = Numbered /\ AmountIn' = AmountIn
    BY <1>2 DEF Numbered, AmountIn
  <2>3. \A d : Total(RefundsOf(d, Numbered))' = Total(RefundsOf(d, Numbered))
    BY <2>2 DEF Total, RefundsOf, Of
  <2> QED
    BY <1>2, <2>1, <2>2, <2>3 DEF RefundInv, Of
<1>3. ASSUME NEW o \in plan, Commit(o)
      PROVE  RefundInv'
  BY <1>2, <1>3, CommitEffect
<1>4. CASE BooksSame
  BY <1>2, <1>4 DEF BooksSame
<1> QED
  BY <1>1, <1>3, <1>4, StepCases

(* A transfer is worth the same as long as its deposits and their refunds  *)
(* stay what they are.                                                     *)
LEMMA WireTotalKept ==
    ASSUME RowsInv, plan' = plan, NEW S, NEW U, S \subseteq plan, NEW o \in Ops,
           Op[o].kind = "wire", Op[o].deposits \subseteq plan,
           \A d \in Op[o].deposits : row'[d] = row[d] /\ RefundsOf(d, U) = RefundsOf(d, S),
           \A r \in Of(S, "refund") : row'[r] = row[r]
    PROVE  /\ SumFunctionOnSet([d \in Op[o].deposits |-> Contribution(d, U)'], Op[o].deposits)
                = WireTotal(o, S)
           /\ \A d \in Op[o].deposits : Contribution(d, U)' = Contribution(d, S)
PROOF
<1>1. ASSUME NEW d \in Op[o].deposits
      PROVE  Contribution(d, U)' = Contribution(d, S)
  <2> DEFINE R == RefundsOf(d, S)
  <2>1. R \subseteq plan /\ \A r \in R : row'[r] = row[r]
    BY DEF RefundsOf, Of
  <2>2. SumFunctionOnSet(AmountIn', R) = SumFunctionOnSet(AmountIn, R)
    <3> HIDE DEF R
    <3> QED
      BY <2>1, TotalKept
  <2>3. {r \in Of(U, "refund") : Op[r].deposit = d} = R
    BY DEF RefundsOf
  <2> QED
    BY <2>2, <2>3 DEF Contribution, Total, RefundsOf
<1>2. [d \in Op[o].deposits |-> Contribution(d, U)'] = [d \in Op[o].deposits |-> Contribution(d, S)]
  BY <1>1
<1> QED
  BY <1>1, <1>2 DEF WireTotal

(* A transfer is worth its deposits when it is inserted.                   *)
LEMMA InsertWire ==
    ASSUME RowsInv, RefundInv, WireInv, MaxOpen = 1, NEW o \in plan, Insert(o)
    PROVE  WireInv'
PROOF
<1>1. /\ open = {} /\ open' = {o} /\ plan' = plan /\ row[o].id = 0 /\ Accepted(o)
      /\ row'[o].amt = Amount(o) /\ row'[o].id = NextSerial(Op[o].kind)
      /\ \A p \in plan \ {o} : row'[p] = row[p]
      /\ o \notin Committed /\ Committed' = Committed
  BY InsertEffect
<1>2. Numbered' = Numbered \cup {o} /\ Numbered = Committed /\ o \notin Numbered
  BY <1>1, NextSerialLarger DEF Numbered, Committed
<1>3. o \in Ops /\ Numbered \subseteq plan /\ Op[o].honest \in BOOLEAN /\ plan \subseteq Ops
      /\ Committed \subseteq plan
  BY CommittedInPlan, OpFacts DEF RowsInv
<1>4. ASSUME NEW p \in Ops, Op[p].kind = "wire", Op[p].deposits \subseteq Committed
      PROVE  WireTotal(p, Committed)' = WireTotal(p, Committed)
  <2>1. \A d \in Op[p].deposits :
            row'[d] = row[d] /\ RefundsOf(d, Committed') = RefundsOf(d, Committed)
    BY <1>1, <1>3, <1>4
  <2>2. \A r \in Of(Committed, "refund") : row'[r] = row[r]
    BY <1>1, <1>3 DEF Of
  <2>3. Op[p].deposits \subseteq plan
    BY <1>3, <1>4
  <2>4. SumFunctionOnSet([d \in Op[p].deposits |-> Contribution(d, Committed)'], Op[p].deposits)
          = WireTotal(p, Committed)
    BY <1>1, <1>3, <1>4, <2>1, <2>2, <2>3, WireTotalKept
  <2> QED
    BY <2>4 DEF WireTotal
<1>5. ASSUME Op[o].kind = "wire"
      PROVE  /\ Op[o].deposits \subseteq Committed
             /\ row'[o].amt = RoundedDown(WireTotal(o, Committed) - WireFee)
                             + (IF Op[o].honest THEN 0 ELSE 1)
             /\ Op[o].honest => WireFee <= WireTotal(o, Committed)
  <2>1. Op[o].deposits \subseteq Committed
    BY <1>1, <1>3, <1>5, AcceptedWire
  <2>2. WireTotal(o, Committed) \in Int
    BY <1>3, <1>5, <2>1, WireTotalInt
  <2>3. Op[o].honest => WireTotal(o, Committed) >= WireFee + RoundUnit
    BY <1>1, <1>5 DEF Accepted, Justified
  <2>4. Op[o].honest => WireFee <= WireTotal(o, Committed)
    BY <2>2, <2>3, BooksAssumption
  <2> QED
    BY <1>1, <1>5, <2>1, <2>4 DEF Amount
<1>6. ASSUME NEW p \in Of(Numbered, "wire")'
      PROVE  /\ Op[p].deposits \subseteq Committed'
             /\ row'[p].amt = RoundedDown(WireTotal(p, Committed)' - WireFee)
                             + (IF Op[p].honest THEN 0 ELSE 1)
             /\ Op[p].honest => WireFee <= WireTotal(p, Committed)'
  <2>1. p \in Ops /\ Op[p].kind = "wire"
    BY <1>1, <1>2, <1>3 DEF Of
  <2>2. CASE p = o
    BY <1>1, <1>4, <1>5, <2>1, <2>2
  <2>3. CASE p # o
    <3>1. p \in Of(Numbered, "wire") /\ row'[p] = row[p]
      BY <1>1, <1>2, <1>3, <2>3 DEF Of
    <3> QED
      BY <1>1, <1>4, <2>1, <3>1 DEF WireInv
  <2> QED
    BY <2>2, <2>3
<1>7. ASSUME NEW r \in Of(open, "refund")', NEW p \in Of(Numbered, "wire")'
      PROVE  Op[r].deposit \notin Op[p].deposits
  <2>1. r = o /\ Op[o].kind = "refund" /\ p \in Of(Committed, "wire")
    BY <1>1, <1>2 DEF Of
  <2>2. Justified(o)
    BY <1>1, <2>1 DEF Accepted, Fraudulent
  <2>3. ~Wired(Op[o].deposit)
    BY <2>1, <2>2 DEF Justified
  <2> QED
    BY <2>1, <2>3 DEF Wired
<1> QED
  BY <1>6, <1>7 DEF WireInv, RoundedDown

(* A commit does not change what a transfer is worth.                      *)
LEMMA CommitWire ==
    ASSUME RowsInv, RefundInv, WireInv, NEW o \in plan, Commit(o)
    PROVE  WireInv'
PROOF
<1>1. /\ open = {o} /\ open' = {} /\ plan' = plan /\ row' = row
      /\ o \in Numbered /\ o \notin Committed /\ Committed' = Committed \cup {o}
  BY CommitEffect
<1>2. Numbered' = Numbered /\ Committed \subseteq plan /\ plan \subseteq Ops /\ Numbered \subseteq plan
  BY <1>1, CommittedInPlan DEF Numbered, RowsInv
<1>3. ASSUME NEW p \in Of(Numbered, "wire")
      PROVE  WireTotal(p, Committed)' = WireTotal(p, Committed)
  <2>1. p \in Ops /\ Op[p].kind = "wire" /\ Op[p].deposits \subseteq plan
    BY <1>2 DEF Of, WireInv
  <2>2. \A d \in Op[p].deposits : RefundsOf(d, Committed') = RefundsOf(d, Committed)
    BY <1>1 DEF WireInv, RefundsOf, Of
  <2>3. SumFunctionOnSet([d \in Op[p].deposits |-> Contribution(d, Committed)'], Op[p].deposits)
          = WireTotal(p, Committed)
    BY <1>1, <1>2, <2>1, <2>2, WireTotalKept, ZenonT(40)
  <2> QED
    BY <2>3 DEF WireTotal
<1>4. Of(Numbered, "wire")' = Of(Numbered, "wire") /\ Of(open, "refund")' = {}
  BY <1>1, <1>2 DEF Of
<1> QED
  BY <1>1, <1>3, <1>4 DEF WireInv, RoundedDown

(* No step changes what a transfer is worth.                               *)
LEMMA NextWire ==
    ASSUME RowsInv, RefundInv, WireInv, MaxOpen = 1, [Next]_vars
    PROVE  WireInv'
PROOF
<1>1. CASE BooksSame
  <2>1. /\ Committed' = Committed /\ Numbered' = Numbered /\ AmountIn' = AmountIn
        /\ row' = row /\ plan' = plan /\ open' = open
    BY <1>1 DEF BooksSame, Committed, Numbered, AmountIn
  <2>2. \A d : Contribution(d, Committed)' = Contribution(d, Committed)
    BY <2>1 DEF Contribution, Of, Total
  <2>3. \A o : WireTotal(o, Committed)' = WireTotal(o, Committed)
    BY <2>1, <2>2 DEF WireTotal
  <2> QED
    BY <2>1, <2>3 DEF WireInv, RoundedDown, Of
<1> QED
  BY <1>1, InsertWire, CommitWire, StepCases

(* Before the first audit there are only credits and withdrawals.          *)
LEMMA InitRowKinds == Init => \A o \in Numbered : Op[o].kind \in {"credit", "withdraw"}
PROOF
<1> SUFFICES ASSUME Init PROVE \A o \in Numbered : Op[o].kind \in {"credit", "withdraw"}
  OBVIOUS
<1>1. PICK P \in Plans :
         LET ins == Range(P.credits)
             outs == Range(P.withdrawals)
             serial(s, o) == CHOOSE i \in DOMAIN s : s[i] = o
         IN /\ plan = ins \cup outs \cup P.then
            /\ row = [o \in plan |->
                  CASE o \in ins -> [id |-> serial(P.credits, o),
                                     amt |-> Op[o].amount, at |-> 0]
                    [] o \in outs -> [id |-> serial(P.withdrawals, o),
                                      amt |-> Price(Op[o].coin), at |-> 0]
                    [] OTHER -> [id |-> 0, amt |-> 0, at |-> 0]]
  BY DEF Init, BooksInit
<1>2. /\ \A o \in Range(P.credits) : Op[o].kind = "credit"
      /\ \A o \in Range(P.withdrawals) : Op[o].kind = "withdraw"
  BY PlanAssumption
<1>3. \A o \in plan : o \notin Range(P.credits) /\ o \notin Range(P.withdrawals)
          => row[o].id = 0
  BY <1>1
<1> QED
  BY <1>2, <1>3 DEF Numbered

(* Before the first audit there is neither a refund nor a transfer.        *)
LEMMA InitRefund == Init => RefundInv /\ WireInv
PROOF
<1> SUFFICES ASSUME Init PROVE RefundInv /\ WireInv
  OBVIOUS
<1>1. \A o \in Numbered : Op[o].kind \in {"credit", "withdraw"}
  BY InitRowKinds
<1>2. open = {}
  BY DEF Init, BooksInit
<1> QED
  BY <1>1, <1>2 DEF RefundInv, WireInv, Of

---------------------------------------------------------------------------
(* The aggregation helper.                                                 *)

(* A product of a factor above 1 is not 1.                                 *)
LEMMA ProductNotOne ==
    ASSUME NEW u \in Nat, u > 1, NEW k \in Int
    PROVE  u * k # 1
PROOF
<1>1. CASE k <= 0
  <2>1. u * k <= 0
    BY <1>1
  <2> QED
    BY <2>1
<1>2. CASE k >= 1
  <2>1. k - 1 \in Nat
    BY <1>2
  <2>2. u * (k - 1) \in Nat
    BY <2>1
  <2>3. u * k = u * (k - 1) + u
    OBVIOUS
  <2> QED
    BY <2>2, <2>3
<1> QED
  BY <1>1, <1>2

(* An amount that is rounded down is a multiple of the unit.               *)
LEMMA RoundedMultiple ==
    ASSUME NEW a \in Int
    PROVE  /\ \E k \in Int : RoundedDown(a) = RoundUnit * k
           /\ RoundUnit = 1 => RoundedDown(a) = a
           /\ RoundedDown(a) <= a
PROOF
<1>0. RoundUnit \in Nat /\ RoundUnit > 0
  BY BooksAssumption
<1>1. PICK u \in Nat : u = RoundUnit /\ u > 0
  BY <1>0
<1>2. PICK q, m : q = a \div u /\ m = a % u
  OBVIOUS
<1>3. q \in Int /\ m \in 0..(u - 1) /\ a = u * q + m
  BY ONLY <1>1, <1>2, a \in Int
<1>4. a - m = u * q /\ m >= 0 /\ m <= u - 1
  BY ONLY <1>1, <1>3
<1>5. RoundedDown(a) = a - m
  BY <1>1, <1>2 DEF RoundedDown
<1>6. u = 1 => a - m = a
  BY ONLY <1>3, <1>4, a \in Int
<1>7. a - m <= a
  BY ONLY <1>3, <1>4, a \in Int
<1> QED
  BY <1>1, <1>3, <1>4, <1>5, <1>6, <1>7

(* A dishonest transfer is not of an amount that the auditor expects: one  *)
(* unit above a rounded amount is not a rounded amount.                    *)
LEMMA TooMuch ==
    ASSUME RoundUnit # 1 \/ WireFee # 1, NEW x \in Int
    PROVE  RoundedDown(x - WireFee) + 1
             # RoundedDown(x - (IF x < WireFee THEN 0 ELSE WireFee))
PROOF
<1>0. WireFee \in Nat /\ RoundUnit \in Nat /\ RoundUnit > 0
  BY BooksAssumption
<1>1. PICK f \in Nat : f = WireFee
  BY <1>0
<1>2. x - f \in Int /\ x - 0 = x
  BY ONLY <1>1, x \in Int, f \in Nat
<1>3. RoundedDown(x - f) \in Int
  BY <1>2, RoundedInt
<1>4. CASE ~(x < f)
  BY <1>1, <1>3, <1>4
<1>5. CASE x < f /\ RoundUnit = 1
  <2>1. RoundedDown(x - f) = x - f /\ RoundedDown(x) = x
    BY <1>2, <1>5, RoundedMultiple
  <2>2. f # 1
    BY <1>1, <1>5
  <2>3. x - f + 1 # x
    BY ONLY <2>2, x \in Int, f \in Nat
  <2>4. (IF x < WireFee THEN 0 ELSE WireFee) = 0
    BY <1>1, <1>5
  <2> QED
    BY <1>1, <1>2, <2>1, <2>3, <2>4
<1>6. CASE x < f /\ RoundUnit # 1
  <2>1. PICK j \in Int, k \in Int : RoundedDown(x - f) = RoundUnit * j
                                   /\ RoundedDown(x) = RoundUnit * k
    BY <1>2, RoundedMultiple
  <2>2. PICK u \in Nat : u = RoundUnit /\ u > 1
    BY <1>0, <1>6
  <2>3. k - j \in Int /\ u * (k - j) = u * k - u * j
    BY ONLY k \in Int, j \in Int, u \in Nat
  <2>4. u * (k - j) # 1
    BY <2>2, <2>3, ProductNotOne
  <2>5. u * k \in Int /\ u * j \in Int
    BY ONLY k \in Int, j \in Int, u \in Nat
  <2> DEFINE y == u * k
             z == u * j
  <2>6. y \in Int /\ z \in Int /\ y - z # 1
    BY <2>3, <2>4, <2>5
  <2>7. RoundedDown(x - f) = z /\ RoundedDown(x) = y
    BY <2>1, <2>2
  <2> HIDE DEF y, z
  <2>8. z + 1 # y
    BY ONLY <2>6
  <2>9. (IF x < WireFee THEN 0 ELSE WireFee) = 0
    BY <1>1, <1>6
  <2> QED
    BY <1>1, <1>2, <2>7, <2>8, <2>9
<1> QED
  BY <1>4, <1>5, <1>6

(* The auditor computes from the rows what the aggregator computed.        *)
LEMMA GainIsContribution ==
    ASSUME RowsInv, RefundInv, NEW d \in Of(Committed, "deposit")
    PROVE  /\ Contribution(d, Committed) \in Nat
           /\ MerchantGain(d, Committed) = Contribution(d, Committed)
           /\ GainAfterRefunds(d, Committed) \in Nat
PROOF
<1> DEFINE R == RefundsOf(d, Committed)
           Q == RefundsOf(d, Numbered)
<1>1. d \in Ops /\ Op[d].kind = "deposit" /\ d \in Of(Numbered, "deposit") /\ d \in Numbered
      /\ Committed \subseteq Numbered /\ Numbered \subseteq plan /\ plan \subseteq Ops
  BY CommittedInPlan DEF Of, RowsInv
<1>2. PICK fee, amt : fee = DenomOfCoin(Op[d].coin).deposit /\ amt = row[d].amt
  OBVIOUS
<1>3. fee \in Nat /\ amt \in Nat /\ fee <= amt
  BY <1>1, <1>2, OpFacts, CoinFacts DEF RefundInv
<1>4. R \subseteq Q /\ Q \subseteq plan /\ R \subseteq plan
  BY <1>1 DEF RefundsOf, Of
<1>5. \A r \in Q : row[r].amt \in Nat
  BY <1>1, OpFacts DEF RefundInv, RefundsOf, Of
<1>6. Total(Q) <= amt
  BY <1>1, <1>2 DEF RefundInv
<1>7. Total(R) \in Nat /\ Total(R) <= amt
  <2> HIDE DEF R, Q
  <2>1. IsFiniteSet(Q) /\ Total(R) \in Nat /\ Total(Q) \in Nat
    BY <1>4, <1>5, TotalInt, TotalNat
  <2>2. \A r \in Q : AmountIn[r] \in Nat
    BY <1>4, <1>5 DEF AmountIn
  <2>3. SumFunctionOnSet(AmountIn, R) <= SumFunctionOnSet(AmountIn, Q)
    BY ONLY <1>4, <2>1, <2>2, SumSubset
  <2> QED
    BY <1>3, <1>6, <2>1, <2>3 DEF Total
<1>8. R = {} => Total(R) = 0
  BY SumEmpty DEF Total
<1>9. PICK tot \in Nat : tot = Total(R) /\ tot <= amt
  BY <1>7
<1>10. Contribution(d, Committed) = amt - (IF R = {} THEN fee ELSE tot)
  BY <1>2, <1>9 DEF Contribution, RefundsOf
<1>11. /\ GainAfterRefunds(d, Committed) = (amt - fee) + ((IF R = {} THEN 0 ELSE fee) - tot)
       /\ MerchantGain(d, Committed) = Max({0, GainAfterRefunds(d, Committed)})
  BY <1>2, <1>9 DEF GainAfterRefunds, MerchantGain, RefundsOf
<1>12. CASE R = {}
  <2>1. (amt - fee) + ((IF R = {} THEN 0 ELSE fee) - tot) = amt - fee /\ amt - fee \in Nat
    BY <1>3, <1>8, <1>9, <1>12
  <2>2. Max({0, amt - fee}) = amt - fee
    BY <2>1, MaxZero
  <2>3. GainAfterRefunds(d, Committed) = amt - fee /\ Contribution(d, Committed) = amt - fee
    BY <1>10, <1>11, <1>12, <2>1
  <2> QED
    BY <1>11, <2>1, <2>2, <2>3
<1>13. CASE R # {}
  <2>1. (amt - fee) + ((IF R = {} THEN 0 ELSE fee) - tot) = amt - tot /\ amt - tot \in Nat
    BY <1>3, <1>9, <1>13
  <2>2. Max({0, amt - tot}) = amt - tot
    BY <2>1, MaxZero
  <2>3. GainAfterRefunds(d, Committed) = amt - tot /\ Contribution(d, Committed) = amt - tot
    BY <1>10, <1>11, <1>13, <2>1
  <2> QED
    BY <1>11, <2>1, <2>2, <2>3
<1> QED
  BY <1>12, <1>13

(* The auditor adds the same deposits.                                     *)
LEMMA DepositsAddUp ==
    ASSUME RowsInv, RefundInv, WireInv, NEW o \in Of(Committed, "wire")
    PROVE  /\ WireTotal(o, Committed) \in Nat
           /\ TotalDeposits(o, Committed) = WireTotal(o, Committed)
PROOF
<1>1. o \in Ops /\ Op[o].kind = "wire" /\ Op[o].deposits \subseteq Committed
  BY CommittedInPlan DEF Of, RowsInv, WireInv
<1>2. IsFiniteSet(Op[o].deposits) /\ Op[o].deposits \subseteq Of(Committed, "deposit")
  BY <1>1, OpFacts DEF Of
<1> DEFINE f == [d \in Op[o].deposits |-> Contribution(d, Committed)]
           g == [d \in Op[o].deposits |-> MerchantGain(d, Committed)]
<1>3. \A d \in Op[o].deposits : f[d] \in Nat /\ g[d] = f[d]
  BY <1>2, GainIsContribution
<1>4. f = g
  BY <1>3
<1>5. SumFunctionOnSet(f, Op[o].deposits) \in Nat
  <2> HIDE DEF f, g
  <2> QED
    BY ONLY <1>2, <1>3, SumNat
<1> QED
  BY <1>4, <1>5 DEF WireTotal, TotalDeposits

\* The transfers below the mark that are too high have their alarms.
WireAuditInv ==
    /\ MarkOK("wire", ppa)
    /\ \A o \in Passed("wire", ppa) : ~Op[o].honest => <<"wire out amount", o>> \in alarms

(* The auditor finds a transfer of a wrong amount.                         *)
LEMMA WrongWireFound ==
    ASSUME RoundUnit # 1 \/ WireFee # 1, RowsInv, RefundInv, WireInv,
           NEW o \in Of(Committed, "wire"), ~Op[o].honest
    PROVE  WrongAmount(o, Committed)
PROOF
<1>1. WireTotal(o, Committed) \in Nat /\ TotalDeposits(o, Committed) = WireTotal(o, Committed)
  BY DepositsAddUp
<1>2. row[o].amt = RoundedDown(WireTotal(o, Committed) - WireFee) + 1
  BY CommittedInPlan DEF WireInv, Of
<1>3. PICK x \in Int : x = WireTotal(o, Committed)
  BY <1>1
<1>4. RoundedDown(x - WireFee) + 1 # RoundedDown(x - (IF x < WireFee THEN 0 ELSE WireFee))
  BY TooMuch
<1> QED
  BY <1>1, <1>2, <1>3, <1>4 DEF WrongAmount, ExpectedWire, FeeExceeds

(* Every step keeps the wrong transfers reported.                          *)
LEMMA NextWireAudit ==
    ASSUME RoundUnit # 1 \/ WireFee # 1, MaxOpen = 1, RowsInv, RefundInv, WireInv,
           WireAuditInv, [Next]_vars
    PROVE  WireAuditInv'
PROOF
<1>1. CASE Aggregation_
  <2> DEFINE T == Above("wire", Committed, ppa)
             n == MarkAfter(T, ppa)
  <2>1. /\ MarkOK("wire", n) /\ Passed("wire", n) = Passed("wire", ppa) \cup T
    BY MarkAudit DEF WireAuditInv
  <2>2. ppa' = n /\ alarms \subseteq alarms'
        /\ Alarm("wire out amount", {o \in T : WrongAmount(o, Committed)}) \subseteq alarms'
    BY <1>1 DEF Aggregation_, AuditAggregation, StoreAggregationProgress, Raise, WireOutAbove
  <2>3. row' = row /\ plan' = plan /\ Committed' = Committed
    BY <1>1 DEF Aggregation_, bookVars, Committed
  <2>4. MarkOK("wire", ppa)' /\ Passed("wire", ppa)' = Passed("wire", n)
    BY <2>1, <2>2, <2>3 DEF MarkOK, Passed, Of
  <2>5. \A o \in T : ~Op[o].honest => <<"wire out amount", o>> \in alarms'
    <3> TAKE o \in T
    <3> HAVE ~Op[o].honest
    <3>1. o \in Of(Committed, "wire")
      BY DEF Above
    <3>2. WrongAmount(o, Committed)
      BY <3>1, WrongWireFound
    <3> QED
      BY <2>2, <3>2 DEF Alarm
  <2> QED
    BY <2>1, <2>2, <2>4, <2>5 DEF WireAuditInv
<1>2. CASE ~Aggregation_
  <2>1. ppa' = ppa
    BY <1>2 DEF Next, Exchange, Confirm, Reserves_, Coins_, Wire_, Deposits_,
                  Fails, vars, auditorVars, aggregationAuditVars
  <2>2. alarms \subseteq alarms'
    BY <1>2, ReserveAdds, CoinAdds, WireAdds, DepositAdds, OtherAdds DEF Next, Adds
  <2>3. PICK m : m = ppa
    OBVIOUS
  <2>4. MarkOK("wire", m)' /\ Passed("wire", m)' = Passed("wire", m)
    BY <2>3, MarkStep DEF WireAuditInv
  <2>5. MarkOK("wire", ppa)' /\ Passed("wire", ppa)' = Passed("wire", ppa)
    BY <2>1, <2>3, <2>4 DEF MarkOK, Passed
  <2> QED
    BY <2>2, <2>5 DEF WireAuditInv
<1> QED
  BY <1>1, <1>2

(* Before the first audit no transfer was passed.                          *)
LEMMA InitWireAudit == Init /\ RowsInv => WireAuditInv
PROOF
  BY FirstMark DEF Init, AuditAggregationInit, WireAuditInv

---------------------------------------------------------------------------
(* What was spent of a coin.                                               *)

\* The kinds of rows that spend a coin.
Spends == {"deposit", "melt", "recoup", "recoup_refresh"}
SpendRows(c, S) == RowsOf(c, S, Spends)
RefundRows(c, S) == RowsOf(c, S, {"refund"})

(* The parts of Spent.                                                     *)
LEMMA SpentParts ==
    ASSUME RowsInv, NEW S, S \subseteq plan, NEW c \in Coins
    PROVE  /\ Total(SpendRows(c, S)) \in Int /\ Total(RefundRows(c, S)) \in Int
           /\ Total(OldCoinRecoups(c, S)) \in Int
           /\ IsFiniteSet(RefundRows(c, S)) /\ Cardinality(RefundRows(c, S)) \in Nat
           /\ Spent(c, S) = (Total(SpendRows(c, S))
                             + Cardinality(RefundRows(c, S)) * DenomOfCoin(c).refund)
                            - (Total(RefundRows(c, S)) + Total(OldCoinRecoups(c, S)))
                            - (IF RefundRows(c, S) = {} THEN 0 ELSE DenomOfCoin(c).deposit)
PROOF
<1> DEFINE P == SpendRows(c, S)
           R == RefundRows(c, S)
           B == OldCoinRecoups(c, S)
<1>1. P \subseteq plan /\ R \subseteq plan /\ B \subseteq plan /\ R \cap B = {}
  BY DEF SpendRows, RefundRows, RowsOf, OldCoinRecoups, Of
<1>2. DenomOfCoin(c).refund \in Nat /\ DenomOfCoin(c).deposit \in Nat
  BY CoinFacts
<1>3. Spent(c, S) = Total(P) + Cardinality(R) * DenomOfCoin(c).refund - Total(R \cup B)
                    - (IF R = {} THEN 0 ELSE DenomOfCoin(c).deposit)
  BY DEF Spent, SpendRows, RefundRows, Spends
<1> HIDE DEF P, R, B
<1>4. /\ Total(P) \in Int /\ Total(R) \in Int /\ Total(B) \in Int
      /\ IsFiniteSet(R) /\ Total(R \cup B) = Total(R) + Total(B)
  BY <1>1, TotalInt, TotalUnion
<1>5. Cardinality(R) \in Nat
  BY <1>4, FS_CardinalityType
<1> DEFINE x == Cardinality(R) * DenomOfCoin(c).refund
           y == IF R = {} THEN 0 ELSE DenomOfCoin(c).deposit
<1>6. x \in Int /\ y \in Int
  BY <1>2, <1>5
<1>7. Spent(c, S) = (Total(P) + x) - (Total(R) + Total(B)) - y
  <2>1. Spent(c, S) = Total(P) + x - Total(R \cup B) - y
    BY <1>3
  <2> HIDE DEF x, y
  <2> QED
    BY <1>4, <1>6, <2>1
<1> QED
  BY <1>4, <1>5, <1>7 DEF P, R, B

(* What a row does to what has been spent of a coin.                       *)
LEMMA SpentAdd ==
    ASSUME RowsInv, NEW S, S \subseteq plan, NEW c \in Coins, NEW o \in plan, o \notin S,
           NEW T, T = S \cup {o}
    PROVE  /\ o \in SpendRows(c, T) /\ o \notin OldCoinRecoups(c, T)
                => Spent(c, T) = Spent(c, S) + row[o].amt
           /\ o \in RefundRows(c, T)
                => Spent(c, T) = Spent(c, S) + DenomOfCoin(c).refund - row[o].amt
                                 - (IF RefundRows(c, S) = {} THEN DenomOfCoin(c).deposit ELSE 0)
           /\ o \notin SpendRows(c, T) /\ o \in OldCoinRecoups(c, T)
                => Spent(c, T) = Spent(c, S) - row[o].amt
           /\ o \notin SpendRows(c, T) /\ o \notin RefundRows(c, T) /\ o \notin OldCoinRecoups(c, T)
                => Spent(c, T) = Spent(c, S)
PROOF
<1> DEFINE P == SpendRows(c, S)
           R == RefundRows(c, S)
           B == OldCoinRecoups(c, S)
           P2 == SpendRows(c, T)
           R2 == RefundRows(c, T)
           B2 == OldCoinRecoups(c, T)
           rf == DenomOfCoin(c).refund
           df == DenomOfCoin(c).deposit
<1>1. /\ P2 = IF o \in P2 THEN P \cup {o} ELSE P
      /\ R2 = IF o \in R2 THEN R \cup {o} ELSE R
      /\ B2 = IF o \in B2 THEN B \cup {o} ELSE B
  BY DEF SpendRows, RefundRows, RowsOf, OldCoinRecoups, Of
<1>2. /\ P \subseteq plan /\ R \subseteq plan /\ B \subseteq plan
      /\ o \notin P /\ o \notin R /\ o \notin B
  BY DEF SpendRows, RefundRows, RowsOf, OldCoinRecoups, Of
<1>3. o \in R2 => o \notin P2 /\ o \notin B2
  BY DEF SpendRows, RefundRows, RowsOf, OldCoinRecoups, Of, Spends
<1>4. /\ Total(P) \in Int /\ Total(R) \in Int /\ Total(B) \in Int
      /\ IsFiniteSet(R) /\ Cardinality(R) \in Nat
      /\ Spent(c, S) = (Total(P) + Cardinality(R) * rf) - (Total(R) + Total(B))
                       - (IF R = {} THEN 0 ELSE df)
  BY SpentParts
<1>5. /\ Spent(c, T) = (Total(P2) + Cardinality(R2) * rf) - (Total(R2) + Total(B2))
                       - (IF R2 = {} THEN 0 ELSE df)
  <2>1. T \subseteq plan
    OBVIOUS
  <2> QED
    BY <2>1, SpentParts
<1>6. rf \in Nat /\ df \in Nat /\ row[o].amt \in Int
  BY CoinFacts DEF RowsInv
<1>7. ASSUME NEW A, A \subseteq plan, o \notin A
      PROVE  Total(A \cup {o}) = Total(A) + row[o].amt
  <2>1. IsFiniteSet(A) /\ \A p \in A \cup {o} : AmountIn[p] \in Int
    BY <1>7, TotalInt DEF AmountIn, RowsInv
  <2>2. SumFunctionOnSet(AmountIn, A \cup {o}) = SumFunctionOnSet(AmountIn, A) + AmountIn[o]
    BY ONLY <1>7, <2>1, SumAdd
  <2> QED
    BY <2>2 DEF Total, AmountIn
<1>8. Cardinality(R \cup {o}) = Cardinality(R) + 1
  BY <1>2, <1>4, FS_AddElement
<1>9. (Cardinality(R) + 1) * rf = Cardinality(R) * rf + rf
  BY <1>4, <1>6
<1> DEFINE x == Cardinality(R) * rf
<1>10. x \in Nat
  BY <1>4, <1>6
<1>11. Spent(c, S) = (Total(P) + x) - (Total(R) + Total(B)) - (IF R = {} THEN 0 ELSE df)
  BY <1>4
<1>12. Total(P \cup {o}) = Total(P) + row[o].amt /\ Total(R \cup {o}) = Total(R) + row[o].amt
       /\ Total(B \cup {o}) = Total(B) + row[o].amt
  BY <1>2, <1>7
<1>13. R2 = R => Spent(c, T) = (Total(P2) + x) - (Total(R) + Total(B2)) - (IF R = {} THEN 0 ELSE df)
  BY <1>5
<1>14. R2 = R \cup {o} =>
         Spent(c, T) = (Total(P2) + (x + rf)) - ((Total(R) + row[o].amt) + Total(B2)) - df
  BY <1>5, <1>8, <1>9, <1>12
<1> HIDE DEF x, P, R, B, P2, R2, B2, rf, df
<1>15. CASE o \in P2 /\ o \notin B2
  <2>1. R2 = R /\ P2 = P \cup {o} /\ B2 = B
    BY <1>1, <1>3, <1>15
  <2>2. Spent(c, T) = ((Total(P) + row[o].amt) + x) - (Total(R) + Total(B)) - (IF R = {} THEN 0 ELSE df)
    BY <1>12, <1>13, <2>1
  <2>3. Spent(c, T) = Spent(c, S) + row[o].amt
    BY ONLY <1>4, <1>6, <1>10, <1>11, <2>2
  <2> QED
    BY <1>3, <1>15, <2>3 DEF P2, R2, B2
<1>16. CASE o \in R2
  <2>1. R2 = R \cup {o} /\ P2 = P /\ B2 = B
    BY <1>1, <1>3, <1>16
  <2>2. Spent(c, T) = (Total(P) + (x + rf)) - ((Total(R) + row[o].amt) + Total(B)) - df
    BY <1>14, <2>1
  <2>3. Spent(c, T) = Spent(c, S) + rf - row[o].amt - (IF R = {} THEN df ELSE 0)
    BY ONLY <1>4, <1>6, <1>10, <1>11, <2>2
  <2> QED
    BY <1>3, <1>16, <2>3 DEF P2, R2, B2, rf, df, R
<1>17. CASE o \notin P2 /\ o \in B2
  <2>1. R2 = R /\ P2 = P /\ B2 = B \cup {o}
    BY <1>1, <1>3, <1>17
  <2>2. Spent(c, T) = (Total(P) + x) - (Total(R) + (Total(B) + row[o].amt)) - (IF R = {} THEN 0 ELSE df)
    BY <1>12, <1>13, <2>1
  <2>3. Spent(c, T) = Spent(c, S) - row[o].amt
    BY ONLY <1>4, <1>6, <1>10, <1>11, <2>2
  <2> QED
    BY <1>3, <1>17, <2>3 DEF P2, R2, B2
<1>18. CASE o \notin P2 /\ o \notin R2 /\ o \notin B2
  <2>1. R2 = R /\ P2 = P /\ B2 = B
    BY <1>1, <1>18
  <2>2. Spent(c, T) = Spent(c, S)
    BY <1>11, <1>13, <2>1
  <2> QED
    BY <1>18, <2>2 DEF P2, R2, B2
<1>19. CASE o \in P2 /\ o \in B2
  BY <1>3, <1>19 DEF P2, R2, B2
<1> QED
  BY <1>15, <1>16, <1>17, <1>18, <1>19

(* A spending of the coin, which is no recoup of a coin made from it.      *)
LEMMA SpentMore ==
    ASSUME RowsInv, NEW S, S \subseteq plan, NEW c \in Coins, NEW o \in plan, o \notin S,
           NEW T, T = S \cup {o}, o \in SpendRows(c, T), o \notin OldCoinRecoups(c, T)
    PROVE  Spent(c, T) = Spent(c, S) + row[o].amt
PROOF
<1>1. /\ o \in SpendRows(c, T) /\ o \notin OldCoinRecoups(c, T)
           => Spent(c, T) = Spent(c, S) + row[o].amt
      /\ o \in RefundRows(c, T)
           => Spent(c, T) = Spent(c, S) + DenomOfCoin(c).refund - row[o].amt
                            - (IF RefundRows(c, S) = {} THEN DenomOfCoin(c).deposit ELSE 0)
      /\ o \notin SpendRows(c, T) /\ o \in OldCoinRecoups(c, T)
           => Spent(c, T) = Spent(c, S) - row[o].amt
      /\ o \notin SpendRows(c, T) /\ o \notin RefundRows(c, T) /\ o \notin OldCoinRecoups(c, T)
           => Spent(c, T) = Spent(c, S)
  BY SpentAdd, SMTT(60)
<1> QED
  BY <1>1

(* A step does not change what committed rows have spent.                  *)
LEMMA SpentStep ==
    ASSUME RowsInv, plan' = plan, NEW U, U \subseteq plan, Committed' = U,
           \A o \in U : row'[o] = row[o], NEW c \in Coins
    PROVE  Spent(c, Committed)' = Spent(c, U)
PROOF
<1> DEFINE P == SpendRows(c, U)
           R == RefundRows(c, U)
           B == OldCoinRecoups(c, U)
<1>1. OldCoinRecoups(c, Committed)' = B
  BY DEF OldCoinRecoups, OldCoinOf, MeltOf, Of
<1>2. RowsOf(c, Committed, Spends)' = P /\ RowsOf(c, Committed, {"refund"})' = R
  BY DEF SpendRows, RefundRows, RowsOf, CoinOf
<1>3. P \subseteq plan /\ R \cup B \subseteq plan /\ P \subseteq U /\ R \cup B \subseteq U
  BY DEF SpendRows, RefundRows, RowsOf, OldCoinRecoups, Of
<1>4. /\ SumFunctionOnSet(AmountIn', P) = SumFunctionOnSet(AmountIn, P)
      /\ SumFunctionOnSet(AmountIn', R \cup B) = SumFunctionOnSet(AmountIn, R \cup B)
  <2>1. (\A o \in P : row'[o] = row[o]) /\ (\A o \in R \cup B : row'[o] = row[o])
    BY <1>3
  <2> HIDE DEF P, R, B
  <2> QED
    BY <1>3, <2>1, TotalKept
<1>5. Spent(c, U) = SumFunctionOnSet(AmountIn, P) + Cardinality(R) * DenomOfCoin(c).refund
                    - SumFunctionOnSet(AmountIn, R \cup B)
                    - (IF R = {} THEN 0 ELSE DenomOfCoin(c).deposit)
  BY DEF Spent, SpendRows, RefundRows, Spends, Total
<1>6. Spent(c, Committed)'
        = SumFunctionOnSet(AmountIn', P) + Cardinality(R) * DenomOfCoin(c).refund
                    - SumFunctionOnSet(AmountIn', R \cup B)
                    - (IF R = {} THEN 0 ELSE DenomOfCoin(c).deposit)
  <2> HIDE DEF P, R, B
  <2> QED
    BY <1>1, <1>2 DEF Spent, Spends, Total
<1> QED
  BY <1>4, <1>5, <1>6

---------------------------------------------------------------------------
(* The coins helper and overspent coins.                                   *)

\* A coin that was spent beyond its value.
Overspend(c) == Spent(c, Committed) > DenomOfCoin(c).value

\* Rows that an audit has not passed are above the marks.
CoinKinds == Spends \cup {"withdraw"}
CoinMarks == \A k \in CoinKinds : MarkOK(k, ppc[k])
\* A coin whose rows were all passed has its alarm if it is overspent.
OverspendInv ==
    \A c \in Coins : SpendingAudited(c) /\ Overspend(c) => <<"coin history", c>> \in alarms

(* A row that is not committed is above the mark.                          *)
LEMMA UnpassedAbove ==
    ASSUME RowsInv, NEW k, NEW m, MarkOK(k, m), NEW o \in plan, Op[o].kind = k,
           row[o].id > 0, o \notin Committed
    PROVE  ~(row[o].id < m)
PROOF
<1>1. m \in Nat /\ m > 0 /\ row[o].id \in Nat
  BY MarkNat DEF RowsInv
<1>2. o \notin Passed(k, m)
  BY DEF MarkOK
<1>3. row[o].id \notin 1..(m - 1)
  BY <1>2 DEF Passed, Of
<1> QED
  BY <1>1, <1>3

(* What is spent of a coin is committed or above the marks.                *)
LEMMA CommittedSpends ==
    ASSUME RowsInv, NEW c, NEW o \in plan, o \notin Committed, row[o].id > 0,
           CoinMarks, o \in SpendRows(c, plan)
    PROVE  ~SpendingAudited(c)
PROOF
<1>1. Op[o].kind \in Spends
  BY DEF SpendRows, RowsOf
<1>2. ~(row[o].id < ppc[Op[o].kind])
  BY <1>1, UnpassedAbove DEF CoinMarks, CoinKinds
<1> QED
  BY <1>2 DEF SpendingAudited, SpendRows, Spends

(* A commit that is not a spending of the coin does not raise what was     *)
(* spent.                                                                  *)
LEMMA CommitSpent ==
    ASSUME RowsInv, RefundInv, NEW o \in plan, Commit(o), NEW c \in Coins,
           o \notin SpendRows(c, plan)
    PROVE  Spent(c, Committed)' <= Spent(c, Committed) /\ Spent(c, Committed)' \in Int
PROOF
<1>1. /\ plan' = plan /\ row' = row /\ o \in Numbered /\ o \notin Committed
      /\ Committed' = Committed \cup {o}
  BY CommitEffect
<1>2. Committed \subseteq plan /\ plan \subseteq Ops
  BY CommittedInPlan DEF RowsInv
<1>3. PICK S, T : S = Committed /\ T = S \cup {o}
  OBVIOUS
<1>4. S \subseteq plan /\ T \subseteq plan /\ o \notin S
  BY <1>1, <1>2, <1>3
<1>5. Spent(c, Committed)' = Spent(c, T)
  BY <1>1, <1>3, <1>4, SpentStep
<1>6. o \notin SpendRows(c, T)
  BY <1>4 DEF SpendRows, RowsOf
<1>7. Spent(c, S) \in Int /\ Spent(c, T) \in Int
  BY <1>4, SpentInt
<1>8. CASE o \in RefundRows(c, T)
  <2>1. Op[o].kind = "refund" /\ o \in Ops /\ Op[Op[o].deposit].coin = c
    BY <1>2, <1>8 DEF RefundRows, RowsOf, CoinOf
  <2>2. row[o].amt \in Nat /\ DenomOfCoin(c).refund <= row[o].amt
    BY <1>1, <2>1, OpFacts DEF RefundInv
  <2>3. PICK rf, df, a, s, t : rf = DenomOfCoin(c).refund /\ df = DenomOfCoin(c).deposit
                            /\ a = row[o].amt /\ s = Spent(c, S) /\ t = Spent(c, T)
    OBVIOUS
  <2>4. rf \in Nat /\ df \in Nat /\ a \in Nat /\ rf <= a /\ s \in Int /\ t \in Int
    BY <1>7, <2>2, <2>3, CoinFacts
  <2>5. t = s + rf - a - (IF RefundRows(c, S) = {} THEN df ELSE 0)
    BY <1>3, <1>4, <1>8, <2>3, SpentAdd
  <2>6. t <= s
    BY ONLY <2>4, <2>5
  <2> QED
    BY <1>3, <1>5, <1>7, <2>3, <2>6
<1>9. CASE o \in OldCoinRecoups(c, T)
  <2>1. Op[o].kind = "recoup_refresh"
    BY <1>9 DEF OldCoinRecoups, Of
  <2>2. row[o].amt \in Nat
    BY <1>1, <2>1 DEF RefundInv
  <2>3. Spent(c, T) = Spent(c, S) - row[o].amt
    BY <1>3, <1>4, <1>6, <1>9, SpentAdd
  <2> QED
    BY <1>3, <1>5, <1>7, <2>2, <2>3
<1>10. CASE o \notin RefundRows(c, T) /\ o \notin OldCoinRecoups(c, T)
  <2>1. Spent(c, T) = Spent(c, S)
    BY <1>3, <1>4, <1>6, <1>10, SpentAdd
  <2> QED
    BY <1>3, <1>5, <1>7, <2>1
<1> QED
  BY <1>8, <1>9, <1>10

(* Every step keeps the marks of the coins helper.                         *)
LEMMA CoinMarksStep ==
    ASSUME RowsInv, MaxOpen = 1, [Next]_vars, CoinMarks, ppc' = ppc
    PROVE  CoinMarks'
PROOF
<1>1. ASSUME NEW k \in CoinKinds
      PROVE  MarkOK(k, ppc[k])'
  <2>1. PICK m : m = ppc[k]
    OBVIOUS
  <2>2. MarkOK(k, m)'
    BY <2>1, MarkStep DEF CoinMarks
  <2> QED
    BY <2>1, <2>2 DEF MarkOK, Passed
<1> QED
  BY <1>1 DEF CoinMarks, CoinKinds, Spends

(* The steps of everything but the coins helper.                           *)
LEMMA OthersOverspend ==
    ASSUME RowsInv, RefundInv, MaxOpen = 1, [Next]_vars, CoinMarks, OverspendInv, ppc' = ppc,
           alarms \subseteq alarms'
    PROVE  OverspendInv'
PROOF
<1> SUFFICES ASSUME NEW c \in Coins, SpendingAudited(c)', Overspend(c)'
             PROVE  <<"coin history", c>> \in alarms'
  BY DEF OverspendInv
<1>0. plan' = plan /\ DenomOfCoin(c)' = DenomOfCoin(c) /\ Committed \subseteq plan
  BY PlanStays, CommittedInPlan DEF DenomOfCoin
<1>1. ASSUME SpendingAudited(c), Overspend(c)
      PROVE  <<"coin history", c>> \in alarms'
  BY <1>1 DEF OverspendInv
<1>2. ASSUME NEW o \in plan, Insert(o)
      PROVE  SpendingAudited(c) /\ Overspend(c)
  <2>1. /\ row[o].id = 0 /\ row'[o].id = NextSerial(Op[o].kind)
        /\ \A p \in plan \ {o} : row'[p] = row[p]
        /\ o \notin Committed /\ Committed' = Committed
    BY <1>2, InsertEffect
  <2>2. SpendingAudited(c)
    <3>1. ASSUME NEW p \in RowsOf(c, plan, Spends)
          PROVE  row[p].id < ppc[Op[p].kind]
      <4>1. p \in plan /\ Op[p].kind \in Spends /\ p \in RowsOf(c, plan, Spends)'
        BY <1>0 DEF RowsOf, CoinOf
      <4>2. row'[p].id < ppc[Op[p].kind]
        BY <4>1 DEF SpendingAudited, Spends
      <4>3. MarkOK(Op[p].kind, ppc[Op[p].kind])
        BY <4>1 DEF CoinMarks, CoinKinds
      <4>4. ppc[Op[p].kind] \in Nat /\ ppc[Op[p].kind] > 0
        BY <4>3, MarkNat
      <4> QED
        BY <2>1, <4>1, <4>2, <4>4
    <3> QED
      BY <3>1 DEF SpendingAudited, Spends
  <2>3. PICK S : S = Committed
    OBVIOUS
  <2>4. Committed' = S /\ S \subseteq plan /\ \A p \in S : row'[p] = row[p]
    BY <1>0, <2>1, <2>3
  <2>5. Spent(c, Committed)' = Spent(c, S)
    BY <1>0, <2>4, SpentStep
  <2> QED
    BY <1>0, <2>2, <2>3, <2>5 DEF Overspend
<1>3. ASSUME NEW o \in plan, Commit(o)
      PROVE  SpendingAudited(c) /\ Overspend(c)
  <2>1. row' = row /\ o \in Numbered /\ o \notin Committed
    BY <1>3, CommitEffect
  <2>2. SpendingAudited(c)
    BY <1>0, <2>1 DEF SpendingAudited, RowsOf, CoinOf
  <2>3. o \notin SpendRows(c, plan)
    BY <2>1, <2>2, CommittedSpends DEF Numbered
  <2>4. Spent(c, Committed)' <= Spent(c, Committed) /\ Spent(c, Committed)' \in Int
    BY <1>3, <2>3, CommitSpent
  <2>5. Spent(c, Committed) \in Int /\ DenomOfCoin(c).value \in Nat
    BY <1>0, SpentInt, CoinFacts
  <2>6. Spent(c, Committed)' > DenomOfCoin(c).value
    BY <1>0 DEF Overspend
  <2> QED
    BY <2>2, <2>4, <2>5, <2>6 DEF Overspend
<1>4. ASSUME BooksSame
      PROVE  SpendingAudited(c) /\ Overspend(c)
  <2>1. row' = row /\ Committed' = Committed
    BY <1>4 DEF BooksSame, Committed
  <2>2. SpendingAudited(c)
    BY <1>0, <2>1 DEF SpendingAudited, RowsOf, CoinOf
  <2>3. PICK S : S = Committed
    OBVIOUS
  <2>4. Committed' = S /\ S \subseteq plan /\ \A p \in S : row'[p] = row[p]
    BY <1>0, <2>1, <2>3
  <2>5. Spent(c, Committed)' = Spent(c, S)
    BY <1>0, <2>4, SpentStep
  <2> QED
    BY <1>0, <2>2, <2>3, <2>5 DEF Overspend
<1> QED
  BY <1>1, <1>2, <1>3, <1>4, StepCases

(* The coins helper looks at the history of every coin in a new row.       *)
LEMMA CoinsEffect ==
    ASSUME Coins_
    PROVE  LET T(k) == Above(k, Committed, ppc[k])
           IN \/ ppc' = ppc /\ dinfo' = dinfo /\ missed' = missed /\ alarms' = alarms
              \/ /\ \A k \in CoinKinds : ppc'[k] = MarkAfter(T(k), ppc[k])
                 /\ alarms \subseteq alarms'
                 /\ Alarm("coin history", Overspent(UNION {T(k) : k \in Spends}, Committed))
                       \subseteq alarms'
PROOF
<1> DEFINE T(k) == Above(k, Committed, ppc[k])
<1>0. AuditCoins
  BY DEF Coins_
<1>1. \/ ppc' = ppc /\ dinfo' = dinfo /\ missed' = missed /\ alarms' = alarms
      \/ /\ ppc' = [withdraw |-> MarkAfter(T("withdraw"), ppc.withdraw),
                    refund |-> MarkAfter(T("refund"), ppc.refund),
                    recoup_refresh |-> MarkAfter(T("recoup_refresh"), ppc.recoup_refresh),
                    recoup |-> MarkAfter(T("recoup"), ppc.recoup),
                    melt |-> MarkAfter(T("melt"), ppc.melt),
                    deposit |-> MarkAfter(T("deposit"), ppc.deposit)]
         /\ alarms \subseteq alarms'
         /\ Alarm("coin history", Overspent(T("deposit") \cup T("melt") \cup T("recoup")
                                            \cup T("recoup_refresh"), Committed)) \subseteq alarms'
  BY <1>0 DEF AuditCoins, StoreCoinProgress, Raise, WithdrawalsAbove, RefundsAbove,
              RecoupRefreshAbove, RecoupAbove, RefreshesAbove, DepositsAbove,
              coinAuditVars
<1>2. UNION {T(k) : k \in Spends}
        = T("deposit") \cup T("melt") \cup T("recoup") \cup T("recoup_refresh")
  BY DEF Spends
<1> HIDE DEF T
<1>3. CASE ppc' = ppc /\ dinfo' = dinfo /\ missed' = missed /\ alarms' = alarms
  BY <1>3
<1>4. CASE ~(ppc' = ppc /\ dinfo' = dinfo /\ missed' = missed /\ alarms' = alarms)
  <2>0. PICK wi, rf, rr, rc, ml, dp :
           /\ wi = MarkAfter(T("withdraw"), ppc.withdraw)
           /\ rf = MarkAfter(T("refund"), ppc.refund)
           /\ rr = MarkAfter(T("recoup_refresh"), ppc.recoup_refresh)
           /\ rc = MarkAfter(T("recoup"), ppc.recoup)
           /\ ml = MarkAfter(T("melt"), ppc.melt)
           /\ dp = MarkAfter(T("deposit"), ppc.deposit)
    OBVIOUS
  <2>a. ppc' = [withdraw |-> wi, refund |-> rf, recoup_refresh |-> rr, recoup |-> rc,
                melt |-> ml, deposit |-> dp]
    BY ONLY <1>1, <1>4, <2>0
  <2>b. ppc'.recoup_refresh = rr /\ ppc'.recoup = rc /\ ppc'.melt = ml /\ ppc'.deposit = dp
        /\ ppc'.withdraw = wi
    BY ONLY <2>a
  <2>1. ASSUME NEW k \in CoinKinds
        PROVE  ppc'[k] = MarkAfter(T(k), ppc[k])
    <3>0. k \in {"deposit", "melt", "recoup", "recoup_refresh", "withdraw"}
      BY DEF Spends, CoinKinds
    <3>1. /\ ppc'["deposit"] = MarkAfter(T("deposit"), ppc["deposit"])
          /\ ppc'["melt"] = MarkAfter(T("melt"), ppc["melt"])
          /\ ppc'["recoup"] = MarkAfter(T("recoup"), ppc["recoup"])
          /\ ppc'["recoup_refresh"] = MarkAfter(T("recoup_refresh"), ppc["recoup_refresh"])
          /\ ppc'["withdraw"] = MarkAfter(T("withdraw"), ppc["withdraw"])
      BY ONLY <2>0, <2>b
    <3> QED
      BY ONLY <3>0, <3>1
  <2> QED
    BY <1>1, <1>2, <1>4, <2>1 DEF T
<1> QED
  BY <1>3, <1>4

(* A run of the coins helper complains about a coin that was overspent.    *)
LEMMA AuditOverspend ==
    ASSUME RowsInv, CoinMarks, OverspendInv, Coins_
    PROVE  CoinMarks' /\ OverspendInv'
PROOF
<1> DEFINE T(k) == Above(k, Committed, ppc[k])
<1>0. row' = row /\ plan' = plan /\ Committed' = Committed /\ Committed \subseteq plan
  BY CommittedInPlan DEF Coins_, bookVars, Committed
<1>1. \A c \in Coins : Spent(c, Committed)' = Spent(c, Committed) /\ DenomOfCoin(c)' = DenomOfCoin(c)
  <2>1. PICK S : S = Committed
    OBVIOUS
  <2>2. Committed' = S /\ S \subseteq plan /\ \A p \in S : row'[p] = row[p]
    BY <1>0, <2>1
  <2>3. \A c \in Coins : Spent(c, Committed)' = Spent(c, S)
    BY <1>0, <2>2, SpentStep
  <2> QED
    BY <2>1, <2>3 DEF DenomOfCoin
<1>2. CASE ppc' = ppc /\ alarms' = alarms
  <2>1. CoinMarks'
    BY <1>0, <1>2 DEF CoinMarks, MarkOK, Passed, Of
  <2>2. \A c : SpendingAudited(c)' = SpendingAudited(c)
    BY <1>0, <1>2 DEF SpendingAudited, RowsOf, CoinOf
  <2> QED
    BY <1>1, <1>2, <2>1, <2>2 DEF OverspendInv, Overspend
<1>3. ASSUME \A k \in CoinKinds : ppc'[k] = MarkAfter(T(k), ppc[k]),
             alarms \subseteq alarms',
             Alarm("coin history", Overspent(UNION {T(k) : k \in Spends}, Committed))
                       \subseteq alarms'
      PROVE  CoinMarks' /\ OverspendInv'
  <2>1. \A k \in CoinKinds :
          LET n == MarkAfter(T(k), ppc[k])
          IN MarkOK(k, n) /\ Passed(k, n) = Of(Committed, k)
    BY MarkAudit DEF CoinMarks
  <2>2. \A k \in CoinKinds : MarkOK(k, ppc'[k]) /\ Passed(k, ppc'[k]) = Of(Committed, k)
    BY <1>3, <2>1
  <2>3. CoinMarks'
    BY <1>0, <2>2 DEF CoinMarks, MarkOK, Passed, Of
  <2>4. ASSUME NEW c \in Coins, SpendingAudited(c)', Overspend(c)'
        PROVE  <<"coin history", c>> \in alarms'
    <3>1. Overspend(c)
      BY <1>1, <2>4 DEF Overspend
    <3>2. CASE SpendingAudited(c)
      BY <1>3, <3>1, <3>2 DEF OverspendInv
    <3>3. CASE ~SpendingAudited(c)
      <4>1. PICK o \in RowsOf(c, plan, Spends) : ~(row[o].id < ppc[Op[o].kind])
        BY <3>3 DEF SpendingAudited, Spends
      <4>2. PICK k : k = Op[o].kind
        OBVIOUS
      <4>3. o \in plan /\ k \in Spends /\ k \in CoinKinds /\ CoinOf(o) = c
        BY <4>1, <4>2 DEF RowsOf, CoinKinds
      <4>4. row[o].id < ppc'[k]
        BY <1>0, <2>4, <4>1, <4>2 DEF SpendingAudited, Spends, RowsOf, CoinOf
      <4>5. row[o].id \in Nat /\ ppc'[k] \in Nat /\ ppc[k] \in Nat /\ ppc[k] > 0
        BY <2>2, <4>3, MarkNat DEF RowsInv, CoinMarks
      <4>6. row[o].id >= ppc[k] /\ row[o].id \in 1..(ppc'[k] - 1)
        BY <4>1, <4>2, <4>4, <4>5
      <4>7. o \in Of(Committed, k)
        BY <2>2, <4>2, <4>3, <4>6 DEF Passed, Of
      <4>8. o \in UNION {T(j) : j \in Spends}
        BY <4>3, <4>6, <4>7 DEF Above
      <4>9. c \in Overspent(UNION {T(j) : j \in Spends}, Committed)
        BY <3>1, <4>3, <4>8 DEF Overspent, Overspend
      <4> QED
        BY <1>3, <4>9 DEF Alarm
    <3> QED
      BY <3>2, <3>3
  <2> QED
    BY <2>3, <2>4 DEF OverspendInv
<1> QED
  BY <1>2, <1>3, CoinsEffect

(* Every step keeps the overspent coins reported.                          *)
LEMMA NextOverspend ==
    ASSUME RowsInv, RefundInv, MaxOpen = 1, [Next]_vars, CoinMarks, OverspendInv
    PROVE  CoinMarks' /\ OverspendInv'
PROOF
<1>1. CASE Coins_
  BY <1>1, AuditOverspend
<1>2. CASE ~Coins_
  <2>1. ppc' = ppc
    BY <1>2 DEF Next, Exchange, Confirm, Reserves_, Aggregation_, Wire_, Deposits_,
                  Fails, vars, auditorVars, coinAuditVars
  <2>2. alarms \subseteq alarms'
    BY <1>2, ReserveAdds, AggregationAdds, WireAdds, DepositAdds, OtherAdds DEF Next, Adds
  <2> QED
    BY <2>1, <2>2, CoinMarksStep, OthersOverspend
<1> QED
  BY <1>1, <1>2

(* Nothing has been spent of any coin at first.                            *)
LEMMA InitNotOverspent == Init /\ RowsInv => \A c \in Coins : ~Overspend(c)
PROOF
<1> SUFFICES ASSUME Init, RowsInv PROVE \A c \in Coins : ~Overspend(c)
  OBVIOUS
<1>1. ASSUME NEW c \in Coins
      PROVE  Spent(c, Committed) = 0
  <2>0. Committed \subseteq plan
    BY CommittedInPlan
  <2>1. \A o \in Committed : Op[o].kind \in {"credit", "withdraw"}
    BY CommittedInPlan, InitRowKinds
  <2>2. SpendRows(c, Committed) = {} /\ RefundRows(c, Committed) = {}
        /\ OldCoinRecoups(c, Committed) = {}
    BY <2>1 DEF SpendRows, RefundRows, RowsOf, OldCoinRecoups, Of, Spends
  <2>3. Total({}) = 0 /\ Cardinality({}) = 0
    BY SumEmpty, FS_EmptySet DEF Total
  <2>4. PICK rf \in Nat : rf = DenomOfCoin(c).refund
    BY CoinFacts
  <2>5. Spent(c, Committed) = (0 + 0 * rf) - (0 + 0) - 0
    BY <2>0, <2>2, <2>3, <2>4, SpentParts
  <2> QED
    BY <2>5
<1> QED
  BY <1>1, CoinFacts DEF Overspend

(* Before the first audit no coin is overspent.                            *)
LEMMA InitOverspend == Init /\ RowsInv => CoinMarks /\ OverspendInv
PROOF
<1> SUFFICES ASSUME Init, RowsInv PROVE CoinMarks /\ OverspendInv
  OBVIOUS
<1>1. ppc = [withdraw |-> 1, refund |-> 1, recoup_refresh |-> 1, recoup |-> 1,
              melt |-> 1, deposit |-> 1]
  BY DEF Init, AuditCoinsInit
<1>2. \A k \in CoinKinds : ppc[k] = 1
  BY <1>1 DEF CoinKinds, Spends
<1>3. CoinMarks
  BY <1>2, FirstMark DEF CoinMarks
<1>5. \A c \in Coins : ~Overspend(c)
  BY InitNotOverspent
<1> QED
  BY <1>3, <1>5 DEF OverspendInv

---------------------------------------------------------------------------
(* Fraud is reported.                                                      *)

(* What the audits and the bank have to agree on.                          *)
FraudInv ==
    /\ RowsInv /\ BalanceInv /\ ReserveAuditInv
    /\ BankInv /\ WireShape /\ TheftInv
    /\ RefundInv /\ WireInv /\ WireAuditInv
    /\ CoinMarks /\ OverspendInv

(* The invariant implies the property.                                     *)
LEMMA FraudInvReports == FraudInv => FraudIsReported
PROOF
<1> SUFFICES ASSUME FraudInv PROVE FraudIsReported
  OBVIOUS
<1>1. ASSUME NEW o \in Of(plan, "withdraw"), ~Op[o].honest, row[o].id \in 1..(ppr.out - 1)
      PROVE  \E a \in alarms : a[1] \in {"reserve balance", "insufficient balance"}
                               /\ a[2] = Op[o].reserve
  <2>0. o \in Ops /\ Op[o].kind = "withdraw"
    BY DEF Of, FraudInv, RowsInv
  <2>1. Op[o].reserve \in Reserves /\ ReserveOf(o) = Op[o].reserve
    BY <2>0, OpFacts DEF ReserveOf
  <2>2. o \in At(Op[o].reserve, AuditedOut)
    BY <1>1, <2>1 DEF AuditedOut, Passed, At
  <2>3. Suspect(Op[o].reserve)
    BY <1>1, <2>1, <2>2 DEF FraudInv, ReserveAuditInv
  <2> QED
    BY <2>3 DEF Suspect
<1>2. ASSUME NEW c \in Coins, SpendingAudited(c), Spent(c, Committed) > DenomOfCoin(c).value
      PROVE  <<"coin history", c>> \in alarms
  BY <1>2 DEF FraudInv, OverspendInv, Overspend
<1>3. ASSUME NEW o \in Of(plan, "wire"), ~Op[o].honest, row[o].id \in 1..(ppa - 1)
      PROVE  <<"wire out amount", o>> \in alarms
  BY <1>3 DEF FraudInv, WireAuditInv, Passed
<1>4. ASSUME NEW i \in DOMAIN debits, Op[debits[i]].kind = "steal",
             i <= w.pp.account[Op[debits[i]].account].out_off
      PROVE  <<"debit not in books", debits[i]>> \in alarms
  BY <1>4 DEF FraudInv, TheftInv, TheftsReported
<1> QED
  BY <1>1, <1>2, <1>3, <1>4 DEF FraudIsReported

(* Once the helpers have passed the rows, a coin issued without its price, *)
(* a coin spent beyond its value, a transfer beyond its deposits and a     *)
(* debit without a row have their alarms. (With a rounding unit and a wire *)
(* fee of one a transfer that is one too high can be what the auditor      *)
(* expects: check_wire_out_cb ignores a fee above the total.)              *)
THEOREM FraudAlwaysReported ==
    ASSUME MaxOpen = 1, RoundUnit # 1 \/ WireFee # 1
    PROVE  Spec => []FraudIsReported
PROOF
<1>1. Init => FraudInv
  BY InitBooks, InitReserveAudit, InitBank, InitShape, InitTheft, InitRefund, InitWireAudit,
     InitOverspend DEF FraudInv
<1>2. FraudInv /\ [Next]_vars => FraudInv'
  <2> SUFFICES ASSUME FraudInv, [Next]_vars PROVE FraudInv'
    OBVIOUS
  <2>1. RowsInv' /\ BalanceInv' /\ ReserveAuditInv'
    BY NextBooks, NextReserveAudit DEF FraudInv
  <2>2. BankInv' /\ WireShape' /\ TheftInv'
    BY NextBank, NextShape, NextTheft DEF FraudInv
  <2>3. RefundInv' /\ WireInv' /\ WireAuditInv'
    BY NextRefund, NextWire, NextWireAudit DEF FraudInv
  <2>4. CoinMarks' /\ OverspendInv'
    BY NextOverspend DEF FraudInv
  <2> QED
    BY <2>1, <2>2, <2>3, <2>4 DEF FraudInv
<1> QED
  BY <1>1, <1>2, FraudInvReports, PTL DEF Spec

---------------------------------------------------------------------------
(* What an honest exchange keeps of its coins.                             *)

\* The rows that take what is left of a coin.
RecoupKinds == {"recoup", "recoup_refresh"}
RecoupRows(c, S) == RowsOf(c, S, RecoupKinds)

\* A recoup is of a revoked denomination, and of a coin that was issued; a
\* reveal is within the melted amount.
GroundsInv ==
    /\ \A o \in Numbered : Op[o].kind \in RecoupKinds
          => Revoked(DenomOf[Op[o].coin], Committed)
    /\ \A o \in Of(Numbered, "recoup_refresh") : Refreshed(Op[o].coin, Committed)
    /\ \A v \in Of(Numbered, "reveal") :
          /\ Op[v].melt \in Committed
          /\ Price(Op[Op[v].melt].fresh)
               <= row[Op[v].melt].amt - DenomOfCoin(Op[Op[v].melt].coin).refresh

\* What is being spent of a coin is within its value, and so is what was
\* spent of a coin that the exchange accepted by its rules.
Clean(c) == \A o \in SpendRows(c, Committed) : Op[o].honest
CleanInv ==
    /\ \A o \in open : Op[o].kind \in Spends /\ Op[o].honest
          => Spent(Op[o].coin, Committed) + row[o].amt <= DenomOfCoin(Op[o].coin).value
    /\ \A c \in Coins : Clean(c) => ~Overspend(c)

\* What the recoups of a coin have paid back is within its value, too.
SpendInv ==
    /\ CleanInv
    /\ \A c \in Coins : Total(RecoupRows(c, Committed)) <= DenomOfCoin(c).value

\* A refund costs no less than the deposit fee that it gives back.
RefundsCost == \A c \in Coins : DenomOfCoin(c).deposit <= DenomOfCoin(c).refund

(* A fresh coin was made by one melt.                                      *)
LEMMA MeltKnown ==
    ASSUME RowsInv, NEW m \in Of(plan, "melt")
    PROVE  MeltOf(Op[m].fresh) = m /\ OldCoinOf(Op[m].fresh) = Op[m].coin
PROOF
<1>1. m \in Ops /\ plan \subseteq Ops
  BY DEF RowsInv, Of
<1>2. \A n \in Of(plan, "melt") : Op[n].fresh = Op[m].fresh => n = m
  BY <1>1, OpAssumption DEF Of
<1>3. MeltOf(Op[m].fresh) \in Of(plan, "melt") /\ Op[MeltOf(Op[m].fresh)].fresh = Op[m].fresh
  BY DEF MeltOf
<1> QED
  BY <1>2, <1>3 DEF OldCoinOf

(* The refunds of a coin's deposits are not more than the deposits.        *)
LEMMA RefundsWithin ==
    ASSUME RowsInv, RefundInv, NEW c \in Coins
    PROVE  LET D == RowsOf(c, Committed, {"deposit"})
               R == RefundRows(c, Committed)
           IN Total(D) \in Nat /\ Total(R) \in Nat /\ Total(R) <= Total(D)
PROOF
<1> DEFINE D == RowsOf(c, Committed, {"deposit"})
           R == RefundRows(c, Committed)
           key == [r \in R |-> Op[r].deposit]
<1>1. Committed \subseteq Numbered /\ Numbered \subseteq plan /\ plan \subseteq Ops
  BY CommittedInPlan DEF RowsInv
<1>2. D \subseteq plan /\ R \subseteq plan
  BY <1>1 DEF RefundRows, RowsOf
<1>3. \A d \in D : d \in Of(Numbered, "deposit") /\ row[d].amt \in Nat /\ AmountIn[d] = row[d].amt
  BY <1>1, OpFacts DEF RowsOf, RefundInv, Of, AmountIn
<1>4. \A r \in R : r \in Of(Numbered, "refund") /\ row[r].amt \in Nat /\ AmountIn[r] = row[r].amt
  BY <1>1, OpFacts DEF RefundRows, RowsOf, RefundInv, Of, AmountIn
<1>5. \A r \in R : key[r] \in D
  <2> TAKE r \in R
  <2>1. Op[r].kind = "refund" /\ r \in Ops /\ Op[Op[r].deposit].coin = c
    BY <1>1 DEF RefundRows, RowsOf, CoinOf
  <2>2. Op[r].deposit \in Committed /\ Op[Op[r].deposit].kind = "deposit"
    BY <1>4, <2>1, OpFacts DEF RefundInv
  <2> QED
    BY <2>1, <2>2 DEF RowsOf, CoinOf
<1>6. ASSUME NEW d \in D
      PROVE  SumFunctionOnSet(AmountIn, {r \in R : key[r] = d}) <= AmountIn[d]
  <2> DEFINE A == {r \in R : key[r] = d}
             Q == RefundsOf(d, Numbered)
  <2>1. A \subseteq Q /\ Q \subseteq plan
    BY <1>1 DEF RefundRows, RowsOf, RefundsOf, Of
  <2>2. \A r \in Q : AmountIn[r] \in Nat
    BY <1>1, OpFacts DEF RefundsOf, Of, RefundInv, AmountIn
  <2>3. Total(Q) <= row[d].amt
    BY <1>3 DEF RefundInv
  <2>4. Total(Q) \in Nat /\ IsFiniteSet(Q) /\ Total(A) \in Int
    <3>1. \A r \in Q : row[r].amt \in Nat
      BY <2>1, <2>2 DEF AmountIn
    <3>2. A \subseteq plan
      BY <2>1
    <3> HIDE DEF A, Q
    <3> QED
      BY <2>1, <3>1, <3>2, TotalInt, TotalNat
  <2>5. SumFunctionOnSet(AmountIn, A) <= SumFunctionOnSet(AmountIn, Q)
    <3> HIDE DEF A, Q
    <3> QED
      BY ONLY <2>1, <2>2, <2>4, SumSubset
  <2> HIDE DEF A, Q
  <2>6. SumFunctionOnSet(AmountIn, A) <= AmountIn[d]
    BY <1>3, <2>3, <2>4, <2>5 DEF Total
  <2> QED
    BY <2>6 DEF A
<1>7. Total(D) \in Nat /\ Total(R) \in Nat /\ IsFiniteSet(D) /\ IsFiniteSet(R)
  <2> HIDE DEF D, R
  <2> QED
    BY <1>2, <1>3, <1>4, TotalInt, TotalNat
<1>8. SumFunctionOnSet(AmountIn, R) <= SumFunctionOnSet(AmountIn, D)
  <2>1. \A r \in R : AmountIn[r] \in Int /\ key[r] \in D
    BY <1>4, <1>5
  <2>2. \A d \in D : AmountIn[d] \in Int
                     /\ SumFunctionOnSet(AmountIn, {r \in R : key[r] = d}) <= AmountIn[d]
    BY <1>3, <1>6
  <2> HIDE DEF D, R, key
  <2> QED
    BY ONLY <1>7, <2>1, <2>2, SumCharged
<1> QED
  BY <1>7, <1>8 DEF Total

(* What comes back to a coin from the coins it was refreshed into is not   *)
(* more than what was melted.                                              *)
LEMMA MeltsCover ==
    ASSUME RowsInv, RefundInv, GroundsInv, NEW c \in Coins,
           \A f \in Coins : Total(RecoupRows(f, Committed)) <= DenomOfCoin(f).value
    PROVE  LET M == RowsOf(c, Committed, {"melt"})
               B == OldCoinRecoups(c, Committed)
           IN Total(M) \in Nat /\ Total(B) \in Nat /\ Total(B) <= Total(M)
PROOF
<1> DEFINE M == RowsOf(c, Committed, {"melt"})
           B == OldCoinRecoups(c, Committed)
           key == [o \in B |-> MeltOf(Op[o].coin)]
<1>1. Committed \subseteq Numbered /\ Numbered \subseteq plan /\ plan \subseteq Ops
  BY CommittedInPlan DEF RowsInv
<1>2. M \subseteq plan /\ B \subseteq plan
  BY <1>1 DEF OldCoinRecoups, RowsOf, Of
<1>3. \A m \in M : m \in Of(Committed, "melt") /\ row[m].amt \in Nat /\ AmountIn[m] = row[m].amt
  BY <1>1, OpFacts DEF RowsOf, RefundInv, Of, AmountIn
<1>4. \A o \in B : o \in Of(Numbered, "recoup_refresh") /\ row[o].amt \in Nat
                   /\ AmountIn[o] = row[o].amt
  BY <1>1 DEF OldCoinRecoups, RefundInv, Of, AmountIn
<1>5. ASSUME NEW o \in B
      PROVE  /\ key[o] \in M
             /\ Op[key[o]].fresh = Op[o].coin
             /\ Price(Op[o].coin) <= row[key[o]].amt - DenomOfCoin(c).refresh
  <2>1. PICK m \in Of(Committed, "melt") : Op[m].fresh = Op[o].coin /\ Revealed(m, Committed)
    BY <1>4 DEF GroundsInv, Refreshed
  <2>2. m \in Of(plan, "melt")
    BY <1>1 DEF Of
  <2>3. key[o] = m /\ Op[m].coin = c
    BY <2>1, <2>2, MeltKnown DEF OldCoinRecoups
  <2>4. PICK v \in Of(Committed, "reveal") : Op[v].melt = m
    BY <2>1 DEF Revealed
  <2>5. Price(Op[m].fresh) <= row[m].amt - DenomOfCoin(Op[m].coin).refresh
    BY <1>1, <2>4 DEF GroundsInv, Of
  <2>6. m \in M
    BY <2>1, <2>3 DEF RowsOf, CoinOf, Of
  <2> QED
    BY <2>1, <2>3, <2>5, <2>6
<1>6. ASSUME NEW m \in M
      PROVE  SumFunctionOnSet(AmountIn, {o \in B : key[o] = m}) <= AmountIn[m]
  <2> DEFINE A == {o \in B : key[o] = m}
  <2>1. CASE A = {}
    <3>1. SumFunctionOnSet(AmountIn, A) = 0
      BY <2>1, SumEmpty
    <3> QED
      BY <1>3, <3>1
  <2>2. CASE A # {}
    <3>1. PICK o \in B : key[o] = m
      BY <2>2
    <3> DEFINE f == Op[o].coin
               Q == RecoupRows(f, Committed)
    <3>2. /\ Op[m].fresh = f /\ Price(f) <= row[m].amt - DenomOfCoin(c).refresh
      BY <1>5, <3>1
    <3>3. m \in Ops /\ Op[m].kind = "melt"
      BY <1>1, <1>3 DEF Of
    <3>4. f \in Coins
      BY <3>2, <3>3, OpFacts
    <3>5. A \subseteq Q /\ Q \subseteq plan
      <4>1. \A x \in A : Op[x].coin = f
        BY <1>5, <3>2
      <4>2. \A x \in A : x \in Committed /\ Op[x].kind = "recoup_refresh"
        BY DEF OldCoinRecoups, Of
      <4> QED
        BY <1>1, <4>1, <4>2 DEF RecoupRows, RowsOf, RecoupKinds, CoinOf
    <3>6. \A x \in Q : AmountIn[x] \in Nat /\ row[x].amt \in Nat
      BY <1>1 DEF RecoupRows, RowsOf, RecoupKinds, RefundInv, AmountIn
    <3>7. Total(Q) <= DenomOfCoin(f).value
      BY <3>4
    <3>8. Total(Q) \in Nat /\ IsFiniteSet(Q) /\ Total(A) \in Int
      <4>1. A \subseteq plan
        BY <3>5
      <4> HIDE DEF A, Q
      <4> QED
        BY <3>5, <3>6, <4>1, TotalInt, TotalNat
    <3>9. SumFunctionOnSet(AmountIn, A) <= SumFunctionOnSet(AmountIn, Q)
      <4>1. \A x \in Q : AmountIn[x] \in Nat
        BY <3>6
      <4> HIDE DEF A, Q
      <4> QED
        BY ONLY <3>5, <3>8, <4>1, SumSubset
    <3>10. PICK ta, tq, am, v, wf, rf :
              /\ ta = Total(A) /\ tq = Total(Q) /\ am = row[m].amt
              /\ v = DenomOfCoin(f).value /\ wf = DenomOfCoin(f).withdraw
              /\ rf = DenomOfCoin(c).refresh
      OBVIOUS
    <3>11. /\ ta \in Int /\ tq \in Nat /\ am \in Nat /\ v \in Nat /\ wf \in Nat /\ rf \in Nat
           /\ ta <= tq /\ tq <= v /\ v + wf <= am - rf
      <4>1. v \in Nat /\ wf \in Nat /\ rf \in Nat
        BY <3>4, <3>10, CoinFacts
      <4>2. ta <= tq /\ ta \in Int /\ tq \in Nat
        BY <3>8, <3>9, <3>10 DEF Total
      <4>3. v + wf <= am - rf
        BY <3>2, <3>10 DEF Price
      <4> QED
        BY <1>3, <3>7, <3>10, <4>1, <4>2, <4>3
    <3>12. ta <= am
      BY ONLY <3>11
    <3> QED
      BY <1>3, <3>10, <3>12 DEF Total
  <2> QED
    BY <2>1, <2>2
<1>7. Total(M) \in Nat /\ Total(B) \in Nat /\ IsFiniteSet(M) /\ IsFiniteSet(B)
  <2> HIDE DEF M, B
  <2> QED
    BY <1>2, <1>3, <1>4, TotalInt, TotalNat
<1>8. SumFunctionOnSet(AmountIn, B) <= SumFunctionOnSet(AmountIn, M)
  <2>1. \A o \in B : AmountIn[o] \in Int /\ key[o] \in M
    BY <1>4, <1>5
  <2>2. \A m \in M : AmountIn[m] \in Int
                     /\ SumFunctionOnSet(AmountIn, {o \in B : key[o] = m}) <= AmountIn[m]
    BY <1>3, <1>6
  <2> HIDE DEF M, B, key
  <2> QED
    BY ONLY <1>7, <2>1, <2>2, SumCharged
<1> QED
  BY <1>7, <1>8 DEF Total

(* The recoups of a coin are part of what was spent of it, and the rest is *)
(* not negative.                                                           *)
LEMMA RecoupsSpent ==
    ASSUME RefundsCost, RowsInv, RefundInv, GroundsInv, NEW c \in Coins,
           \A f \in Coins : Total(RecoupRows(f, Committed)) <= DenomOfCoin(f).value
    PROVE  /\ Total(RecoupRows(c, Committed)) \in Nat
           /\ Total(RecoupRows(c, Committed)) <= Spent(c, Committed)
           /\ Spent(c, Committed) \in Int
PROOF
<1> DEFINE S == Committed
           P == SpendRows(c, S)
           D == RowsOf(c, S, {"deposit"})
           M == RowsOf(c, S, {"melt"})
           Q == RecoupRows(c, S)
           R == RefundRows(c, S)
           B == OldCoinRecoups(c, S)
           DM == D \cup M
<1>1. S \subseteq Numbered /\ Numbered \subseteq plan
  BY CommittedInPlan
<1>2. P = DM \cup Q /\ DM \cap Q = {} /\ D \cap M = {}
      /\ DM \subseteq plan /\ Q \subseteq plan /\ D \subseteq plan /\ M \subseteq plan
  BY <1>1 DEF SpendRows, RecoupRows, RowsOf, Spends, RecoupKinds
<1>3. \A o \in Q : row[o].amt \in Nat
  BY <1>1 DEF RecoupRows, RowsOf, RefundInv, RecoupKinds
<1>4. Total(D) \in Nat /\ Total(R) \in Nat /\ Total(R) <= Total(D)
  BY RefundsWithin
<1>5. Total(M) \in Nat /\ Total(B) \in Nat /\ Total(B) <= Total(M)
  BY MeltsCover
<1>6. /\ IsFiniteSet(R) /\ Cardinality(R) \in Nat
      /\ Spent(c, S) = (Total(P) + Cardinality(R) * DenomOfCoin(c).refund)
                       - (Total(R) + Total(B))
                       - (IF R = {} THEN 0 ELSE DenomOfCoin(c).deposit)
  BY <1>1, SpentParts
<1>7. PICK rf \in Nat, df \in Nat : rf = DenomOfCoin(c).refund /\ df = DenomOfCoin(c).deposit
                                    /\ df <= rf
  BY CoinFacts DEF RefundsCost
<1>8. R # {} => Cardinality(R) >= 1
  <2> HIDE DEF R
  <2>1. R # {} => Cardinality(R) # 0
    BY <1>6, FS_EmptySet
  <2> QED
    BY <1>6, <2>1
<1> HIDE DEF S, P, D, M, Q, R, B, DM
<1>9. Total(Q) \in Nat
  BY <1>2, <1>3, TotalNat
<1>10. Total(P) = (Total(D) + Total(M)) + Total(Q)
  <2>1. Total(DM \cup Q) = Total(DM) + Total(Q)
    BY <1>2, TotalUnion
  <2>2. Total(D \cup M) = Total(D) + Total(M)
    BY <1>2, TotalUnion
  <2> QED
    BY <1>2, <2>1, <2>2 DEF DM
<1>11. PICK n \in Nat : n = Cardinality(R)
  BY <1>6
<1> DEFINE x == n * rf
<1>12. x \in Nat /\ (R # {} => x >= rf)
  <2>1. x \in Nat
    OBVIOUS
  <2>2. ASSUME R # {}
        PROVE  x >= rf
    <3>1. n >= 1
      BY <1>8, <1>11, <2>2
    <3>2. n - 1 \in Nat
      BY <3>1
    <3>3. (n - 1) * rf \in Nat
      BY <3>2
    <3>4. x = (n - 1) * rf + rf
      OBVIOUS
    <3> DEFINE y == (n - 1) * rf
    <3>5. y \in Nat /\ x = y + rf
      BY <3>3, <3>4
    <3> HIDE DEF x, y
    <3> QED
      BY <2>1, <3>5
  <2> QED
    BY <2>1, <2>2
<1>13. Spent(c, S) = (Total(P) + x) - (Total(R) + Total(B)) - (IF R = {} THEN 0 ELSE df)
  BY <1>6, <1>7, <1>11
<1> HIDE DEF x
<1>14. PICK p, d, m, q, r, b, s : /\ p = Total(P) /\ d = Total(D) /\ m = Total(M) /\ q = Total(Q)
                                 /\ r = Total(R) /\ b = Total(B) /\ s = Spent(c, S)
  OBVIOUS
<1>15. /\ d \in Nat /\ m \in Nat /\ q \in Nat /\ r \in Nat /\ b \in Nat /\ r <= d /\ b <= m
       /\ p = (d + m) + q
  BY ONLY <1>4, <1>5, <1>9, <1>10, <1>14
<1>16. s = (p + x) - (r + b) - (IF R = {} THEN 0 ELSE df)
  BY ONLY <1>13, <1>14
<1>17. q <= s /\ s \in Int
  <2>1. CASE R = {}
    <3>1. s = (p + x) - (r + b)
      BY ONLY <1>12, <1>15, <1>16, <2>1
    <3> QED
      BY ONLY <1>12, <1>15, <3>1
  <2>2. CASE R # {}
    <3>1. s = (p + x) - (r + b) - df
      BY ONLY <1>16, <2>2
    <3>2. x >= df
      BY ONLY <1>7, <1>12, <2>2, rf \in Nat, df \in Nat
    <3> QED
      BY ONLY <1>12, <1>15, <3>1, <3>2, df \in Nat
  <2> QED
    BY <2>1, <2>2
<1> QED
  BY <1>14, <1>15, <1>17 DEF Q, S

(* Issuing and revoking last.                                              *)
LEMMA GroundsLast ==
    ASSUME NEW S, NEW T, S \subseteq T
    PROVE  /\ \A d : Revoked(d, S) => Revoked(d, T)
           /\ \A c : Refreshed(c, S) => Refreshed(c, T)
PROOF
  BY DEF Revoked, Refreshed, Revealed, Of

(* Every step keeps the grounds of the rows.                               *)
LEMMA NextGrounds ==
    ASSUME RowsInv, MaxOpen = 1, GroundsInv, [Next]_vars
    PROVE  GroundsInv'
PROOF
<1>1. /\ plan' = plan /\ Committed \subseteq Committed' /\ Numbered \subseteq Numbered'
      /\ \A o \in Numbered : row'[o] = row[o]
  BY CommittedKept
<1>2. Committed \subseteq Numbered
  BY CommittedInPlan
<1>3. PICK S, T : S = Committed /\ T = Committed'
  OBVIOUS
<1>4. /\ \A d : Revoked(d, S) => Revoked(d, T)
      /\ \A c : Refreshed(c, S) => Refreshed(c, T)
  BY <1>1, <1>3, GroundsLast
<1>5. /\ \A d : Revoked(d, Committed)' = Revoked(d, T)
      /\ \A c : Refreshed(c, Committed)' = Refreshed(c, T)
  BY <1>3 DEF Revoked, Refreshed, Revealed, Of
<1>6. ASSUME NEW o \in Numbered
      PROVE  /\ Op[o].kind \in RecoupKinds => Revoked(DenomOf[Op[o].coin], Committed)'
             /\ Op[o].kind = "recoup_refresh" => Refreshed(Op[o].coin, Committed)'
             /\ Op[o].kind = "reveal" =>
                  /\ Op[o].melt \in Committed'
                  /\ Price(Op[Op[o].melt].fresh)
                       <= row'[Op[o].melt].amt - DenomOfCoin(Op[Op[o].melt].coin).refresh
  BY <1>1, <1>2, <1>3, <1>4, <1>5 DEF GroundsInv, Of
<1>7. ASSUME NEW o \in Numbered', o \notin Numbered
      PROVE  /\ Op[o].kind \in RecoupKinds => Revoked(DenomOf[Op[o].coin], Committed)'
             /\ Op[o].kind = "recoup_refresh" => Refreshed(Op[o].coin, Committed)'
             /\ Op[o].kind = "reveal" =>
                  /\ Op[o].melt \in Committed'
                  /\ Price(Op[Op[o].melt].fresh)
                       <= row'[Op[o].melt].amt - DenomOfCoin(Op[Op[o].melt].coin).refresh
  <2>1. PICK p \in plan : Insert(p)
    <3>1. \A p \in plan : Commit(p) => row' = row
      BY CommitEffect
    <3>2. BooksSame => row' = row
      BY DEF BooksSame
    <3> QED
      BY <1>1, <1>7, <3>1, <3>2, StepCases DEF Numbered
  <2>2. Accepted(p) /\ Committed' = Committed /\ \A q \in plan \ {p} : row'[q] = row[q]
    BY <2>1, InsertEffect
  <2>3. p = o
    BY <1>1, <1>7, <2>2 DEF Numbered
  <2>4. ASSUME Op[o].kind \in RecoupKinds \cup {"reveal"}
        PROVE  Justified(o)
    BY <2>2, <2>3, <2>4 DEF Accepted, Fraudulent, RecoupKinds
  <2>5. Op[o].kind \in RecoupKinds => Revoked(DenomOf[Op[o].coin], Committed)
    BY <2>4 DEF Justified, RecoupKinds
  <2>6. Op[o].kind = "recoup_refresh" => Refreshed(Op[o].coin, Committed)
    BY <2>4 DEF Justified, RecoupKinds
  <2>7. Op[o].kind = "reveal" =>
          /\ Op[o].melt \in Committed
          /\ Price(Op[Op[o].melt].fresh)
               <= row[Op[o].melt].amt - DenomOfCoin(Op[Op[o].melt].coin).refresh
    BY <2>4 DEF Justified
  <2> QED
    BY <1>1, <1>2, <1>3, <1>4, <1>5, <2>5, <2>6, <2>7
<1>8. \A c : Price(c)' = Price(c) /\ DenomOfCoin(c)' = DenomOfCoin(c)
  BY DEF Price, DenomOfCoin
<1> QED
  BY <1>6, <1>7, <1>8 DEF GroundsInv, Of, RecoupKinds

(* Before the first audit there are only credits and withdrawals.          *)
LEMMA InitGrounds == Init /\ RowsInv => GroundsInv /\ SpendInv
PROOF
<1> SUFFICES ASSUME Init, RowsInv PROVE GroundsInv /\ SpendInv
  OBVIOUS
<1>1. \A o \in Numbered : Op[o].kind \in {"credit", "withdraw"}
  BY InitRowKinds
<1>2. open = {} /\ Committed \subseteq Numbered
  BY CommittedInPlan DEF Init, BooksInit
<1>3. GroundsInv
  BY <1>1 DEF GroundsInv, Of, RecoupKinds
<1>4. ASSUME NEW c \in Coins
      PROVE  Total(RecoupRows(c, Committed)) <= DenomOfCoin(c).value
  <2>1. RecoupRows(c, Committed) = {}
    BY <1>1, <1>2 DEF RecoupRows, RowsOf, RecoupKinds
  <2>2. Total(RecoupRows(c, Committed)) = 0
    BY <2>1, SumEmpty DEF Total
  <2> QED
    BY <2>2, CoinFacts
<1>5. \A c \in Coins : ~Overspend(c)
  BY InitNotOverspent
<1> QED
  BY <1>2, <1>3, <1>4, <1>5 DEF SpendInv, CleanInv

(* A recoup takes what is left of a coin.                                  *)
LEMMA RecoupStep ==
    ASSUME RowsInv, plan' = plan, NEW U, U \subseteq plan, Committed' = U,
           \A o \in U : row'[o] = row[o], NEW c
    PROVE  Total(RecoupRows(c, Committed))' = Total(RecoupRows(c, U))
PROOF
<1> DEFINE Q == RecoupRows(c, U)
<1>1. RecoupRows(c, Committed)' = Q
  BY DEF RecoupRows, RowsOf, CoinOf
<1>2. Q \subseteq plan /\ \A o \in Q : row'[o] = row[o]
  BY DEF RecoupRows, RowsOf
<1> HIDE DEF Q
<1>3. SumFunctionOnSet(AmountIn', Q) = SumFunctionOnSet(AmountIn, Q)
  BY <1>2, TotalKept
<1> QED
  BY <1>1, <1>3 DEF Total, Q

(* A step that commits nothing.                                            *)
LEMMA SameSpent ==
    ASSUME RowsInv, plan' = plan, Committed' = Committed,
           \A o \in Committed : row'[o] = row[o]
    PROVE  /\ \A c \in Coins : /\ Spent(c, Committed)' = Spent(c, Committed)
                               /\ Overspend(c)' = Overspend(c)
           /\ \A c : Total(RecoupRows(c, Committed))' = Total(RecoupRows(c, Committed))
PROOF
<1>1. PICK S : S = Committed
  OBVIOUS
<1>2. Committed' = S /\ S \subseteq plan /\ \A p \in S : row'[p] = row[p]
  BY <1>1, CommittedInPlan
<1>3. \A c \in Coins : Spent(c, Committed)' = Spent(c, S)
  BY <1>2, SpentStep
<1>4. \A c : Total(RecoupRows(c, Committed))' = Total(RecoupRows(c, S))
  BY <1>2, RecoupStep
<1> QED
  BY <1>1, <1>3, <1>4 DEF Overspend, DenomOfCoin

(* An insert keeps what was spent by the rules of a coin within its value. *)
LEMMA InsertClean ==
    ASSUME RowsInv, MaxOpen = 1, CleanInv, NEW o \in plan, Insert(o)
    PROVE  CleanInv'
PROOF
<1>1. /\ open' = {o} /\ plan' = plan /\ Accepted(o) /\ row'[o].amt = Amount(o)
      /\ \A p \in plan \ {o} : row'[p] = row[p]
      /\ o \notin Committed /\ Committed' = Committed /\ Committed \subseteq plan
  BY InsertEffect, CommittedInPlan
<1>2. \A c \in Coins : /\ Spent(c, Committed)' = Spent(c, Committed)
                       /\ Overspend(c)' = Overspend(c)
  BY <1>1, SameSpent
<1>3. ASSUME Op[o].kind \in Spends, Op[o].honest
      PROVE  Spent(Op[o].coin, Committed) + Amount(o) <= DenomOfCoin(Op[o].coin).value
  <2>1. Op[o].coin \in Coins /\ o \in Ops
    BY <1>3, OpFacts DEF Spends, RowsInv
  <2>2. Justified(o)
    BY <1>1, <1>3 DEF Accepted
  <2>3. CASE Op[o].kind \in {"deposit", "melt"}
    <3>1. CanSpend(Op[o].coin, Op[o].amount) /\ Amount(o) = Op[o].amount
      BY <2>2, <2>3 DEF Justified, Amount
    <3>2. DenomOfCoin(Op[o].coin).value \in Nat
      BY <2>1, CoinFacts
    <3> QED
      BY <3>1, <3>2 DEF CanSpend
  <2>4. CASE Op[o].kind \in {"recoup", "recoup_refresh"}
    <3>1. Amount(o) = DenomOfCoin(Op[o].coin).value - Spent(Op[o].coin, Committed)
      BY <2>4 DEF Amount
    <3>2. DenomOfCoin(Op[o].coin).value \in Nat /\ Spent(Op[o].coin, Committed) \in Int
      BY <1>1, <2>1, CoinFacts, SpentInt
    <3> QED
      BY <3>1, <3>2
  <2> QED
    BY <1>3, <2>3, <2>4 DEF Spends
<1>4. Op[o].kind \in Spends => Op[o].coin \in Coins
  BY OpFacts DEF Spends, RowsInv
<1>5. \A c : DenomOfCoin(c)' = DenomOfCoin(c) /\ Clean(c)' = Clean(c)
  BY <1>1 DEF DenomOfCoin, Clean, SpendRows, RowsOf, CoinOf
<1> QED
  BY <1>1, <1>2, <1>3, <1>4, <1>5 DEF CleanInv

(* So does a commit.                                                       *)
LEMMA CommitClean ==
    ASSUME RowsInv, RefundInv, GroundsInv, CleanInv, NEW o \in plan, Commit(o)
    PROVE  CleanInv'
PROOF
<1>1. /\ open = {o} /\ open' = {} /\ plan' = plan /\ row' = row /\ o \in Numbered
      /\ o \notin Committed /\ Committed' = Committed \cup {o}
  BY CommitEffect
<1>2. Committed \subseteq plan /\ plan \subseteq Ops
  BY CommittedInPlan DEF RowsInv
<1>3. PICK S, T : S = Committed /\ T = S \cup {o}
  OBVIOUS
<1>4. S \subseteq plan /\ T \subseteq plan /\ o \notin S /\ Committed' = T
  BY <1>1, <1>2, <1>3
<1>5. ASSUME NEW c \in Coins, Clean(c)'
      PROVE  ~Overspend(c)'
  <2>0. Spent(c, S) \in Int /\ Spent(c, T) \in Int /\ DenomOfCoin(c).value \in Nat
        /\ Spent(c, S) <= DenomOfCoin(c).value
    <3>0. Clean(c)
      BY <1>1, <1>5 DEF Clean, SpendRows, RowsOf, CoinOf
    <3>1. ~Overspend(c)
      BY <3>0 DEF CleanInv
    <3>2. Spent(c, S) \in Int /\ Spent(c, T) \in Int /\ DenomOfCoin(c).value \in Nat
      BY <1>4, SpentInt, CoinFacts
    <3> QED
      BY <1>3, <3>1, <3>2 DEF Overspend
  <2>1. Spent(c, Committed)' = Spent(c, T)
    BY <1>1, <1>4, SpentStep
  <2>2. CASE o \in SpendRows(c, plan)
    <3>1. Op[o].kind \in Spends /\ Op[o].coin = c /\ o \in SpendRows(c, T)
      BY <1>3, <2>2 DEF SpendRows, RowsOf, CoinOf, Spends
    <3>2. o \notin OldCoinRecoups(c, T)
      <4> SUFFICES ASSUME o \in OldCoinRecoups(c, T) PROVE FALSE
        OBVIOUS
      <4>1. Op[o].kind = "recoup_refresh" /\ OldCoinOf(c) = c
        BY <3>1 DEF OldCoinRecoups, Of
      <4>2. PICK m \in Of(Committed, "melt") : Op[m].fresh = c
        BY <1>1, <3>1, <4>1 DEF GroundsInv, Refreshed, Of
      <4>3. m \in Of(plan, "melt") /\ m \in Ops /\ Op[m].kind = "melt"
        BY <1>2 DEF Of
      <4>4. OldCoinOf(c) = Op[m].coin
        BY <4>2, <4>3, MeltKnown
      <4>5. Op[m].fresh # Op[m].coin
        BY <4>3, OpFacts
      <4> QED
        BY <4>1, <4>2, <4>4, <4>5
    <3>3. Spent(c, T) = Spent(c, S) + row[o].amt
      BY ONLY RowsInv, c \in Coins, o \in plan, <1>3, <1>4, <3>1, <3>2, SpentMore
    <3>4. Op[o].honest
      BY <1>1, <1>5, <2>2 DEF Clean, SpendRows, RowsOf, CoinOf
    <3>5. Spent(c, S) + row[o].amt <= DenomOfCoin(c).value
      BY <1>1, <1>3, <3>4, <3>1 DEF CleanInv
    <3>6. Spent(c, T) <= DenomOfCoin(c).value
      BY <3>3, <3>5
    <3> QED
      BY <2>0, <2>1, <3>6 DEF Overspend, DenomOfCoin
  <2>3. CASE o \notin SpendRows(c, plan)
    <3>1. Spent(c, Committed)' <= Spent(c, Committed) /\ Spent(c, Committed)' \in Int
      BY <2>3, CommitSpent
    <3>2. Spent(c, Committed)' <= DenomOfCoin(c).value
      BY <1>3, <2>0, <3>1
    <3> QED
      BY <2>0, <3>1, <3>2 DEF Overspend, DenomOfCoin
  <2> QED
    BY <2>2, <2>3
<1> QED
  BY <1>1, <1>5 DEF CleanInv

(* So does every step.                                                     *)
LEMMA NextClean ==
    ASSUME RowsInv, RefundInv, GroundsInv, CleanInv, MaxOpen = 1, [Next]_vars
    PROVE  CleanInv'
PROOF
<1>1. CASE BooksSame
  <2>1. /\ Committed' = Committed /\ row' = row /\ plan' = plan /\ open' = open
        /\ \A c : DenomOfCoin(c)' = DenomOfCoin(c) /\ Clean(c)' = Clean(c)
    BY <1>1 DEF BooksSame, Committed, DenomOfCoin, Clean, SpendRows, RowsOf, CoinOf
  <2>2. \A c \in Coins : /\ Spent(c, Committed)' = Spent(c, Committed)
                         /\ Overspend(c)' = Overspend(c)
    BY <2>1, SameSpent
  <2>3. \A o \in open : Op[o].kind \in Spends => Op[o].coin \in Coins
    BY OpFacts DEF Spends, RowsInv, Numbered
  <2> QED
    BY <2>1, <2>2, <2>3 DEF CleanInv
<1> QED
  BY <1>1, InsertClean, CommitClean, StepCases

(* The total of a coin's recoups.                                          *)
LEMMA CommitRecoups ==
    ASSUME RefundsCost, RowsInv, RefundInv, GroundsInv, SpendInv, NEW o \in plan, Commit(o),
           NEW c \in Coins
    PROVE  Total(RecoupRows(c, Committed))' <= DenomOfCoin(c).value
PROOF
<1>1. /\ open = {o} /\ open' = {} /\ plan' = plan /\ row' = row /\ o \in Numbered
      /\ o \notin Committed /\ Committed' = Committed \cup {o}
  BY CommitEffect
<1>2. Committed \subseteq plan /\ plan \subseteq Ops
  BY CommittedInPlan DEF RowsInv
<1>3. PICK S, T : S = Committed /\ T = S \cup {o}
  OBVIOUS
<1>4. S \subseteq plan /\ T \subseteq plan /\ o \notin S /\ Committed' = T
  BY <1>1, <1>2, <1>3
<1>5. Total(RecoupRows(c, Committed))' = Total(RecoupRows(c, T))
  BY <1>1, <1>4, RecoupStep
<1>6. CASE o \in RecoupRows(c, T)
  <2>1. Op[o].kind \in RecoupKinds /\ Op[o].coin = c
    BY <1>6 DEF RecoupRows, RowsOf, CoinOf, RecoupKinds
  <2>2. Op[o].honest
    BY <1>1, <2>1 DEF RowsInv, RecoupKinds
  <2>3. Spent(c, Committed) + row[o].amt <= DenomOfCoin(c).value
    BY <1>1, <2>1, <2>2 DEF SpendInv, CleanInv, RecoupKinds, Spends
  <2>4. /\ Total(RecoupRows(c, Committed)) \in Nat /\ Spent(c, Committed) \in Int
        /\ Total(RecoupRows(c, Committed)) <= Spent(c, Committed)
    BY RecoupsSpent DEF SpendInv
  <2>5. Total(RecoupRows(c, T)) = Total(RecoupRows(c, S)) + row[o].amt
    <3> DEFINE A == RecoupRows(c, S)
    <3>1. RecoupRows(c, T) = A \cup {o}
      BY <1>3, <1>6 DEF RecoupRows, RowsOf
    <3>2. A \subseteq plan /\ o \notin A
      BY <1>4 DEF RecoupRows, RowsOf
    <3> HIDE DEF A
    <3>3. IsFiniteSet(A) /\ \A p \in A \cup {o} : AmountIn[p] \in Int
      BY <3>2, TotalInt DEF AmountIn, RowsInv
    <3>4. SumFunctionOnSet(AmountIn, A \cup {o}) = SumFunctionOnSet(AmountIn, A) + AmountIn[o]
      BY ONLY <3>2, <3>3, SumAdd
    <3> QED
      BY <3>1, <3>4 DEF Total, AmountIn, A
  <2>6. row[o].amt \in Int /\ DenomOfCoin(c).value \in Nat
    BY CoinFacts DEF RowsInv
  <2>7. PICK t, s, a, v, u : /\ t = Total(RecoupRows(c, S)) /\ s = Spent(c, S) /\ a = row[o].amt
                          /\ v = DenomOfCoin(c).value /\ u = Total(RecoupRows(c, T))
    OBVIOUS
  <2>8. /\ t \in Nat /\ s \in Int /\ a \in Int /\ v \in Nat /\ t <= s /\ s + a <= v
        /\ u = t + a
    BY <1>3, <2>3, <2>4, <2>5, <2>6, <2>7
  <2>9. u <= v
    BY ONLY <2>8
  <2> QED
    BY <1>5, <2>7, <2>9
<1>7. CASE o \notin RecoupRows(c, T)
  <2>1. RecoupRows(c, T) = RecoupRows(c, S)
    BY <1>3, <1>7 DEF RecoupRows, RowsOf
  <2> QED
    BY <1>3, <1>5, <2>1 DEF SpendInv
<1> QED
  BY <1>6, <1>7

(* Every step keeps what was spent of a coin within its value.             *)
LEMMA NextSpend ==
    ASSUME RefundsCost, RowsInv, RefundInv, GroundsInv, SpendInv, MaxOpen = 1, [Next]_vars
    PROVE  SpendInv'
PROOF
<1>1. CleanInv'
  BY NextClean DEF SpendInv
<1>2. ASSUME NEW c \in Coins
      PROVE  Total(RecoupRows(c, Committed))' <= DenomOfCoin(c).value
  <2>1. ASSUME Committed' = Committed, plan' = plan, \A o \in Committed : row'[o] = row[o]
        PROVE  Total(RecoupRows(c, Committed))' <= DenomOfCoin(c).value
    BY <2>1, SameSpent DEF SpendInv
  <2>2. CASE BooksSame
    BY <2>1, <2>2 DEF BooksSame, Committed
  <2>3. ASSUME NEW o \in plan, Insert(o)
        PROVE  Total(RecoupRows(c, Committed))' <= DenomOfCoin(c).value
    <3>1. /\ plan' = plan /\ \A p \in plan \ {o} : row'[p] = row[p]
          /\ o \notin Committed /\ Committed' = Committed /\ Committed \subseteq plan
      BY <2>3, InsertEffect, CommittedInPlan
    <3> QED
      BY <2>1, <3>1
  <2> QED
    BY <2>2, <2>3, CommitRecoups, StepCases
<1> QED
  BY <1>1, <1>2 DEF SpendInv, DenomOfCoin

---------------------------------------------------------------------------
(* No false alarm.                                                         *)

\* An alarm that NoFalseAlarm allows.
Excused(a) ==
    a[1] \in BookAlarms =>
        \/ a[1] = "closing fee" /\ a[2] \in Numbered /\ row[a[2]].amt < ClosingFee
        \/ a[1] = "coin in aggregation" /\ RefundRows(a[2], Committed) # {}
\* With an honest exchange no alarm is without an excuse.
AlarmInv == Honest => \A a \in alarms : Excused(a)

(* Nothing to complain about, no alarm.                                    *)
LEMMA NoAlarm ==
    ASSUME NEW k
    PROVE  Alarm(k, {}) = {}
PROOF
  BY DEF Alarm

(* With an honest exchange every coin is spent by the rules.               *)
LEMMA HonestClean ==
    ASSUME RowsInv, Honest
    PROVE  \A c : Clean(c)
PROOF
  BY CommittedInPlan DEF Honest, Clean, SpendRows, RowsOf

(* The helper for the reserves.                                            *)
LEMMA ReserveAlarmsExcused ==
    ASSUME RowsInv, BalanceInv, GroundsInv, ReserveAuditInv, Honest, Reserves_,
           NEW a \in alarms' \ alarms
    PROVE  Excused(a)
PROOF
<1> DEFINE S == Committed
           ins == ReservesInAbove(S, ppr.in)
           outs == WithdrawalsAbove(S, ppr.out)
           recoups == RecoupAbove(S, ppr.recoup)
           closed == ReserveClosedAbove(S, ppr.close)
           in == ins \cup recoups
           out == outs \cup closed
           touched == ReservesOf(in \cup out)
<1>0. S \subseteq Numbered /\ Numbered \subseteq plan /\ plan \subseteq Ops
  BY CommittedInPlan DEF RowsInv
<1>1. \/ a \in Alarm("irregular recoup", IrregularRecoups(recoups, S))
      \/ a \in Alarm("closing fee", WrongClosingFees(closed, in \cup outs))
      \/ a \in Alarm("insufficient balance", {r \in touched : InsufficientBalance(r, in, out)})
      \/ a \in Alarm("reserve balance", {r \in touched : SummaryWrong(r, in, out)})
      \/ a \in Alarm("not closed",
                     {r \in touched : NotClosed(r, in, out, ExpiryAfter(r, in))})
  BY DEF Reserves_, AuditReserves, Raise
<1>2. touched \subseteq Reserves
  BY <1>0 DEF ReservesOf, ReservesInAbove, WithdrawalsAbove, RecoupAbove, ReserveClosedAbove,
              Above, Of, BalanceInv
<1>3. IrregularRecoups(recoups, S) = {}
  BY <1>0 DEF IrregularRecoups, RecoupAbove, Above, Of, GroundsInv, RecoupKinds
<1>4. \A o \in closed : o \in Numbered /\ row[o].amt \in Nat
  BY <1>0 DEF ReserveClosedAbove, Above, Of, BalanceInv
<1>5. ASSUME NEW o \in WrongClosingFees(closed, in \cup outs)
      PROVE  o \in Numbered /\ row[o].amt < ClosingFee
  <2>1. o \in closed /\ ClosingFeeOf(row[o].amt) # ClosingFee
    BY DEF WrongClosingFees
  <2>2. ClosingFee \in Nat
    BY BooksAssumption
  <2>3. Min({row[o].amt, ClosingFee}) = IF row[o].amt <= ClosingFee THEN row[o].amt ELSE ClosingFee
    BY <1>4, <2>1, <2>2, MinTwo
  <2>4. row[o].amt \in Nat /\ o \in Numbered
    BY <1>4, <2>1
  <2> QED
    BY <2>1, <2>2, <2>3, <2>4 DEF ClosingFeeOf
<1>6. \A r \in Reserves : ~Suspect(r)'
  <2>1. ReserveAuditInv'
    BY AuditReserveAudit
  <2>2. Honest'
    BY DEF Honest, Reserves_, bookVars
  <2> QED
    BY <2>1, <2>2 DEF ReserveAuditInv
<1>7. \A r \in Reserves : <<"insufficient balance", r>> \notin alarms'
                          /\ <<"reserve balance", r>> \notin alarms'
  BY <1>6 DEF Suspect
<1> HIDE DEF ins, outs, recoups, closed, in, out, touched
<1>8. CASE a \in Alarm("irregular recoup", IrregularRecoups(recoups, S))
  BY <1>3, <1>8, NoAlarm
<1>9. CASE a \in Alarm("closing fee", WrongClosingFees(closed, in \cup outs))
  <2>1. a[1] = "closing fee" /\ a[2] \in WrongClosingFees(closed, in \cup outs)
    BY ONLY <1>9, AlarmIn, Zenon
  <2> QED
    BY <1>5, <2>1 DEF Excused
<1>10. CASE a \in Alarm("insufficient balance", {r \in touched : InsufficientBalance(r, in, out)})
  <2>1. PICK r \in touched : a = <<"insufficient balance", r>>
    BY <1>10 DEF Alarm
  <2> QED
    BY <1>2, <1>7, <2>1
<1>11. CASE a \in Alarm("reserve balance", {r \in touched : SummaryWrong(r, in, out)})
  <2>1. PICK r \in touched : a = <<"reserve balance", r>>
    BY <1>11 DEF Alarm
  <2> QED
    BY <1>2, <1>7, <2>1
<1>12. CASE a \in Alarm("not closed",
                     {r \in touched : NotClosed(r, in, out, ExpiryAfter(r, in))})
  <2>1. a[1] = "not closed"
    BY ONLY <1>12, AlarmIn, Zenon
  <2> QED
    BY <2>1 DEF Excused, BookAlarms
<1> QED
  BY <1>1, <1>8, <1>9, <1>10, <1>11, <1>12

(* The helper for the coins.                                               *)
LEMMA CoinAlarmsExcused ==
    ASSUME RowsInv, GroundsInv, SpendInv, Honest, Coins_, NEW a \in alarms' \ alarms
    PROVE  Excused(a)
PROOF
<1> DEFINE S == Committed
           back == RecoupRefreshAbove(S, ppc.recoup_refresh)
           recoups == RecoupAbove(S, ppc.recoup)
           melts == RefreshesAbove(S, ppc.melt)
           deposits == DepositsAbove(S, ppc.deposit)
           T == deposits \cup melts \cup recoups \cup back
<1>0. S \subseteq Numbered /\ Numbered \subseteq plan /\ plan \subseteq Ops
  BY CommittedInPlan DEF RowsInv
<1>1. AuditCoins
  BY DEF Coins_
<1>2. \/ a \in Alarm("coin history", Overspent(T, S))
      \/ a \in Alarm("melt cost", CostTooHigh(melts, S))
      \/ a \in Alarm("not revoked", IrregularCoinRecoups(recoups \cup back, S))
      \/ \E E : a \in Alarm("emergency", E)
  BY <1>1 DEF AuditCoins, Raise
<1>3. Overspent(T, S) = {}
  <2>1. \A o \in T : CoinOf(o) \in Coins
    <3>1. \A o \in T : o \in Ops /\ Op[o].kind \in Spends
      BY <1>0 DEF RecoupRefreshAbove, RecoupAbove, RefreshesAbove, DepositsAbove, Above, Of, Spends
    <3> HIDE DEF T
    <3> QED
      BY <3>1, OpFacts DEF CoinOf, Spends
  <2>2. \A c \in Coins : ~Overspend(c)
    BY HonestClean DEF SpendInv, CleanInv
  <2> HIDE DEF T
  <2> QED
    BY <2>1, <2>2 DEF Overspent, Overspend
<1>4. CostTooHigh(melts, S) = {}
  <2> SUFFICES ASSUME NEW m \in CostTooHigh(melts, S) PROVE FALSE
    OBVIOUS
  <2>1. m \in Ops /\ Op[m].kind = "melt" /\ m \in plan /\ Revealed(m, S)
        /\ DenomOfCoin(Op[m].fresh).value + DenomOfCoin(Op[m].fresh).withdraw
             > row[m].amt - DenomOfCoin(Op[m].coin).refresh
    BY <1>0 DEF CostTooHigh, Hanging, RefreshesAbove, Above, Of
  <2>2. PICK v \in Of(S, "reveal") : Op[v].melt = m
    BY <2>1 DEF Revealed
  <2>3. Price(Op[m].fresh) <= row[m].amt - DenomOfCoin(Op[m].coin).refresh
    BY <1>0, <2>2 DEF GroundsInv, Of
  <2>4. PICK p, x, f : /\ p = Price(Op[m].fresh) /\ x = row[m].amt
                    /\ f = DenomOfCoin(Op[m].coin).refresh
    OBVIOUS
  <2>5. p \in Nat /\ x \in Int /\ f \in Nat
    BY <2>1, <2>4, OpFacts, CoinFacts DEF RowsInv
  <2>6. p <= x - f /\ p > x - f
    BY <2>1, <2>3, <2>4 DEF Price
  <2> QED
    BY ONLY <2>5, <2>6
<1>5. IrregularCoinRecoups(recoups \cup back, S) = {}
  BY <1>0 DEF IrregularCoinRecoups, RecoupRefreshAbove, RecoupAbove, Above, Of, GroundsInv,
              RecoupKinds
<1> HIDE DEF T, recoups, back, melts
<1>6. CASE \E E : a \in Alarm("emergency", E)
  <2>1. PICK E : a \in Alarm("emergency", E)
    BY <1>6
  <2>2. a[1] = "emergency"
    BY ONLY <2>1, AlarmIn, Zenon
  <2> QED
    BY <2>2 DEF Excused, BookAlarms
<1> QED
  BY <1>2, <1>3, <1>4, <1>5, <1>6, NoAlarm

(* The helper for the transfers.                                           *)
LEMMA WireAlarmsExcused ==
    ASSUME RefundsCost, RowsInv, RefundInv, GroundsInv, SpendInv, WireInv, Honest, Aggregation_,
           NEW a \in alarms' \ alarms
    PROVE  Excused(a)
PROOF
<1> DEFINE S == Committed
           new == WireOutAbove(S, ppa)
           deposits == UNION {Op[o].deposits : o \in new}
<1>0. S \subseteq Numbered /\ Numbered \subseteq plan /\ plan \subseteq Ops
  BY CommittedInPlan DEF RowsInv
<1>1. \/ a \in Alarm("wire out amount", {o \in new : WrongAmount(o, S)})
      \/ a \in Alarm("wire fee", {o \in new : FeeExceeds(o, S)})
      \/ a \in Alarm("coin in aggregation",
                     {Op[d].coin : d \in {e \in deposits : BadHistory(e, S)}})
  BY DEF Aggregation_, AuditAggregation, Raise
<1>2. ASSUME NEW o \in new
      PROVE  ~WrongAmount(o, S) /\ ~FeeExceeds(o, S)
  <2>1. o \in Of(Committed, "wire") /\ o \in Of(Numbered, "wire") /\ o \in plan
    BY <1>0 DEF WireOutAbove, Above, Of
  <2>2. WireTotal(o, S) \in Nat /\ TotalDeposits(o, S) = WireTotal(o, S)
    BY <2>1, DepositsAddUp
  <2>3. Op[o].honest
    BY <2>1 DEF Honest
  <2>4. row[o].amt = RoundedDown(WireTotal(o, S) - WireFee) + 0 /\ WireFee <= WireTotal(o, S)
    BY <2>1, <2>3 DEF WireInv
  <2>5. WireFee \in Nat
    BY BooksAssumption
  <2>6. ~(WireTotal(o, S) < WireFee)
    BY <2>2, <2>4, <2>5
  <2>7. RoundedDown(WireTotal(o, S) - WireFee) \in Int
    BY <2>2, <2>5, RoundedInt
  <2>8. row[o].amt = RoundedDown(WireTotal(o, S) - WireFee)
    BY <2>4, <2>7
  <2> QED
    BY <2>2, <2>6, <2>8 DEF WrongAmount, FeeExceeds, ExpectedWire
<1>3. ASSUME NEW d \in deposits, BadHistory(d, S)
      PROVE  RefundRows(Op[d].coin, S) # {}
  <2>1. PICK o \in new : d \in Op[o].deposits
    OBVIOUS
  <2>2. o \in Of(Numbered, "wire") /\ o \in Ops /\ Op[o].kind = "wire"
    BY <1>0 DEF WireOutAbove, Above, Of
  <2>3. d \in Ops /\ Op[d].kind = "deposit" /\ d \in S
    BY <1>0, <2>1, <2>2, OpFacts DEF WireInv, Of, WireOutAbove, Above
  <2>4. PICK c \in Coins : c = Op[d].coin
    BY <2>3, OpFacts
  <2>5. GainAfterRefunds(d, S) \in Nat
    BY <2>3, GainIsContribution DEF Of
  <2>6. /\ Total(RecoupRows(c, S)) \in Nat /\ Total(RecoupRows(c, S)) <= Spent(c, S)
        /\ Spent(c, S) \in Int
    BY RecoupsSpent DEF SpendInv
  <2>7. ~Overspend(c) /\ DenomOfCoin(c).value \in Nat /\ DenomOfCoin(c).deposit \in Nat
    BY CoinFacts, HonestClean DEF SpendInv, CleanInv
  <2>8. \/ HistorySpent(c, S) < 0
        \/ HistorySpent(c, S) > DenomOfCoin(c).value
    BY <1>3, <2>4, <2>5 DEF BadHistory
  <2>9. HistorySpent(c, S) = Spent(c, S) + (IF RefundRows(c, S) = {} THEN 0
                                            ELSE DenomOfCoin(c).deposit)
    BY DEF HistorySpent, RefundRows
  <2> QED
    BY <2>4, <2>6, <2>7, <2>8, <2>9 DEF Overspend
<1> HIDE DEF new, deposits
<1>4. {o \in new : WrongAmount(o, S)} = {} /\ {o \in new : FeeExceeds(o, S)} = {}
  BY <1>2
<1>5. CASE a \in Alarm("coin in aggregation",
                      {Op[d].coin : d \in {e \in deposits : BadHistory(e, S)}})
  <2>1. a[1] = "coin in aggregation"
        /\ a[2] \in {Op[d].coin : d \in {e \in deposits : BadHistory(e, S)}}
    BY ONLY <1>5, AlarmIn, Zenon
  <2> QED
    BY <1>3, <2>1 DEF Excused
<1> QED
  BY <1>1, <1>4, <1>5, NoAlarm

(* Every alarm that a step adds is excused.                                *)
LEMMA NextAlarm ==
    ASSUME RefundsCost, MaxOpen = 1, RowsInv, BalanceInv, ReserveAuditInv, RefundInv, WireInv,
           GroundsInv, SpendInv, AlarmInv, [Next]_vars
    PROVE  AlarmInv'
PROOF
<1> SUFFICES ASSUME Honest', NEW a \in alarms' PROVE Excused(a)'
  BY DEF AlarmInv
<1>1. /\ plan' = plan /\ Numbered \subseteq Numbered' /\ Committed \subseteq Committed'
      /\ \A o \in Numbered : row'[o] = row[o]
  BY CommittedKept
<1>2. Honest
  BY <1>1 DEF Honest
<1>3. Excused(a) => Excused(a)'
  <2>1. RefundRows(a[2], Committed) \subseteq RefundRows(a[2], Committed)'
    BY <1>1 DEF RefundRows, RowsOf, CoinOf
  <2> QED
    BY <1>1, <2>1 DEF Excused
<1>4. CASE a \in alarms
  BY <1>2, <1>3, <1>4 DEF AlarmInv
<1>5. CASE a \notin alarms
  <2>1. CASE Reserves_
    BY <1>2, <1>3, <1>5, <2>1, ReserveAlarmsExcused
  <2>2. CASE Coins_
    BY <1>2, <1>3, <1>5, <2>2, CoinAlarmsExcused
  <2>3. CASE Aggregation_
    BY <1>2, <1>3, <1>5, <2>3, WireAlarmsExcused
  <2>4. CASE ~Reserves_ /\ ~Coins_ /\ ~Aggregation_
    <3>1. a[1] \in {"deposit missing"} \cup AllWireAlarms
      BY <1>5, <2>4, DepositAdds, WireAdds, OtherAdds DEF Next, Adds
    <3>2. a[1] \notin BookAlarms
      BY <3>1 DEF BookAlarms, AllWireAlarms, WireAlarms
    <3> QED
      BY <3>2 DEF Excused
  <2> QED
    BY <2>1, <2>2, <2>3, <2>4
<1> QED
  BY <1>4, <1>5

\* Why the helpers for reserves, coins and aggregation find what they expect.
QuietInv ==
    /\ RowsInv /\ BalanceInv /\ ReserveAuditInv
    /\ RefundInv /\ WireInv
    /\ GroundsInv /\ SpendInv
    /\ AlarmInv

(* With an honest exchange the helpers for reserves, coins and aggregation *)
(* raise no alarm, whenever they run, but for the closing fee of a small   *)
(* reserve and for a transfer of a coin that had a refund. The refund fee  *)
(* is at least the deposit fee: otherwise a refund lets a coin be recouped *)
(* twice, for more than its value, and                                     *)
(* check_transaction_history_for_deposit finds more refunds than           *)
(* expenditures in the history of the coin that it was refreshed from.     *)
THEOREM NeverFalseAlarm ==
    ASSUME MaxOpen = 1, RefundsCost
    PROVE  Spec => []NoFalseAlarm
PROOF
<1>1. Init => QuietInv
  BY InitBooks, InitReserveAudit, InitRefund, InitGrounds
     DEF QuietInv, AlarmInv, Init, LibInit
<1>2. QuietInv /\ [Next]_vars => QuietInv'
  <2> SUFFICES ASSUME QuietInv, [Next]_vars PROVE QuietInv'
    OBVIOUS
  <2>1. RowsInv' /\ BalanceInv' /\ ReserveAuditInv'
    BY NextBooks, NextReserveAudit DEF QuietInv
  <2>2. RefundInv' /\ WireInv'
    BY NextRefund, NextWire DEF QuietInv
  <2>3. GroundsInv' /\ SpendInv'
    BY NextGrounds, NextSpend DEF QuietInv
  <2>4. AlarmInv'
    BY NextAlarm DEF QuietInv
  <2> QED
    BY <2>1, <2>2, <2>3, <2>4 DEF QuietInv
<1>3. QuietInv => NoFalseAlarm
  BY DEF QuietInv, AlarmInv, Excused, NoFalseAlarm, RefundRows
<1> QED
  BY <1>1, <1>2, <1>3, PTL DEF Spec

---------------------------------------------------------------------------
(* Credits and marks.                                                      *)

(* A row that a step numbers is the row of an insert, with a serial number *)
(* above those of its table.                                               *)
LEMMA NewRow ==
    ASSUME RowsInv, MaxOpen = 1, [Next]_vars, NEW o \in Numbered', o \notin Numbered
    PROVE  /\ o \in plan /\ Accepted(o) /\ open = {} /\ Committed' = Committed
           /\ Numbered' = Numbered \cup {o} /\ Numbered = Committed
           /\ row'[o].id \in Nat /\ row'[o].id > 0
           /\ \A p \in plan : Op[p].kind = Op[o].kind => row[p].id < row'[o].id
           /\ credits' = credits /\ debits' = debits
PROOF
<1>0. plan' = plan
  BY PlanStays
<1>1. PICK p \in plan : Insert(p)
  <2>1. \A p \in plan : Commit(p) => row' = row
    BY CommitEffect
  <2>2. BooksSame => row' = row
    BY DEF BooksSame
  <2> QED
    BY <1>0, <2>1, <2>2, StepCases DEF Numbered
<1>2. /\ open = {} /\ Accepted(p) /\ Committed' = Committed /\ row[p].id = 0
      /\ row'[p].id = NextSerial(Op[p].kind)
      /\ \A q \in plan \ {p} : row'[q] = row[q]
  BY <1>1, InsertEffect
<1>3. p = o
  BY <1>0, <1>2 DEF Numbered
<1>4. credits' = credits /\ debits' = debits
  BY <1>1 DEF Insert
<1>5. /\ NextSerial(Op[o].kind) \in Nat /\ NextSerial(Op[o].kind) > 0
      /\ \A q \in plan : Op[q].kind = Op[o].kind => row[q].id < NextSerial(Op[o].kind)
  BY NextSerialLarger
<1>6. Numbered' = Numbered \cup {o} /\ Numbered = Committed
  BY <1>0, <1>2, <1>3, <1>5 DEF Numbered, Committed
<1> QED
  BY <1>2, <1>3, <1>4, <1>5, <1>6

\* A mark that is not above the serial number of the next row.
Below(k, m) == m \in Nat /\ (m = 1 \/ \E o \in Of(Numbered, k) : m <= row[o].id + 1)

(* The rows that a step numbers are above such a mark.                     *)
LEMMA BelowStep ==
    ASSUME RowsInv, MaxOpen = 1, [Next]_vars, NEW k, NEW m, Below(k, m)
    PROVE  /\ Below(k, m)'
           /\ \A o \in Of(Numbered, k)' : o \notin Numbered => ~(row'[o].id < m)
PROOF
<1>1. plan' = plan /\ Numbered \subseteq Numbered' /\ \A o \in Numbered : row'[o] = row[o]
  BY CommittedKept
<1>2. Below(k, m)'
  BY <1>1 DEF Below, Of
<1>3. ASSUME NEW o \in Of(Numbered, k)', o \notin Numbered
      PROVE  ~(row'[o].id < m)
  <2>1. o \in Numbered' /\ Op[o].kind = k
    BY DEF Of
  <2>2. /\ row'[o].id \in Nat /\ row'[o].id > 0
        /\ \A p \in plan : Op[p].kind = Op[o].kind => row[p].id < row'[o].id
    BY <1>3, <2>1, NewRow
  <2>3. CASE m = 1
    BY <2>2, <2>3
  <2>4. ASSUME NEW p \in Of(Numbered, k), m <= row[p].id + 1
        PROVE  ~(row'[o].id < m)
    <3>1. row[p].id \in Nat /\ row[p].id < row'[o].id /\ m \in Nat
      BY <2>1, <2>2 DEF Of, Numbered, RowsInv, Below
    <3> QED
      BY <2>2, <2>4, <3>1
  <2> QED
    BY <2>3, <2>4 DEF Below
<1> QED
  BY <1>2, <1>3

\* The rows of the incoming transfers of an account are in the bank's order.
CreditOrder ==
    \A o \in Of(Numbered, "credit") : \E i \in DOMAIN credits :
        /\ credits[i] = o
        /\ \A j \in 1..(i - 1) : Op[credits[j]].account = Op[o].account
              => credits[j] \in Committed /\ row[credits[j]].id < row[o].id

\* The mark and the offset of an account are at the same transfer.
CreditsMatch(q) ==
    \A a \in Accounts :
        LET p == q.account[a]
        IN /\ p.in_off \in Nat /\ p.in_off <= Len(credits)
           /\ Below("credit", p.in)
           /\ \A i \in DOMAIN credits : Op[credits[i]].account = a
                 => (i <= p.in_off <=> row[credits[i]].id \in 1..(p.in - 1))

(* The bank adds credits at the end of its history.                        *)
LEMMA CreditsStep ==
    ASSUME RowsInv, [Next]_vars
    PROVE  \/ credits' = credits
           \/ \E x \in plan : /\ credits' = Append(credits, x) /\ Op[x].kind = "credit"
                              /\ \A i \in DOMAIN credits : credits[i] # x
                              /\ row' = row
PROOF
<1>1. CASE UNCHANGED bookVars
  BY <1>1 DEF bookVars
<1>2. CASE BooksNext
  BY <1>2 DEF BooksNext, Insert, Commit, BankCredit, Steal, BankDebit, Tick
<1> QED
  BY <1>1, <1>2 DEF Next, Exchange, Confirm, Reserves_, Coins_, Aggregation_, Deposits_, Wire_,
                    Fails, vars

(* wirewatch writes the rows in the order of the bank.                     *)
LEMMA NextCreditOrder ==
    ASSUME RowsInv, MaxOpen = 1, BankInv, CreditOrder, [Next]_vars
    PROVE  CreditOrder'
PROOF
<1>1. /\ plan' = plan /\ Committed \subseteq Committed' /\ Numbered \subseteq Numbered'
      /\ \A o \in Numbered : row'[o] = row[o]
  BY CommittedKept
<1>2. Committed \subseteq Numbered
  BY CommittedInPlan
<1>3. credits \in Seq(plan) /\ Len(credits) \in Nat /\ DOMAIN credits = 1..Len(credits)
  BY DEF BankInv
<1>4. \A i \in DOMAIN credits : i \in DOMAIN credits' /\ credits'[i] = credits[i]
  <2>1. ASSUME NEW x \in plan, credits' = Append(credits, x)
        PROVE  \A i \in DOMAIN credits : i \in DOMAIN credits' /\ credits'[i] = credits[i]
    BY ONLY <1>3, <2>1, AppendFacts
  <2> QED
    BY <2>1, CreditsStep
<1>5. ASSUME NEW o \in Of(Numbered, "credit")
      PROVE  \E i \in DOMAIN credits' :
                /\ credits'[i] = o
                /\ \A j \in 1..(i - 1) : Op[credits'[j]].account = Op[o].account
                      => credits'[j] \in Committed' /\ row'[credits'[j]].id < row'[o].id
  <2>1. PICK i \in DOMAIN credits :
        /\ credits[i] = o
        /\ \A j \in 1..(i - 1) : Op[credits[j]].account = Op[o].account
              => credits[j] \in Committed /\ row[credits[j]].id < row[o].id
    BY DEF CreditOrder
  <2>2. \A j \in 1..(i - 1) : j \in DOMAIN credits
    BY <1>3
  <2>3. row'[o] = row[o]
    BY <1>1 DEF Of
  <2> QED
    BY <1>1, <1>2, <1>4, <2>1, <2>2, <2>3
<1>6. ASSUME NEW o \in Of(Numbered, "credit")', o \notin Numbered
      PROVE  \E i \in DOMAIN credits' :
                /\ credits'[i] = o
                /\ \A j \in 1..(i - 1) : Op[credits'[j]].account = Op[o].account
                      => credits'[j] \in Committed' /\ row'[credits'[j]].id < row'[o].id
  <2>1. o \in Numbered' /\ Op[o].kind = "credit"
    BY DEF Of
  <2>2. /\ Accepted(o) /\ credits' = credits
        /\ \A p \in plan : Op[p].kind = Op[o].kind => row[p].id < row'[o].id
    BY <1>6, <2>1, NewRow
  <2>3. PICK i \in DOMAIN credits :
           /\ credits[i] = o
           /\ \A j \in 1..(i - 1) : Op[credits[j]].account = Op[o].account
                 => credits[j] \in Committed
    BY <2>1, <2>2 DEF Accepted, Justified, Fraudulent
  <2>4. \A j \in 1..(i - 1) : j \in DOMAIN credits /\ Op[credits[j]].kind = "credit"
    BY <1>3 DEF BankInv
  <2>5. \A p \in Committed : Op[p].kind = "credit" => row'[p].id < row'[o].id
    BY <1>1, <1>2, <2>1, <2>2 DEF Numbered
  <2> QED
    BY <1>1, <2>2, <2>3, <2>4, <2>5
<1> QED
  BY <1>5, <1>6 DEF CreditOrder, Of

(* No step changes what is below the mark and the offset.                  *)
LEMMA StepCreditsMatch ==
    ASSUME RowsInv, MaxOpen = 1, BankInv, CreditOrder, [Next]_vars, NEW q, CreditsMatch(q)
    PROVE  CreditsMatch(q)'
PROOF
<1>1. /\ plan' = plan /\ Numbered \subseteq Numbered' /\ \A o \in Numbered : row'[o] = row[o]
  BY CommittedKept
<1>3. credits \in Seq(plan) /\ Len(credits) \in Nat /\ DOMAIN credits = 1..Len(credits)
      /\ \A i \in DOMAIN credits : credits[i] \in plan /\ Op[credits[i]].kind = "credit"
  BY DEF BankInv
<1> SUFFICES ASSUME NEW a \in Accounts
             PROVE  LET p == q.account[a]
                    IN /\ p.in_off \in Nat /\ p.in_off <= Len(credits')
                       /\ Below("credit", p.in)'
                       /\ \A i \in DOMAIN credits' : Op[credits'[i]].account = a
                             => (i <= p.in_off <=> row'[credits'[i]].id \in 1..(p.in - 1))
  BY DEF CreditsMatch
<1>4. PICK f, m : f = q.account[a].in_off /\ m = q.account[a].in
  OBVIOUS
<1>5. /\ f \in Nat /\ f <= Len(credits) /\ Below("credit", m) /\ m \in Nat
      /\ \A i \in DOMAIN credits : Op[credits[i]].account = a
            => (i <= f <=> row[credits[i]].id \in 1..(m - 1))
  BY <1>4 DEF CreditsMatch, Below
<1>6. /\ Below("credit", m)'
      /\ \A o \in Of(Numbered, "credit")' : o \notin Numbered => ~(row'[o].id < m)
  BY <1>5, BelowStep
<1>7. \A i \in DOMAIN credits :
         row'[credits[i]].id \in 1..(m - 1) <=> row[credits[i]].id \in 1..(m - 1)
  <2> TAKE i \in DOMAIN credits
  <2>1. PICK o : o = credits[i] /\ o \in plan /\ Op[o].kind = "credit"
    BY <1>3
  <2>2. CASE o \in Numbered
    BY <1>1, <2>1, <2>2
  <2>3. CASE o \notin Numbered
    <3>1. row[o].id \notin 1..(m - 1)
      BY <1>5, <2>1, <2>3 DEF Numbered
    <3>2. row'[o].id \notin 1..(m - 1)
      <4>1. CASE o \in Numbered'
        <5>1. ~(row'[o].id < m)
          BY <1>6, <2>1, <2>3, <4>1 DEF Of
        <5> QED
          BY <1>5, <5>1
      <4>2. CASE o \notin Numbered'
        BY <1>1, <1>5, <2>1, <4>2 DEF Numbered
      <4> QED
        BY <4>1, <4>2
    <3> QED
      BY <2>1, <3>1, <3>2
  <2> QED
    BY <2>2, <2>3
<1>8. CASE credits' = credits
  BY <1>4, <1>5, <1>6, <1>7, <1>8
<1>9. ASSUME NEW x \in plan, credits' = Append(credits, x), Op[x].kind = "credit",
             \A i \in DOMAIN credits : credits[i] # x, row' = row
      PROVE  /\ f <= Len(credits')
             /\ \A i \in DOMAIN credits' : Op[credits'[i]].account = a
                             => (i <= f <=> row'[credits'[i]].id \in 1..(m - 1))
  <2>1. /\ Len(credits') = Len(credits) + 1
        /\ \A i \in DOMAIN credits : credits'[i] = credits[i]
        /\ credits'[Len(credits) + 1] = x
        /\ \A i \in DOMAIN credits' : i \in DOMAIN credits \/ i = Len(credits) + 1
    BY ONLY <1>3, <1>9, AppendFacts
  <2>2. PICK n \in Nat : n = Len(credits)
    BY <1>3
  <2>3. f <= n + 1 /\ ~(n + 1 <= f)
    <3>1. f <= n
      BY <1>5, <2>2
    <3> QED
      BY ONLY <1>5, <3>1, n \in Nat
  <2>4. row[x].id \notin 1..(m - 1)
    <3>1. x \notin Numbered
      BY <1>9 DEF CreditOrder, Of
    <3> QED
      BY <1>5, <3>1 DEF Numbered
  <2>5. ASSUME NEW i \in DOMAIN credits', Op[credits'[i]].account = a
        PROVE  i <= f <=> row'[credits'[i]].id \in 1..(m - 1)
    <3>1. CASE i \in DOMAIN credits
      BY <1>5, <1>7, <2>1, <2>5, <3>1
    <3>2. CASE i = Len(credits) + 1
      BY <1>9, <2>1, <2>2, <2>3, <2>4, <3>2
    <3> QED
      BY <2>1, <3>1, <3>2
  <2> QED
    BY <2>1, <2>2, <2>3, <2>5
<1> QED
  BY <1>4, <1>5, <1>6, <1>8, <1>9, CreditsStep

---------------------------------------------------------------------------
(* What the wire helper has seen.                                          *)

\* What the wire helper's transaction sees is what the tables began with.
SnapOf(v) ==
    /\ v.snap \subseteq Committed
    /\ \A p \in v.snap : \A o \in Numbered \ v.snap :
          Op[o].kind = Op[p].kind => row[p].id < row[o].id
    /\ v.closures \subseteq Of(v.snap, "close")
    /\ v.in_map = {}
    /\ v.phase # "idle" => \A o \in Of(v.snap, "close") : row[o].id < v.pp.close

\* An audit has seen the debit of a row.
Seen(o, q) ==
    \E i \in DOMAIN debits : debits[i] = o /\ i <= q.account[Op[o].account].out_off

\* The transfers below the mark have been seen at the bank, but for those in X.
DebitsMatch(q, X) ==
    /\ \A a \in Accounts : Below("wire", q.account[a].out)
    /\ \A o \in Of(Numbered, "wire") :
          row[o].id < q.account[Op[o].account].out => o \in X \/ Seen(o, q)

\* So have the closed reserves, but for those in X and those still to be
\* explained.
CloseMatch(q, C, X) ==
    /\ Below("close", q.close)
    /\ \A o \in Of(Numbered, "close") :
          row[o].id < q.close => o \in C \/ o \in X \/ Seen(o, q)

\* A closed reserve without a debit after its account was done.
ClosuresLeft(v, X) ==
    \A o \in v.closures :
        \/ v.phase = "credits"
        \/ v.phase = "debits" /\ Op[o].account \in Range(v.todo)
        \/ o \in X
        \/ ClosureAmount(o) # DebitAmount(o)

(* The bank's debits stay.                                                 *)
LEMMA DebitsStay ==
    ASSUME RowsInv, MaxOpen = 1, BankInv, [Next]_vars
    PROVE  \A i \in DOMAIN debits : i \in DOMAIN debits' /\ debits'[i] = debits[i]
PROOF
<1>1. debits \in Seq(plan)
  BY DEF BankInv
<1>2. ASSUME NEW x \in plan, debits' = Append(debits, x)
      PROVE  \A i \in DOMAIN debits : i \in DOMAIN debits' /\ debits'[i] = debits[i]
  BY ONLY <1>1, <1>2, AppendFacts
<1> QED
  BY <1>2, NextBank

(* What was seen stays seen.                                               *)
LEMMA SeenStays ==
    ASSUME RowsInv, MaxOpen = 1, BankInv, [Next]_vars, NEW o, NEW q, Seen(o, q)
    PROVE  Seen(o, q)'
PROOF
  BY DebitsStay DEF Seen

(* No step changes which transfers are below a mark.                       *)
LEMMA StepDebitsMatch ==
    ASSUME RowsInv, MaxOpen = 1, BankInv, [Next]_vars, NEW q, NEW X, DebitsMatch(q, X)
    PROVE  DebitsMatch(q, X)'
PROOF
<1>1. /\ plan' = plan /\ Numbered \subseteq Numbered' /\ \A o \in Numbered : row'[o] = row[o]
  BY CommittedKept
<1>2. ASSUME NEW a \in Accounts
      PROVE  /\ Below("wire", q.account[a].out)'
             /\ \A o \in Of(Numbered, "wire")' :
                   o \notin Numbered => ~(row'[o].id < q.account[a].out)
  <2>1. PICK m : m = q.account[a].out
    OBVIOUS
  <2>2. Below("wire", m)
    BY <2>1 DEF DebitsMatch
  <2>3. /\ Below("wire", m)'
        /\ \A o \in Of(Numbered, "wire")' : o \notin Numbered => ~(row'[o].id < m)
    BY <2>2, BelowStep
  <2> QED
    BY <2>1, <2>3
<1>3. ASSUME NEW o \in Of(Numbered, "wire")', row'[o].id < q.account[Op[o].account].out
      PROVE  o \in X \/ Seen(o, q)'
  <2>1. o \in plan /\ Op[o].kind = "wire" /\ o \in Ops
    BY <1>1 DEF Of, Numbered, RowsInv
  <2>2. Op[o].account \in Accounts
    BY <2>1, OpFacts
  <2>3. o \in Numbered
    BY <1>2, <1>3, <2>2
  <2>4. o \in X \/ Seen(o, q)
    BY <1>1, <1>3, <2>1, <2>3 DEF DebitsMatch, Of
  <2> QED
    BY <2>4, SeenStays
<1> QED
  BY <1>2, <1>3 DEF DebitsMatch

(* No step changes which closed reserves are below a mark.                 *)
LEMMA StepCloseMatch ==
    ASSUME RowsInv, MaxOpen = 1, BankInv, [Next]_vars, NEW q, NEW C, NEW X,
           CloseMatch(q, C, X)
    PROVE  CloseMatch(q, C, X)'
PROOF
<1>1. /\ plan' = plan /\ Numbered \subseteq Numbered' /\ \A o \in Numbered : row'[o] = row[o]
  BY CommittedKept
<1>2. /\ Below("close", q.close)'
      /\ \A o \in Of(Numbered, "close")' : o \notin Numbered => ~(row'[o].id < q.close)
  BY BelowStep DEF CloseMatch
<1>3. ASSUME NEW o \in Of(Numbered, "close")', row'[o].id < q.close
      PROVE  o \in C \/ o \in X \/ Seen(o, q)'
  <2>1. o \in Numbered /\ Op[o].kind = "close"
    BY <1>2, <1>3 DEF Of
  <2>2. o \in C \/ o \in X \/ Seen(o, q)
    BY <1>1, <1>3, <2>1 DEF CloseMatch, Of
  <2> QED
    BY <2>2, SeenStays
<1> QED
  BY <1>2, <1>3 DEF CloseMatch

(* Steps of the others leave what the transaction sees in place.           *)
LEMMA RowsOfSnap ==
    ASSUME RowsInv, MaxOpen = 1, [Next]_vars, NEW S, S \subseteq Committed,
           \A p \in S : \A o \in Numbered \ S : Op[o].kind = Op[p].kind => row[p].id < row[o].id
    PROVE  /\ S \subseteq Committed' /\ \A p \in S : row'[p] = row[p]
           /\ \A p \in S : \A o \in Numbered' \ S :
                 Op[o].kind = Op[p].kind => row'[p].id < row'[o].id
PROOF
<1>1. /\ plan' = plan /\ Committed \subseteq Committed' /\ Numbered \subseteq Numbered'
      /\ \A o \in Numbered : row'[o] = row[o]
  BY CommittedKept
<1>2. Committed \subseteq Numbered /\ Numbered \subseteq plan
  BY CommittedInPlan
<1>3. ASSUME NEW p \in S, NEW o \in Numbered' \ S, Op[o].kind = Op[p].kind
      PROVE  row'[p].id < row'[o].id
  <2>1. CASE o \in Numbered
    BY <1>1, <1>2, <1>3, <2>1
  <2>2. CASE o \notin Numbered
    <3>1. row[p].id < row'[o].id
      BY <1>2, <1>3, <2>2, NewRow
    <3> QED
      BY <1>1, <1>2, <3>1
  <2> QED
    BY <2>1, <2>2
<1> QED
  BY <1>1, <1>2, <1>3

(* No step changes what a transaction sees.                                *)
LEMMA StepSnap ==
    ASSUME RowsInv, MaxOpen = 1, [Next]_vars, NEW v, SnapOf(v)
    PROVE  SnapOf(v)'
PROOF
<1>1. PICK S : S = v.snap
  OBVIOUS
<1>2. /\ S \subseteq Committed
      /\ \A p \in S : \A o \in Numbered \ S : Op[o].kind = Op[p].kind => row[p].id < row[o].id
  BY <1>1 DEF SnapOf
<1>3. /\ S \subseteq Committed' /\ \A p \in S : row'[p] = row[p]
      /\ \A p \in S : \A o \in Numbered' \ S :
            Op[o].kind = Op[p].kind => row'[p].id < row'[o].id
  BY <1>2, RowsOfSnap
<1> QED
  BY <1>1, <1>3 DEF SnapOf, Of

(* A row keeps its amount.                                                 *)
LEMMA AmountStays ==
    ASSUME RowsInv, MaxOpen = 1, [Next]_vars, NEW o \in Numbered
    PROVE  ClosureAmount(o)' = ClosureAmount(o) /\ DebitAmount(o)' = DebitAmount(o)
PROOF
<1>1. row'[o] = row[o]
  BY CommittedKept
<1> QED
  BY <1>1 DEF ClosureAmount, DebitAmount

(* A closed reserve stays without a debit.                                 *)
LEMMA StepClosuresLeft ==
    ASSUME RowsInv, MaxOpen = 1, [Next]_vars, NEW v, NEW X, SnapOf(v), ClosuresLeft(v, X)
    PROVE  ClosuresLeft(v, X)'
PROOF
<1>1. \A o \in v.closures : o \in Numbered
  BY CommittedInPlan DEF SnapOf, Of
<1> QED
  BY <1>1, AmountStays DEF ClosuresLeft

\* The stored progress p and the helper's variables v agree with the bank and
\* the books, but for what was disturbed.
Trail(p, v, X) ==
    /\ SnapOf(v) /\ ClosuresLeft(v, X)
    /\ CreditsMatch(p) /\ CreditsMatch(v.pp)
    /\ DebitsMatch(p, X) /\ DebitsMatch(v.pp, X)
    /\ CloseMatch(p, {}, X) /\ CloseMatch(v.pp, v.closures, X)

(* All of it, for a given progress and given variables of the helper.      *)
LEMMA StepTrail ==
    ASSUME RowsInv, MaxOpen = 1, BankInv, CreditOrder, [Next]_vars, NEW p, NEW v, NEW X,
           Trail(p, v, X)
    PROVE  Trail(p, v, X)'
PROOF
<1>1. PICK q, C : q = v.pp /\ C = v.closures
  OBVIOUS
<1>2. SnapOf(v)' /\ ClosuresLeft(v, X)'
  BY StepSnap, StepClosuresLeft DEF Trail
<1>3. CreditsMatch(p)' /\ CreditsMatch(q)'
  BY <1>1, StepCreditsMatch DEF Trail
<1>4. DebitsMatch(p, X)' /\ DebitsMatch(q, X)'
  BY <1>1, StepDebitsMatch DEF Trail
<1>5. CloseMatch(p, {}, X)' /\ CloseMatch(q, C, X)'
  BY <1>1, StepCloseMatch DEF Trail
<1> QED
  BY <1>1, <1>2, <1>3, <1>4, <1>5 DEF Trail

---------------------------------------------------------------------------
(* The credits of an account.                                              *)

(* With an honest bank process_credits finds all the incoming transfers of *)
(* the books before the first credit that the exchange has not seen yet:   *)
(* wirewatch writes the rows in the bank's order.                          *)
LEMMA CreditsMatched ==
    ASSUME RowsInv, BankInv, WireShape, SnapOf(w), CreditOrder, CreditsMatch(w.pp),
           ProcessCredits, NEW q, q = w'.pp
    PROVE  CreditsMatch(q) /\ w'.in_map = {} /\ alarms' = alarms
PROOF
<1>1. PICK a, f, m : a = Head(w.todo) /\ f = w.pp.account[a].in_off /\ m = w.pp.account[a].in
  OBVIOUS
<1> DEFINE rows == ReserveInRows(a)
           new == History(credits, a, f)
           ends == {i \in new : credits[i] \notin w.in_map \cup rows}
           found == {i \in new : \A j \in ends : i < j}
           left == (w.in_map \cup rows) \ {credits[i] : i \in found}
<1>2. /\ a \in Accounts
      /\ w'.in_map = IF ends = {} THEN {} ELSE left
      /\ \A b \in Accounts \ {a} : w'.pp.account[b] = w.pp.account[b]
      /\ w'.pp.account[a].in = MarkAfter(rows, m)
      /\ w'.pp.account[a].in_off = LastOf(found, f)
  BY <1>1, CreditsEffect
<1>3. alarms' = alarms \cup Alarm("credit not at bank", InNotFound(left, ends))
  BY <1>1 DEF ProcessCredits, Raise
<1>4. w.in_map = {}
  BY DEF SnapOf
<1>5. /\ credits \in Seq(plan) /\ Len(credits) \in Nat /\ DOMAIN credits = 1..Len(credits)
      /\ \A i \in DOMAIN credits : credits[i] \in plan /\ Op[credits[i]].kind = "credit"
      /\ \A i, j \in DOMAIN credits : credits[i] = credits[j] => i = j
  BY DEF BankInv
<1>6. /\ f \in Nat /\ f <= Len(credits) /\ Below("credit", m) /\ m \in Nat
      /\ \A i \in DOMAIN credits : Op[credits[i]].account = a
            => (i <= f <=> row[credits[i]].id \in 1..(m - 1))
  BY <1>1, <1>2 DEF CreditsMatch, Below
<1>7. /\ rows \subseteq w.snap /\ rows \subseteq Of(Numbered, "credit")
      /\ rows \subseteq plan
      /\ \A o : o \in rows <=> /\ o \in w.snap /\ Op[o].kind = "credit"
                               /\ Op[o].account = a /\ row[o].id >= m
  <2>1. Committed \subseteq Numbered /\ Numbered \subseteq plan /\ w.snap \subseteq Committed
    BY CommittedInPlan DEF SnapOf
  <2>2. \A o : o \in rows <=> /\ o \in w.snap /\ Op[o].kind = "credit"
                              /\ Op[o].account = a /\ row[o].id >= m
    BY <1>1 DEF ReserveInRows, ReservesInAboveByAccount, Above, Of
  <2> HIDE DEF rows
  <2> QED
    BY <2>1, <2>2 DEF Of
<1>8. \A i : i \in new <=> i \in DOMAIN credits /\ i > f /\ Op[credits[i]].account = a
  BY DEF History
<1> HIDE DEF rows, new
\* What is numbered up to a row of the snapshot is in the snapshot.
<1>9. ASSUME NEW p \in rows, NEW o \in Numbered, Op[o].kind = "credit", Op[o].account = a,
             row[o].id >= m, row[o].id <= row[p].id
      PROVE  o \in rows
  <2>1. row[o].id \in Nat /\ row[p].id \in Nat /\ Op[p].kind = "credit"
    BY <1>7 DEF RowsInv, Numbered
  <2>2. CASE o \notin w.snap
    <3>1. row[p].id < row[o].id
      BY <1>7, <1>9, <2>1, <2>2 DEF SnapOf
    <3> QED
      BY <1>9, <2>1, <3>1
  <2>3. CASE o \in w.snap
    BY <1>7, <1>9, <2>3
  <2> QED
    BY <2>2, <2>3
<1>10. ASSUME NEW o \in rows
       PROVE  \E i \in found : credits[i] = o
  <2>1. PICK i \in DOMAIN credits :
           /\ credits[i] = o
           /\ \A j \in 1..(i - 1) : Op[credits[j]].account = Op[o].account
                 => credits[j] \in Committed /\ row[credits[j]].id < row[o].id
    BY <1>7 DEF CreditOrder
  <2>2. Op[o].account = a /\ row[o].id >= m /\ row[o].id \in Nat /\ i \in Nat
    BY <1>5, <1>7 DEF RowsInv
  <2>3. i \in new
    <3>1. ~(i <= f)
      BY <1>6, <2>1, <2>2
    <3> QED
      BY <1>6, <1>8, <2>1, <2>2, <3>1
  <2>4. ASSUME NEW j \in ends
        PROVE  i < j
    <3>1. /\ j \in DOMAIN credits /\ j > f /\ Op[credits[j]].account = a
          /\ credits[j] \notin rows /\ j \in Nat
      BY <1>5, <1>8
    <3>2. j # i
      BY <2>1, <3>1
    <3>3. CASE j < i
      <4>1. j \in 1..(i - 1)
        BY <1>5, <2>2, <3>1, <3>3
      <4>2. credits[j] \in Committed /\ row[credits[j]].id < row[o].id
        BY <2>1, <2>2, <3>1, <4>1
      <4>3. /\ credits[j] \in Numbered /\ Op[credits[j]].kind = "credit"
            /\ row[credits[j]].id \in Nat /\ row[credits[j]].id > 0
        BY <1>5, <3>1, <4>2, CommittedInPlan DEF RowsInv, Numbered
      <4>4. row[credits[j]].id >= m
        <5>1. ~(j <= f)
          BY <1>6, <3>1
        <5> QED
          BY <1>6, <3>1, <4>3, <5>1
      <4>5. credits[j] \in rows
        BY <1>9, <2>2, <3>1, <4>2, <4>3, <4>4
      <4> QED
        BY <3>1, <4>5
    <3> QED
      BY <2>2, <3>1, <3>2, <3>3
  <2> QED
    BY <2>1, <2>3, <2>4
<1>11. left = {}
  BY <1>4, <1>10
<1>12. w'.in_map = {}
  BY <1>2, <1>11
<1>13. alarms' = alarms
  <2>1. InNotFound(left, ends) = {}
    BY <1>11 DEF InNotFound
  <2> QED
    BY <1>3, <2>1, NoAlarm
<1>14. PICK n, l : n = MarkAfter(rows, m) /\ l = LastOf(found, f)
  OBVIOUS
<1>15. /\ n \in Nat /\ m <= n /\ \A o \in rows : row[o].id < n
       /\ n = m \/ \E o \in rows : n = row[o].id + 1
  BY <1>6, <1>7, <1>14, MarkAfterBounds
<1>16. PICK k \in Nat : k = Len(credits)
  BY <1>5
<1>17. /\ l \in Nat /\ f <= l /\ \A h \in found : h <= l
       /\ l = f \/ l \in found
  <2>1. found \subseteq 1..k
    BY <1>5, <1>8, <1>16
  <2> HIDE DEF found
  <2> QED
    BY ONLY <1>6, <1>14, <2>1, LastOfBounds, k \in Nat
<1>18. l <= k
  <2>1. \A h \in found : h \in 1..k
    BY <1>5, <1>8, <1>16
  <2>2. f <= k
    BY <1>6, <1>16
  <2> HIDE DEF found
  <2> QED
    BY ONLY <1>17, <2>1, <2>2, k \in Nat
<1>19. Below("credit", n)
  <2>1. CASE n = m
    BY <1>6, <2>1
  <2>2. ASSUME NEW o \in rows, n = row[o].id + 1
        PROVE  Below("credit", n)
    <3>1. n <= row[o].id + 1
      BY <1>15, <2>2
    <3> QED
      BY <1>7, <1>15, <3>1 DEF Below
  <2> QED
    BY <1>15, <2>1, <2>2
<1>20. ASSUME NEW i \in DOMAIN credits, Op[credits[i]].account = a
       PROVE  i <= l <=> row[credits[i]].id \in 1..(n - 1)
  <2>0. i \in Nat /\ credits[i] \in plan /\ row[credits[i]].id \in Nat
    BY <1>5 DEF RowsInv
  <2>1. CASE i <= f
    <3>1. row[credits[i]].id \in 1..(m - 1)
      BY <1>6, <1>20, <2>1
    <3> QED
      BY <1>6, <1>15, <1>17, <2>0, <2>1, <3>1
  <2>2. CASE ~(i <= f)
    <3>1. i \in new /\ row[credits[i]].id \notin 1..(m - 1)
      BY <1>6, <1>8, <1>20, <2>0, <2>2
    <3>2. ASSUME i <= l
          PROVE  row[credits[i]].id \in 1..(n - 1)
      <4>1. l \in found
        BY <1>6, <1>17, <2>2, <3>2
      <4>2. i \notin ends
        <5>1. ASSUME i \in ends PROVE FALSE
          <6>1. l < i
            BY <4>1, <5>1
          <6> QED
            BY <1>17, <2>0, <3>2, <6>1
        <5> QED
          BY <5>1
      <4>3. credits[i] \in rows
        BY <1>4, <3>1, <4>2
      <4>4. row[credits[i]].id > 0
        BY <1>7, <4>3 DEF Of, Numbered
      <4> QED
        BY <1>15, <2>0, <4>3, <4>4
    <3>3. ASSUME row[credits[i]].id \in 1..(n - 1)
          PROVE  i <= l
      <4>1. row[credits[i]].id >= m /\ row[credits[i]].id > 0 /\ row[credits[i]].id < n
        BY <1>6, <1>15, <2>0, <3>1, <3>3
      <4>2. PICK p \in rows : n = row[p].id + 1
        BY <1>6, <1>15, <2>0, <4>1
      <4>3. row[p].id \in Nat
        BY <1>7 DEF RowsInv
      <4>4. row[credits[i]].id <= row[p].id
        BY <2>0, <4>1, <4>2, <4>3
      <4>5. credits[i] \in Numbered /\ Op[credits[i]].kind = "credit"
        BY <1>5, <2>0, <4>1 DEF Numbered
      <4>6. credits[i] \in rows
        BY <1>9, <1>20, <4>1, <4>4, <4>5
      <4>7. PICK h \in found : credits[h] = credits[i]
        BY <1>10, <4>6
      <4>8. h = i
        BY <1>5, <1>8, <4>7
      <4> QED
        BY <1>17, <4>7, <4>8
    <3> QED
      BY <3>2, <3>3
  <2> QED
    BY <2>1, <2>2
<1>21. ASSUME NEW b \in Accounts
       PROVE  LET p == q.account[b]
              IN /\ p.in_off \in Nat /\ p.in_off <= Len(credits)
                 /\ Below("credit", p.in)
                 /\ \A i \in DOMAIN credits : Op[credits[i]].account = b
                       => (i <= p.in_off <=> row[credits[i]].id \in 1..(p.in - 1))
  <2>1. CASE b = a
    <3>1. q.account[b].in = n /\ q.account[b].in_off = l
      BY <1>2, <1>14, <2>1
    <3> QED
      BY <1>16, <1>17, <1>18, <1>19, <1>20, <2>1, <3>1
  <2>2. CASE b # a
    <3>1. q.account[b] = w.pp.account[b]
      BY <1>2, <2>2
    <3> QED
      BY <3>1 DEF CreditsMatch
  <2> QED
    BY <2>1, <2>2
<1> QED
  BY <1>12, <1>13, <1>21 DEF CreditsMatch

---------------------------------------------------------------------------
(* The debits of an account.                                               *)

(* What process_debits passes is at the bank, or the audit was caught      *)
(* between the two.                                                        *)
LEMMA DebitsMatched ==
    ASSUME RowsInv, BankInv, WireShape, SnapOf(w), TheftInv,
           DebitsMatch(w.pp, disturbed), CloseMatch(w.pp, w.closures, disturbed),
           ProcessDebits, NEW q, q = w'.pp, NEW X, X = disturbed', NEW C, C = w'.closures
    PROVE  DebitsMatch(q, X) /\ CloseMatch(q, C, X)
PROOF
<1>1. PICK a, f, m : a = Head(w.todo) /\ f = w.pp.account[a].out_off /\ m = w.pp.account[a].out
  OBVIOUS
<1> DEFINE new == History(debits, a, f)
           out == {debits[i] : i \in new}
           rows == WireOutRows(a)
<1>2. /\ a \in Accounts
      /\ C = w.closures \ {o \in out \ rows : ExplainedBy(o, w.closures)}
      /\ q.close = w.pp.close
      /\ \A b \in Accounts \ {a} : q.account[b] = w.pp.account[b]
      /\ q.account[a].out = MarkAfter(rows \cap out, m)
      /\ q.account[a].out_off = LastOf(new, f)
  BY <1>1, DebitsEffect
<1>3. disturbed \subseteq X /\ rows \ out \subseteq X
  BY <1>1 DEF ProcessDebits
<1>4. /\ debits \in Seq(plan) /\ Len(debits) \in Nat /\ DOMAIN debits = 1..Len(debits)
  BY DEF BankInv
<1>5. f \in Nat /\ Below("wire", m) /\ m \in Nat
  BY <1>1, <1>2 DEF TheftInv, TheftsReported, DebitsMatch, Below
<1>6. /\ rows \subseteq plan /\ rows \subseteq Of(Numbered, "wire") /\ rows \subseteq w.snap
      /\ \A o : o \in rows <=> /\ o \in w.snap /\ Op[o].kind = "wire"
                               /\ Op[o].account = a /\ row[o].id >= m
  <2>1. Committed \subseteq Numbered /\ Numbered \subseteq plan /\ w.snap \subseteq Committed
    BY CommittedInPlan DEF SnapOf
  <2>2. \A o : o \in rows <=> /\ o \in w.snap /\ Op[o].kind = "wire"
                              /\ Op[o].account = a /\ row[o].id >= m
    BY <1>1 DEF WireOutRows, WireOutAboveByAccount, Above, Of
  <2> HIDE DEF rows
  <2> QED
    BY <2>1, <2>2 DEF Of
<1>7. \A i : i \in new <=> i \in DOMAIN debits /\ i > f /\ Op[debits[i]].account = a
  BY DEF History
<1> HIDE DEF rows, new
<1>8. PICK n, l : n = MarkAfter(rows \cap out, m) /\ l = LastOf(new, f)
  OBVIOUS
<1>9. /\ n \in Nat /\ m <= n
      /\ n = m \/ \E o \in rows \cap out : n = row[o].id + 1
  <2>1. rows \cap out \subseteq plan
    BY <1>6
  <2> HIDE DEF out
  <2> QED
    BY <1>5, <1>8, <2>1, MarkAfterBounds
<1>10. l \in Nat /\ f <= l /\ \A h \in new : h <= l
  <2>1. PICK k \in Nat : k = Len(debits)
    BY <1>4
  <2>2. new \subseteq 1..k
    BY <1>4, <1>7, <2>1
  <2> QED
    BY ONLY <1>5, <1>8, <2>2, LastOfBounds, k \in Nat
\* What was seen is still seen, and so are the new debits.
<1>11. ASSUME NEW o \in plan, Op[o].account \in Accounts, Seen(o, w.pp)
       PROVE  Seen(o, q)
  <2>1. PICK i \in DOMAIN debits : debits[i] = o /\ i <= w.pp.account[Op[o].account].out_off
    BY <1>11 DEF Seen
  <2>2. i <= q.account[Op[o].account].out_off
    <3>1. CASE Op[o].account = a
      <4>1. q.account[a].out_off = l /\ f = w.pp.account[a].out_off
        BY ONLY <1>1, <1>2, <1>8
      <4>2. i <= f /\ q.account[Op[o].account].out_off = l
        BY ONLY <2>1, <3>1, <4>1
      <4>3. i \in Nat
        BY <1>4
      <4>4. i <= l
        BY ONLY <1>5, <1>10, <4>2, <4>3
      <4> QED
        BY <4>2, <4>4
    <3>2. CASE Op[o].account # a
      BY <1>2, <1>11, <2>1, <3>2
    <3> QED
      BY <3>1, <3>2
  <2> QED
    BY <2>1, <2>2 DEF Seen
<1>12. ASSUME NEW o \in out
       PROVE  Seen(o, q)
  <2>1. PICK i \in new : debits[i] = o
    OBVIOUS
  <2>2. i \in DOMAIN debits /\ Op[o].account = a /\ i <= l
    BY <1>7, <1>10, <2>1
  <2> QED
    BY <1>2, <1>8, <2>1, <2>2 DEF Seen
<1> HIDE DEF out
<1>13. Below("wire", n)
  <2>1. CASE n = m
    BY <1>5, <2>1
  <2>2. ASSUME NEW o \in rows \cap out, n = row[o].id + 1
        PROVE  Below("wire", n)
    <3>1. n <= row[o].id + 1
      BY <1>9, <2>2
    <3> QED
      BY <1>6, <1>9, <3>1 DEF Below
  <2> QED
    BY <1>9, <2>1, <2>2
<1>14. ASSUME NEW o \in Of(Numbered, "wire"), row[o].id < q.account[Op[o].account].out
       PROVE  o \in X \/ Seen(o, q)
  <2>1. /\ o \in plan /\ o \in Numbered /\ Op[o].kind = "wire" /\ row[o].id \in Nat
        /\ Op[o].account \in Accounts
    <3>1. o \in plan /\ o \in Numbered /\ Op[o].kind = "wire" /\ row[o].id \in Nat /\ o \in Ops
      BY DEF Of, Numbered, RowsInv
    <3> QED
      BY <3>1, OpFacts
  <2>2. CASE row[o].id < w.pp.account[Op[o].account].out
    <3>1. o \in disturbed \/ Seen(o, w.pp)
      BY <2>2 DEF DebitsMatch
    <3> QED
      BY <1>3, <1>11, <2>1, <3>1
  <2>3. CASE ~(row[o].id < w.pp.account[Op[o].account].out)
    <3>1. Op[o].account = a
      BY <1>2, <1>14, <2>1, <2>3
    <3>2. row[o].id >= m /\ row[o].id < n
      <4>1. q.account[a].out = n /\ m = w.pp.account[a].out
        BY ONLY <1>1, <1>2, <1>8
      <4>2. ~(row[o].id < m) /\ row[o].id < n
        BY ONLY <1>14, <2>3, <3>1, <4>1
      <4> QED
        BY ONLY <1>5, <2>1, <4>2
    <3>3. PICK p \in rows \cap out : n = row[p].id + 1
      BY <1>5, <1>9, <2>1, <3>2
    <3>4. p \in w.snap /\ Op[p].kind = "wire" /\ row[p].id \in Nat
      BY <1>6 DEF RowsInv
    <3>5. o \in w.snap
      <4>1. ASSUME o \notin w.snap PROVE FALSE
        <5>1. row[p].id < row[o].id
          BY <2>1, <3>4, <4>1 DEF SnapOf
        <5> QED
          BY <2>1, <3>2, <3>3, <3>4, <5>1
      <4> QED
        BY <4>1
    <3>6. o \in rows
      BY <1>6, <2>1, <3>1, <3>2, <3>5
    <3> QED
      BY <1>3, <1>12, <3>6
  <2> QED
    BY <2>2, <2>3
<1>15. DebitsMatch(q, X)
  <2>1. ASSUME NEW b \in Accounts
        PROVE  Below("wire", q.account[b].out)
    <3>1. CASE b = a
      BY <1>2, <1>8, <1>13, <3>1
    <3>2. CASE b # a
      BY <1>2, <3>2 DEF DebitsMatch
    <3> QED
      BY <3>1, <3>2
  <2> QED
    BY <1>14, <2>1 DEF DebitsMatch
<1>16. ASSUME NEW o \in Of(Numbered, "close"), row[o].id < q.close
       PROVE  o \in C \/ o \in X \/ Seen(o, q)
  <2>1. o \in plan /\ Op[o].account \in Accounts
    <3>1. o \in plan /\ Op[o].kind = "close" /\ o \in Ops
      BY DEF Of, Numbered, RowsInv
    <3> QED
      BY <3>1, OpFacts
  <2>2. o \in w.closures \/ o \in disturbed \/ Seen(o, w.pp)
    BY <1>2, <1>16 DEF CloseMatch
  <2> QED
    BY <1>2, <1>3, <1>11, <1>12, <2>1, <2>2
<1>17. CloseMatch(q, C, X)
  BY <1>2, <1>16 DEF CloseMatch
<1> QED
  BY <1>15, <1>17

(* The alarms of process_debits, and the closed reserves that it leaves.   *)
LEMMA DebitAlarms ==
    ASSUME RowsInv, BankInv, WireShape, SnapOf(w), TheftInv, Honest,
           DebitsMatch(w.pp, disturbed), CloseMatch(w.pp, w.closures, disturbed),
           ProcessDebits, NEW X, X = disturbed', NEW z \in alarms' \ alarms
    PROVE  z[2] \in X \/ (z[2] \in Of(Numbered, "close") /\ ClosureAmount(z[2]) # DebitAmount(z[2]))
PROOF
<1>1. PICK a, f, m : a = Head(w.todo) /\ f = w.pp.account[a].out_off /\ m = w.pp.account[a].out
  OBVIOUS
<1> DEFINE new == History(debits, a, f)
           out == {debits[i] : i \in new}
           rows == WireOutRows(a)
           bad == Unjustified(out, rows, w.closures)
<1>2. /\ rows \ out \subseteq X /\ out \ w.snap \subseteq X /\ disturbed \subseteq X
      /\ alarms' = alarms \cup (Alarm("transfer not at bank", rows \ out)
                                \cup Alarm("debit not in books", bad))
  BY <1>1, ZenonT(40) DEF ProcessDebits, Raise
<1>3. /\ a \in Accounts /\ w.phase = "debits"
  BY <1>1, DebitsEffect
<1>4. /\ debits \in Seq(plan) /\ Len(debits) \in Nat /\ DOMAIN debits = 1..Len(debits)
      /\ \A i \in DOMAIN debits :
            \/ Op[debits[i]].kind = "steal"
            \/ Op[debits[i]].kind \in {"wire", "close"} /\ debits[i] \in Committed
      /\ \A i, j \in DOMAIN debits : debits[i] = debits[j] => i = j
  BY DEF BankInv
<1>5. f \in Nat
  BY <1>1, <1>3 DEF TheftInv, TheftsReported
<1>6. \A o : o \in rows <=> /\ o \in w.snap /\ Op[o].kind = "wire"
                            /\ Op[o].account = a /\ row[o].id >= m
  BY <1>1 DEF WireOutRows, WireOutAboveByAccount, Above, Of
<1>7. \A i : i \in new <=> i \in DOMAIN debits /\ i > f /\ Op[debits[i]].account = a
  BY DEF History
<1> HIDE DEF rows, new
<1>8. CASE z \in Alarm("transfer not at bank", rows \ out)
  <2>1. z[2] \in rows \ out
    <3> HIDE DEF out
    <3> QED
      BY <1>8, AlarmIn, Zenon
  <2> QED
    BY <1>2, <2>1
<1>9. CASE z \in Alarm("debit not in books", bad)
  <2>1. PICK o : o = z[2]
    OBVIOUS
  <2>2. o \in bad
    <3> HIDE DEF bad
    <3> QED
      BY <1>9, <2>1, AlarmIn, Zenon
  <2>3. o \in out /\ o \notin rows /\ ~ExplainedBy(o, w.closures)
    BY <2>2 DEF Unjustified
  <2>4. PICK i \in new : debits[i] = o
    BY <2>3
  <2>5. i \in DOMAIN debits /\ i > f /\ Op[o].account = a /\ i \in Nat
    BY <1>4, <1>7, <2>4
  <2>6. o \in plan /\ o \in Ops /\ Op[o].honest
    BY <1>4, <2>4, <2>5 DEF Honest, RowsInv
  <2>7. Op[o].kind \in {"wire", "close"} /\ o \in Committed /\ o \in Numbered
    BY <1>4, <2>4, <2>5, <2>6, OpFacts, CommittedInPlan
  <2>8. ~Seen(o, w.pp)
    <3>1. ASSUME NEW j \in DOMAIN debits, debits[j] = o,
                 j <= w.pp.account[Op[o].account].out_off
          PROVE  FALSE
      <4>1. j = i
        BY <1>4, <2>4, <2>5, <3>1
      <4>2. i <= f
        BY <1>1, <2>5, <3>1, <4>1
      <4> QED
        BY <1>5, <2>5, <4>2
    <3> QED
      BY <3>1 DEF Seen
  <2>9. CASE o \notin w.snap
    BY <1>2, <2>1, <2>3, <2>9
  <2>10. CASE o \in w.snap /\ Op[o].kind = "wire"
    <3>1. row[o].id \in Nat /\ m \in Nat
      BY <1>1, <1>3, <2>6 DEF RowsInv, DebitsMatch, Below
    <3>2. row[o].id < m
      BY <1>6, <2>3, <2>5, <2>10, <3>1
    <3>3. o \in disturbed
      BY <1>1, <2>5, <2>7, <2>8, <2>10, <3>2 DEF DebitsMatch, Of
    <3> QED
      BY <1>2, <2>1, <3>3
  <2>11. CASE o \in w.snap /\ Op[o].kind = "close"
    <3>1. row[o].id < w.pp.close
      BY <1>3, <2>11 DEF SnapOf, Of
    <3>2. o \in w.closures \/ o \in disturbed
      BY <2>7, <2>8, <2>11, <3>1 DEF CloseMatch, Of
    <3>3. o \in w.closures => DebitAmount(o) # ClosureAmount(o)
      BY <2>3 DEF ExplainedBy
    <3> QED
      BY <1>2, <2>1, <2>7, <2>11, <3>2, <3>3 DEF Of
  <2> QED
    BY <2>7, <2>9, <2>10, <2>11
<1> QED
  BY <1>2, <1>8, <1>9

---------------------------------------------------------------------------
(* The steps of the wire helper.                                           *)

(* What the conditions depend on.                                          *)
LEMMA CreditsMatchSame ==
    ASSUME NEW q, NEW r, CreditsMatch(q),
           \A a \in Accounts : /\ r.account[a].in = q.account[a].in
                               /\ r.account[a].in_off = q.account[a].in_off
    PROVE  CreditsMatch(r)
PROOF
  BY DEF CreditsMatch

LEMMA DebitsMatchSame ==
    ASSUME RowsInv, NEW q, NEW r, NEW X, NEW Y, X \subseteq Y, DebitsMatch(q, X),
           \A a \in Accounts : /\ r.account[a].out = q.account[a].out
                               /\ r.account[a].out_off = q.account[a].out_off
    PROVE  DebitsMatch(r, Y)
PROOF
<1>1. \A o \in Of(Numbered, "wire") : Op[o].account \in Accounts
  BY OpFacts DEF Of, Numbered, RowsInv
<1> QED
  BY <1>1 DEF DebitsMatch, Seen

LEMMA CloseMatchSame ==
    ASSUME RowsInv, NEW q, NEW r, NEW C, NEW X, NEW Y, X \subseteq Y, CloseMatch(q, C, X),
           r.close = q.close,
           \A a \in Accounts : r.account[a].out_off = q.account[a].out_off
    PROVE  CloseMatch(r, C, Y)
PROOF
<1>1. \A o \in Of(Numbered, "close") : Op[o].account \in Accounts
  BY OpFacts DEF Of, Numbered, RowsInv
<1> QED
  BY <1>1 DEF CloseMatch, Seen

(* The accounts that are left.                                             *)
LEMMA TodoRange ==
    ASSUME NEW A, NEW s \in Seq(A), s # <<>>, NEW x \in Range(s)
    PROVE  /\ x = Head(s) \/ x \in Range(Tail(s))
           /\ Len(s) = 1 => x = Head(s)
PROOF
<1>1. PICK i \in DOMAIN s : s[i] = x
  BY DEF Range
<1>2. PICK k \in Nat : k = Len(s) /\ k # 0 /\ i \in 1..k
  OBVIOUS
<1>3. s[1] = Head(s)
  OBVIOUS
<1>4. CASE i = 1
  BY <1>1, <1>3, <1>4
<1>5. CASE i # 1
  <2>1. k # 1 /\ i - 1 \in 1..(k - 1)
    BY ONLY <1>2, <1>5, k \in Nat
  <2>2. DOMAIN Tail(s) = 1..(k - 1) /\ Tail(s)[i - 1] = s[i]
    BY <1>2, <2>1
  <2>3. x \in Range(Tail(s))
    BY <1>1, <2>1, <2>2 DEF Range
  <2> QED
    BY <1>2, <2>1, <2>3
<1> QED
  BY <1>4, <1>5

(* begin_transaction: with one transaction at a time, what is committed is *)
(* below what is not.                                                      *)
LEMMA BeginTrail ==
    ASSUME RowsInv, WireShape, Trail(wpp, w, disturbed), BeginTransaction,
           NEW p, NEW v, NEW X, p = wpp', v = w', X = disturbed'
    PROVE  Trail(p, v, X)
PROOF
<1> DEFINE T == ReserveClosedAbove(Committed, wpp.close)
<1>1. /\ v.phase = "credits" /\ v.snap = Committed /\ v.in_map = {} /\ v.closures = T
      /\ v.pp.account = wpp.account /\ v.pp.close = MarkAfter(T, wpp.close)
      /\ p = wpp /\ X = disturbed
  BY BeginEffect
<1>2. /\ CreditsMatch(wpp) /\ DebitsMatch(wpp, X) /\ CloseMatch(wpp, {}, X)
  BY <1>1 DEF Trail
<1>3. /\ Committed \subseteq Numbered /\ Numbered \subseteq plan /\ Numbered = Committed \cup open
  BY CommittedInPlan
<1>4. T = {o \in Of(Committed, "close") : row[o].id >= wpp.close}
  BY DEF ReserveClosedAbove, Above
<1>5. T \subseteq Of(Committed, "close") /\ T \subseteq plan /\ wpp.close \in Nat
  BY <1>2, <1>3, <1>4 DEF Of, CloseMatch, Below
<1> HIDE DEF T
<1>6. PICK n : n = MarkAfter(T, wpp.close)
  OBVIOUS
<1>7. /\ n \in Nat /\ wpp.close <= n /\ \A o \in T : row[o].id < n
      /\ n = wpp.close \/ \E o \in T : n = row[o].id + 1
  BY <1>5, <1>6, MarkAfterBounds
<1>8. \A o \in Committed : \A r \in Numbered \ Committed :
         Op[r].kind = Op[o].kind => row[o].id < row[r].id
  BY <1>3 DEF RowsInv
<1>9. \A o \in plan : row[o].id \in Nat
  BY DEF RowsInv
<1>10. SnapOf(v)
  <2>1. ASSUME NEW o \in Of(Committed, "close")
        PROVE  row[o].id < n
    <3>1. row[o].id \in Nat
      BY <1>3, <1>9 DEF Of
    <3>2. CASE o \in T
      BY <1>7, <3>2
    <3>3. CASE o \notin T
      BY <1>4, <1>5, <1>7, <3>1, <3>3
    <3> QED
      BY <3>2, <3>3
  <2> QED
    BY <1>1, <1>5, <1>6, <1>8, <2>1 DEF SnapOf
<1>11. ClosuresLeft(v, X)
  BY <1>1 DEF ClosuresLeft
<1>12. CreditsMatch(v.pp) /\ DebitsMatch(v.pp, X)
  <2>1. CreditsMatch(v.pp)
    BY <1>1, <1>2 DEF CreditsMatch
  <2>2. DebitsMatch(v.pp, X)
    BY <1>1, <1>2 DEF DebitsMatch, Seen
  <2> QED
    BY <2>1, <2>2
<1>13. CloseMatch(v.pp, T, X)
  <2>1. Below("close", n)
    <3>1. CASE n = wpp.close
      BY <1>2, <3>1 DEF CloseMatch
    <3>2. ASSUME NEW o \in T, n = row[o].id + 1
          PROVE  Below("close", n)
      <4>1. n <= row[o].id + 1 /\ o \in Of(Numbered, "close")
        BY <1>3, <1>5, <1>7, <3>2 DEF Of
      <4> QED
        BY <1>7, <4>1 DEF Below
    <3> QED
      BY <1>7, <3>1, <3>2
  <2>2. ASSUME NEW o \in Of(Numbered, "close"), row[o].id < n
        PROVE  o \in T \/ o \in X \/ Seen(o, v.pp)
    <3>1. row[o].id \in Nat /\ o \in Numbered /\ Op[o].kind = "close"
      BY <1>3, <1>9 DEF Of
    <3>2. CASE row[o].id < wpp.close
      <4>1. o \in X \/ Seen(o, wpp)
        BY <1>2, <3>2 DEF CloseMatch
      <4> QED
        BY <1>1, <4>1 DEF Seen
    <3>3. CASE ~(row[o].id < wpp.close)
      <4>1. PICK r \in T : n = row[r].id + 1
        BY <1>5, <1>7, <2>2, <3>1, <3>3
      <4>2. r \in Committed /\ Op[r].kind = "close" /\ row[r].id \in Nat
        BY <1>5, <1>9 DEF Of
      <4>3. o \in Committed
        <5>1. ASSUME o \notin Committed PROVE FALSE
          <6>1. row[r].id < row[o].id
            BY <1>8, <3>1, <4>2, <5>1
          <6> QED
            BY <2>2, <3>1, <4>1, <4>2, <6>1
        <5> QED
          BY <5>1
      <4>4. row[o].id >= wpp.close
        BY <1>5, <3>1, <3>3
      <4> QED
        BY <1>4, <3>1, <4>3, <4>4 DEF Of
    <3> QED
      BY <3>2, <3>3
  <2> QED
    BY <1>1, <1>6, <2>1, <2>2 DEF CloseMatch
<1> QED
  BY <1>1, <1>2, <1>10, <1>11, <1>12, <1>13 DEF Trail

(* process_credits moves the mark and the offset to the same transfer.     *)
LEMMA CreditsTrail ==
    ASSUME RowsInv, BankInv, WireShape, CreditOrder, Trail(wpp, w, disturbed), ProcessCredits,
           NEW p, NEW v, NEW X, p = wpp', v = w', X = disturbed'
    PROVE  Trail(p, v, X) /\ alarms' = alarms
PROOF
<1>1. PICK a : a = Head(w.todo)
  OBVIOUS
<1>2. /\ a \in Accounts /\ p = wpp /\ w.phase = "credits"
      /\ v.snap = w.snap /\ v.closures = w.closures /\ v.pp.close = w.pp.close
      /\ \A b \in Accounts \ {a} : v.pp.account[b] = w.pp.account[b]
      /\ v.pp.account[a].out = w.pp.account[a].out
      /\ v.pp.account[a].out_off = w.pp.account[a].out_off
      /\ \/ v.phase = "credits"
         \/ v.phase = "debits" /\ v.todo = AccountList
  BY <1>1, CreditsEffect
<1>3. X = disturbed
  BY DEF ProcessCredits
<1>4. CreditsMatch(v.pp) /\ v.in_map = {} /\ alarms' = alarms
  <2>1. PICK q : q = v.pp /\ q = w'.pp
    OBVIOUS
  <2>2. SnapOf(w) /\ CreditsMatch(w.pp)
    BY DEF Trail
  <2>3. CreditsMatch(q) /\ w'.in_map = {} /\ alarms' = alarms
    BY <2>1, <2>2, CreditsMatched
  <2> QED
    BY <2>1, <2>3
<1>5. SnapOf(v)
  BY <1>2, <1>4 DEF Trail, SnapOf
<1>6. ClosuresLeft(v, X)
  <2>1. \A o \in v.closures : Op[o].account \in Accounts
    <3>1. \A o \in v.closures : o \in Ops /\ Op[o].kind = "close"
      BY <1>5, CommittedInPlan DEF SnapOf, Of, RowsInv
    <3> QED
      BY <3>1, OpFacts
  <2>2. Range(AccountList) = Accounts
    BY WireAssumption
  <2> QED
    BY <1>2, <2>1, <2>2 DEF ClosuresLeft
<1>7. \A b \in Accounts : /\ v.pp.account[b].out = w.pp.account[b].out
                          /\ v.pp.account[b].out_off = w.pp.account[b].out_off
  BY <1>2
<1>8. DebitsMatch(v.pp, X) /\ CloseMatch(v.pp, v.closures, X)
  <2>1. PICK q, r, C : q = w.pp /\ r = v.pp /\ C = v.closures
    OBVIOUS
  <2>2. DebitsMatch(q, X) /\ CloseMatch(q, C, X)
    BY <1>2, <1>3, <2>1 DEF Trail
  <2>3. \A b \in Accounts : /\ r.account[b].out = q.account[b].out
                            /\ r.account[b].out_off = q.account[b].out_off
    BY <1>7, <2>1
  <2>4. r.close = q.close
    BY <1>2, <2>1
  <2>5. DebitsMatch(r, X)
    BY <2>2, <2>3, DebitsMatchSame
  <2>6. CloseMatch(r, C, X)
    BY <2>2, <2>3, <2>4, CloseMatchSame
  <2> QED
    BY <2>1, <2>5, <2>6
<1>9. CreditsMatch(p) /\ DebitsMatch(p, X) /\ CloseMatch(p, {}, X)
  BY <1>2, <1>3 DEF Trail
<1> QED
  BY <1>4, <1>5, <1>6, <1>8, <1>9 DEF Trail

(* process_debits moves the mark and the offset over transfers that are at *)
(* the bank or disturbed.                                                  *)
LEMMA DebitsTrail ==
    ASSUME RowsInv, BankInv, WireShape, TheftInv, Trail(wpp, w, disturbed), ProcessDebits,
           NEW p, NEW v, NEW X, p = wpp', v = w', X = disturbed'
    PROVE  Trail(p, v, X)
PROOF
<1>1. PICK a, f : a = Head(w.todo) /\ f = w.pp.account[a].out_off
  OBVIOUS
<1> DEFINE out == {debits[i] : i \in History(debits, a, f)}
           rows == WireOutRows(a)
<1>2. /\ a \in Accounts /\ p = wpp /\ w.phase = "debits"
      /\ v.snap = w.snap /\ v.in_map = w.in_map /\ v.pp.close = w.pp.close
      /\ v.closures = w.closures \ {o \in out \ rows : ExplainedBy(o, w.closures)}
      /\ \A b \in Accounts \ {a} : v.pp.account[b] = w.pp.account[b]
      /\ v.pp.account[a].in = w.pp.account[a].in
      /\ v.pp.account[a].in_off = w.pp.account[a].in_off
      /\ \/ v.phase = "debits" /\ v.todo = Tail(w.todo)
         \/ v.phase = "conclude" /\ Len(w.todo) = 1
  BY <1>1, DebitsEffect
<1>3. /\ disturbed \subseteq X
      /\ {o \in w.closures : Op[o].account = a} \ out \subseteq X
  BY <1>1 DEF ProcessDebits
<1>4. SnapOf(v)
  BY <1>2 DEF Trail, SnapOf
<1>5. ClosuresLeft(v, X)
  <2> SUFFICES ASSUME NEW o \in v.closures
               PROVE  \/ v.phase = "debits" /\ Op[o].account \in Range(v.todo)
                      \/ o \in X
                      \/ ClosureAmount(o) # DebitAmount(o)
    BY DEF ClosuresLeft
  <2>1. o \in w.closures /\ Op[o].kind = "close"
    BY <1>2 DEF Trail, SnapOf, Of
  <2>2. CASE Op[o].account = a
    <3>1. CASE o \in out
      <4>1. o \notin rows
        BY <2>1 DEF WireOutRows, WireOutAboveByAccount, Above, Of
      <4>2. ~ExplainedBy(o, w.closures)
        BY <1>2, <3>1, <4>1
      <4> QED
        BY <2>1, <4>2 DEF ExplainedBy
    <3>2. CASE o \notin out
      BY <1>3, <2>1, <2>2, <3>2
    <3> QED
      BY <3>1, <3>2
  <2>3. CASE Op[o].account \in Range(w.todo) /\ Op[o].account # a
    <3>1. w.todo \in Seq(Accounts) /\ w.todo # <<>>
      BY <1>2 DEF WireShape
    <3>2. /\ Op[o].account \in Range(Tail(w.todo))
          /\ Len(w.todo) # 1
      BY <1>1, <2>3, <3>1, TodoRange
    <3> QED
      BY <1>2, <3>2
  <2>4. \/ Op[o].account \in Range(w.todo) \/ o \in disturbed
        \/ ClosureAmount(o) # DebitAmount(o)
    BY <1>2, <2>1 DEF Trail, ClosuresLeft
  <2> QED
    BY <1>3, <2>2, <2>3, <2>4
<1>6. CreditsMatch(v.pp)
  <2>1. PICK q, r : q = w.pp /\ r = v.pp
    OBVIOUS
  <2>2. \A b \in Accounts : /\ r.account[b].in = q.account[b].in
                            /\ r.account[b].in_off = q.account[b].in_off
    BY <1>2, <2>1
  <2>3. CreditsMatch(q)
    BY <2>1 DEF Trail
  <2> QED
    BY <2>1, <2>2, <2>3, CreditsMatchSame
<1>7. DebitsMatch(v.pp, X) /\ CloseMatch(v.pp, v.closures, X)
  <2>1. PICK q, C : q = w'.pp /\ C = w'.closures
    OBVIOUS
  <2>2. SnapOf(w) /\ DebitsMatch(w.pp, disturbed) /\ CloseMatch(w.pp, w.closures, disturbed)
    BY DEF Trail
  <2>3. DebitsMatch(q, X) /\ CloseMatch(q, C, X)
    BY <2>1, <2>2, DebitsMatched
  <2> QED
    BY <2>1, <2>3
<1>8. CreditsMatch(p) /\ DebitsMatch(p, X) /\ CloseMatch(p, {}, X)
  <2>1. /\ CreditsMatch(p) /\ DebitsMatch(p, disturbed) /\ CloseMatch(p, {}, disturbed)
    BY <1>2 DEF Trail
  <2>2. DebitsMatch(p, X) /\ CloseMatch(p, {}, X)
    BY <1>3, <2>1 DEF DebitsMatch, CloseMatch
  <2> QED
    BY <2>1, <2>2
<1> QED
  BY <1>4, <1>5, <1>6, <1>7, <1>8 DEF Trail

(* check_pending_rc: the mark goes back to the first closed reserve that   *)
(* no debit explains.                                                      *)
LEMMA ConcludeTrail ==
    ASSUME RowsInv, WireShape, Trail(wpp, w, disturbed), Conclude,
           NEW p, NEW v, NEW X, p = wpp', v = w', X = disturbed'
    PROVE  Trail(p, v, X)
PROOF
<1>1. /\ v.phase = "idle" /\ v.pp = p /\ v.snap = {} /\ v.in_map = {} /\ v.closures = {}
      /\ p.account = w.pp.account /\ p.close = CloseMark /\ X = disturbed
  BY ConcludeEffect
<1>2. SnapOf(v) /\ ClosuresLeft(v, X)
  BY <1>1 DEF SnapOf, ClosuresLeft, Of
<1>3. CreditsMatch(w.pp) /\ DebitsMatch(w.pp, X) /\ CloseMatch(w.pp, w.closures, X)
  BY <1>1 DEF Trail
<1>4. CreditsMatch(p) /\ DebitsMatch(p, X)
  <2>1. CreditsMatch(p)
    BY <1>1, <1>3 DEF CreditsMatch
  <2>2. DebitsMatch(p, X)
    BY <1>1, <1>3 DEF DebitsMatch, Seen
  <2> QED
    BY <2>1, <2>2
<1> DEFINE T == {w.pp.close} \cup {row[o].id : o \in w.closures}
<1>5. \A o \in w.closures : o \in Of(Numbered, "close") /\ row[o].id \in Nat
  BY CommittedInPlan DEF Trail, SnapOf, Of, RowsInv
<1>6. T \subseteq Nat /\ T # {} /\ w.pp.close \in Nat
  BY <1>3, <1>5 DEF CloseMatch, Below
<1>7. p.close = Min(T)
  BY <1>1 DEF CloseMark
<1>8. /\ p.close \in T /\ \A x \in T : p.close <= x
  <2> HIDE DEF T
  <2> QED
    BY <1>6, <1>7, MinNat
<1>9. Below("close", p.close)
  <2>1. CASE p.close = w.pp.close
    BY <1>3, <2>1 DEF CloseMatch
  <2>2. ASSUME NEW o \in w.closures, p.close = row[o].id
        PROVE  Below("close", p.close)
    <3>1. p.close \in Nat /\ p.close <= row[o].id + 1
      BY <1>5, <2>2
    <3> QED
      BY <1>5, <3>1 DEF Below
  <2> QED
    BY <1>8, <2>1, <2>2
<1>10. ASSUME NEW o \in Of(Numbered, "close"), row[o].id < p.close
       PROVE  o \in X \/ Seen(o, p)
  <2>1. row[o].id \in Nat /\ p.close \in Nat /\ p.close <= w.pp.close
    BY <1>6, <1>8 DEF Of, Numbered, RowsInv
  <2>2. row[o].id < w.pp.close
    BY <1>6, <1>10, <2>1
  <2>3. o \in w.closures \/ o \in X \/ Seen(o, w.pp)
    BY <1>3, <2>2 DEF CloseMatch
  <2>4. o \notin w.closures
    <3>1. ASSUME o \in w.closures PROVE FALSE
      <4>1. p.close <= row[o].id
        BY <1>8, <3>1
      <4> QED
        BY <1>10, <2>1, <4>1
    <3> QED
      BY <3>1
  <2> QED
    BY <1>1, <2>3, <2>4 DEF Seen
<1>11. CloseMatch(p, {}, X)
  BY <1>9, <1>10 DEF CloseMatch
<1> QED
  BY <1>1, <1>2, <1>4, <1>11 DEF Trail

(* The helper goes back to the stored progress.                            *)
LEMMA FailTrail ==
    ASSUME WireShape, Trail(wpp, w, disturbed), WireFails,
           NEW p, NEW v, NEW X, p = wpp', v = w', X = disturbed'
    PROVE  Trail(p, v, X)
PROOF
<1>1. /\ v.phase = "idle" /\ v.pp = p /\ v.snap = {} /\ v.in_map = {} /\ v.closures = {}
      /\ p = wpp /\ X = disturbed
  BY FailEffect
<1>2. SnapOf(v) /\ ClosuresLeft(v, X)
  BY <1>1 DEF SnapOf, ClosuresLeft, Of
<1> QED
  BY <1>1, <1>2 DEF Trail

---------------------------------------------------------------------------
(* Every alarm about a transfer is explained.                              *)

\* A transfer that an alarm may be about.
Explained(o, X) ==
    \/ o \in X
    \/ o \in Of(Numbered, "close") /\ ClosureAmount(o) # DebitAmount(o)
\* With an honest exchange every alarm about a transfer is explained.
ExplainInv ==
    Honest => \A a \in alarms : a[1] \in WireAlarms => Explained(a[2], disturbed)

(* What is explained stays explained.                                      *)
LEMMA ExplainedStays ==
    ASSUME RowsInv, MaxOpen = 1, [Next]_vars, NEW o, NEW X, NEW Y, X \subseteq Y, Explained(o, X)
    PROVE  Explained(o, Y)'
PROOF
<1>1. CASE o \in X
  BY <1>1 DEF Explained
<1>2. CASE o \in Of(Numbered, "close") /\ ClosureAmount(o) # DebitAmount(o)
  <2>1. o \in Numbered /\ Op[o].kind = "close"
    BY <1>2 DEF Of
  <2>2. o \in Numbered'
    BY <2>1, CommittedKept
  <2>3. ClosureAmount(o)' = ClosureAmount(o) /\ DebitAmount(o)' = DebitAmount(o)
    BY <2>1, AmountStays
  <2> QED
    BY <1>2, <2>1, <2>2, <2>3 DEF Explained, Of
<1> QED
  BY <1>1, <1>2 DEF Explained

(* Every step of the wire helper keeps its trail.                          *)
LEMMA WireTrail ==
    ASSUME RowsInv, BankInv, WireShape, TheftInv, CreditOrder, Trail(wpp, w, disturbed), Wire_,
           NEW p, NEW v, NEW X, p = wpp', v = w', X = disturbed'
    PROVE  Trail(p, v, X) /\ disturbed \subseteq X
PROOF
<1>1. CASE BeginTransaction
  BY <1>1, BeginTrail, BeginEffect
<1>2. CASE ProcessCredits
  <2>1. disturbed' = disturbed
    BY <1>2 DEF ProcessCredits
  <2> QED
    BY <1>2, <2>1, CreditsTrail
<1>3. CASE ProcessDebits
  <2>1. disturbed \subseteq disturbed'
    BY <1>3 DEF ProcessDebits
  <2> QED
    BY <1>3, <2>1, DebitsTrail
<1>4. CASE Conclude
  BY <1>4, ConcludeTrail, ConcludeEffect
<1>5. CASE WireFails
  BY <1>5, FailTrail, FailEffect
<1> QED
  BY <1>1, <1>2, <1>3, <1>4, <1>5 DEF Wire_, AuditWireNext

(* So does every other step.                                               *)
LEMMA NextTrail ==
    ASSUME RowsInv, MaxOpen = 1, BankInv, WireShape, TheftInv, CreditOrder,
           Trail(wpp, w, disturbed), [Next]_vars
    PROVE  Trail(wpp, w, disturbed)' /\ disturbed \subseteq disturbed'
PROOF
<1>1. PICK p, v, X : p = wpp' /\ v = w' /\ X = disturbed'
  OBVIOUS
<1>2. Trail(p, v, X) /\ disturbed \subseteq X
  <2>1. CASE Wire_
    BY <1>1, <2>1, WireTrail
  <2>2. CASE ~Wire_
    <3>1. UNCHANGED wireAuditVars
      BY <2>2 DEF Next, Exchange, Confirm, Reserves_, Coins_, Aggregation_, Deposits_,
                  Fails, vars, auditorVars
    <3>2. p = wpp /\ v = w /\ X = disturbed
      BY <1>1, <3>1 DEF wireAuditVars
    <3> QED
      BY <3>2
  <2> QED
    BY <2>1, <2>2
<1>3. Trail(p, v, X)'
  BY <1>2, StepTrail
<1>4. Trail(wpp, w, disturbed)'
  BY ONLY <1>1, <1>3 DEF Trail, SnapOf, ClosuresLeft, CreditsMatch, DebitsMatch, CloseMatch, Seen
<1> QED
  BY <1>1, <1>2, <1>4

(* The alarms that a step of the wire helper adds.                         *)
LEMMA WireAlarmsOK ==
    ASSUME RowsInv, BankInv, WireShape, TheftInv, CreditOrder, Trail(wpp, w, disturbed), Honest,
           Wire_, NEW X, X = disturbed', NEW z \in alarms' \ alarms, z[1] \in WireAlarms
    PROVE  Explained(z[2], X)
PROOF
<1>0. /\ SnapOf(w) /\ ClosuresLeft(w, disturbed)
      /\ DebitsMatch(w.pp, disturbed) /\ CloseMatch(w.pp, w.closures, disturbed)
  BY DEF Trail
<1>1. CASE BeginTransaction
  BY <1>1, BeginEffect
<1>2. CASE ProcessCredits
  BY <1>2, CreditsTrail
<1>3. CASE ProcessDebits
  BY <1>0, <1>3, DebitAlarms DEF Explained
<1>4. CASE Conclude
  <2>1. /\ w.phase = "conclude" /\ X = disturbed
        /\ alarms' = alarms \cup (Alarm("closure lag", PendingClosures) \cup Alarm("lag", Late))
    BY <1>4, ConcludeEffect
  <2>2. z \in Alarm("closure lag", PendingClosures)
    <3>1. z \notin Alarm("lag", Late)
      <4>1. ASSUME z \in Alarm("lag", Late) PROVE FALSE
        <5>1. z[1] = "lag"
          BY <4>1, AlarmIn, Zenon
        <5> QED
          BY <5>1 DEF WireAlarms
      <4> QED
        BY <4>1
    <3> QED
      BY <2>1, <3>1
  <2>3. z[2] \in PendingClosures
    BY <2>2, AlarmIn, Zenon
  <2>4. z[2] \in w.closures
    BY <2>3 DEF PendingClosures
  <2>5. z[2] \in Of(Numbered, "close")
    BY <1>0, <2>4, CommittedInPlan DEF SnapOf, Of
  <2> QED
    BY <1>0, <2>1, <2>4, <2>5 DEF ClosuresLeft, Explained
<1>5. CASE WireFails
  BY <1>5, FailEffect
<1> QED
  BY <1>1, <1>2, <1>3, <1>4, <1>5 DEF Wire_, AuditWireNext

(* Every alarm that a step adds is explained.                              *)
LEMMA NextExplain ==
    ASSUME RowsInv, MaxOpen = 1, BankInv, WireShape, TheftInv, CreditOrder,
           Trail(wpp, w, disturbed), ExplainInv, [Next]_vars
    PROVE  ExplainInv'
PROOF
<1> SUFFICES ASSUME Honest', NEW a \in alarms', a[1] \in WireAlarms
             PROVE  Explained(a[2], disturbed)'
  BY DEF ExplainInv
<1>1. Honest
  BY PlanStays DEF Honest
<1>2. PICK X, Y : X = disturbed /\ Y = disturbed'
  OBVIOUS
<1>3. X \subseteq Y
  BY <1>2, NextTrail
<1>4. Explained(a[2], Y)'
  <2>1. CASE a \in alarms
    <3>1. Explained(a[2], X)
      BY <1>1, <1>2, <2>1 DEF ExplainInv
    <3> QED
      BY <1>3, <3>1, ExplainedStays
  <2>2. CASE a \notin alarms
    <3>1. Wire_
      <4>1. ASSUME ~Wire_ PROVE FALSE
        <5>1. a[1] \in ReserveAlarms \cup CoinAlarms \cup AggregationAlarms
                        \cup {"deposit missing"}
          BY <2>2, <4>1, ReserveAdds, CoinAdds, AggregationAdds, DepositAdds, OtherAdds
             DEF Next, Adds
        <5> QED
          BY <5>1 DEF ReserveAlarms, CoinAlarms, AggregationAlarms, WireAlarms
      <4> QED
        BY <4>1
    <3>2. Explained(a[2], Y)
      BY <1>1, <1>2, <2>2, <3>1, WireAlarmsOK
    <3> QED
      BY <3>2, ExplainedStays
  <2> QED
    BY <2>1, <2>2
<1> QED
  BY ONLY <1>2, <1>4 DEF Explained

(* Before the first audit the marks and the offsets are at the beginning.  *)
LEMMA InitTrail == Init => CreditOrder /\ Trail(wpp, w, disturbed) /\ ExplainInv
PROOF
<1> SUFFICES ASSUME Init PROVE CreditOrder /\ Trail(wpp, w, disturbed) /\ ExplainInv
  OBVIOUS
<1>0. RowsInv /\ BankInv
  BY InitBooks, InitBank
<1>1. /\ wpp = [account |-> [a \in Accounts |-> [in |-> 1, out |-> 1, in_off |-> 0,
                                                 out_off |-> 0]],
                close |-> 1, time |-> 0]
      /\ w = IdleWire /\ disturbed = {} /\ alarms = {}
  BY DEF Init, AuditWireInit, LibInit
<1>2. /\ w.pp = wpp /\ w.closures = {} /\ w.snap = {} /\ w.in_map = {} /\ w.phase = "idle"
  BY <1>1 DEF IdleWire
<1>3. /\ wpp.close = 1
      /\ \A a \in Accounts : /\ wpp.account[a].in = 1 /\ wpp.account[a].out = 1
                             /\ wpp.account[a].in_off = 0 /\ wpp.account[a].out_off = 0
  BY <1>1
<1>4. /\ credits \in Seq(plan) /\ Len(credits) \in Nat /\ DOMAIN credits = 1..Len(credits)
      /\ \A i \in DOMAIN credits : credits[i] \in plan
      /\ \A i, j \in DOMAIN credits : credits[i] = credits[j] => i = j
  BY <1>0 DEF BankInv
<1>5. \A k : Below(k, 1)
  BY DEF Below
<1>6. CreditsMatch(wpp)
  <2> SUFFICES ASSUME NEW a \in Accounts
               PROVE  LET p == wpp.account[a]
                      IN /\ p.in_off \in Nat /\ p.in_off <= Len(credits)
                         /\ Below("credit", p.in)
                         /\ \A i \in DOMAIN credits : Op[credits[i]].account = a
                               => (i <= p.in_off <=> row[credits[i]].id \in 1..(p.in - 1))
    BY DEF CreditsMatch
  <2>1. wpp.account[a].in = 1 /\ wpp.account[a].in_off = 0
    BY <1>3
  <2>2. PICK k \in Nat : k = Len(credits)
    BY <1>4
  <2>3. 0 <= Len(credits)
    BY ONLY <2>2, k \in Nat
  <2>4. \A i \in DOMAIN credits : ~(i <= 0)
    BY <1>4
  <2> QED
    BY <1>5, <2>1, <2>3, <2>4
<1>7. \A o \in Numbered : row[o].id \in Nat /\ ~(row[o].id < 1)
  BY <1>0 DEF Numbered, RowsInv
<1>8. DebitsMatch(wpp, disturbed)
  <2>1. ASSUME NEW o \in Of(Numbered, "wire"), row[o].id < wpp.account[Op[o].account].out
        PROVE  FALSE
    <3>1. o \in Ops /\ Op[o].kind = "wire" /\ o \in Numbered
      BY <1>0 DEF Of, Numbered, RowsInv
    <3>2. Op[o].account \in Accounts
      BY <3>1, OpFacts
    <3> QED
      BY <1>3, <1>7, <2>1, <3>1, <3>2
  <2> QED
    BY <1>3, <1>5, <2>1 DEF DebitsMatch
<1>9. CloseMatch(wpp, {}, disturbed)
  BY <1>3, <1>5, <1>7 DEF CloseMatch, Of
<1>10. Trail(wpp, w, disturbed)
  BY <1>2, <1>6, <1>8, <1>9 DEF Trail, SnapOf, ClosuresLeft, Of
<1>11. CreditOrder
  <2>1. PICK P \in Plans :
          /\ plan = Range(P.credits) \cup Range(P.withdrawals) \cup P.then
          /\ row = [o \in plan |->
                CASE o \in Range(P.credits) ->
                       [id |-> CHOOSE i \in DOMAIN P.credits : P.credits[i] = o,
                        amt |-> Op[o].amount, at |-> 0]
                  [] o \in Range(P.withdrawals) ->
                       [id |-> CHOOSE i \in DOMAIN P.withdrawals : P.withdrawals[i] = o,
                        amt |-> Price(Op[o].coin), at |-> 0]
                  [] OTHER -> [id |-> 0, amt |-> 0, at |-> 0]]
          /\ credits = P.credits /\ open = {}
    BY DEF Init, BooksInit
  <2>2. /\ \A o \in Range(P.credits) : Op[o].kind = "credit"
        /\ \A o \in Range(P.withdrawals) : Op[o].kind = "withdraw"
    BY PlanAssumption
  <2>3. ASSUME NEW o \in plan, Op[o].kind = "credit"
        PROVE  /\ o \in Range(credits) => row[o].id = CHOOSE i \in DOMAIN credits : credits[i] = o
               /\ o \notin Range(credits) => row[o].id = 0
    <3>1. o \notin Range(P.withdrawals)
      BY <2>2, <2>3
    <3>2. CASE o \in Range(P.credits)
      BY <2>1, <3>1, <3>2
    <3>3. CASE o \notin Range(P.credits)
      BY <2>1, <3>1, <3>3
    <3> QED
      BY <2>1, <3>2, <3>3
  <2>4. ASSUME NEW i \in DOMAIN credits
        PROVE  row[credits[i]].id = i /\ credits[i] \in Committed
    <3>1. credits[i] \in plan /\ credits[i] \in Range(credits) /\ Op[credits[i]].kind = "credit"
      BY <1>4, <2>1, <2>2 DEF Range
    <3>2. row[credits[i]].id = CHOOSE j \in DOMAIN credits : credits[j] = credits[i]
      BY <2>3, <3>1
    <3>3. row[credits[i]].id = i
      BY <1>4, <3>2
    <3>4. i > 0
      BY <1>4
    <3> QED
      BY <2>1, <3>1, <3>3, <3>4 DEF Committed
  <2>5. ASSUME NEW o \in Of(Numbered, "credit")
        PROVE  \E i \in DOMAIN credits :
                  /\ credits[i] = o
                  /\ \A j \in 1..(i - 1) : credits[j] \in Committed /\ row[credits[j]].id < row[o].id
    <3>1. o \in plan /\ Op[o].kind = "credit" /\ row[o].id > 0
      BY DEF Of, Numbered
    <3>2. o \in Range(credits)
      BY <2>3, <3>1
    <3>3. PICK i \in DOMAIN credits : credits[i] = o
      BY <3>2 DEF Range
    <3>4. \A j \in 1..(i - 1) : j \in DOMAIN credits /\ j < i
      BY <1>4
    <3>5. row[o].id = i
      BY <2>4, <3>3
    <3> QED
      BY <2>4, <3>3, <3>4, <3>5
  <2> QED
    BY <2>5 DEF CreditOrder
<1> QED
  BY <1>1, <1>10, <1>11 DEF ExplainInv

\* Why the wire helper finds what it expects.
WireTrailInv ==
    /\ RowsInv /\ BalanceInv
    /\ BankInv /\ WireShape /\ TheftInv
    /\ CreditOrder /\ Trail(wpp, w, disturbed) /\ ExplainInv

(* With an honest exchange the wire helper complains only about a transfer *)
(* that some audit caught between the commit of the exchange and the       *)
(* execution by the bank, or about a closed reserve whose amount was       *)
(* rounded: process_credits never complains, process_debits and            *)
(* check_pending_rc only then.                                             *)
THEOREM WireAlarmsAlwaysExplained ==
    ASSUME MaxOpen = 1
    PROVE  Spec => []WireAlarmExplained
PROOF
<1>1. Init => WireTrailInv
  BY InitBooks, InitBank, InitShape, InitTheft, InitTrail DEF WireTrailInv
<1>2. WireTrailInv /\ [Next]_vars => WireTrailInv'
  <2> SUFFICES ASSUME WireTrailInv, [Next]_vars PROVE WireTrailInv'
    OBVIOUS
  <2>1. RowsInv' /\ BalanceInv'
    BY NextBooks DEF WireTrailInv
  <2>2. BankInv' /\ WireShape' /\ TheftInv'
    BY NextBank, NextShape, NextTheft DEF WireTrailInv
  <2>3. CreditOrder'
    BY NextCreditOrder DEF WireTrailInv
  <2>4. Trail(wpp, w, disturbed)' /\ ExplainInv'
    BY NextTrail, NextExplain DEF WireTrailInv
  <2> QED
    BY <2>1, <2>2, <2>3, <2>4 DEF WireTrailInv
<1>3. WireTrailInv => WireAlarmExplained
  BY DEF WireTrailInv, ExplainInv, Explained, WireAlarmExplained, Of
<1> QED
  BY <1>1, <1>2, <1>3, PTL DEF Spec

---------------------------------------------------------------------------
(* The record of a denomination.                                           *)

\* The rows that add a coin to a denomination's issued coins, and those that
\* are charged to its balance.
Charges == {"deposit", "melt"}
Made(d, T) ==
    {o \in T : \/ Op[o].kind = "withdraw" /\ DenomOf[Op[o].coin] = d
               \/ Op[o].kind = "melt" /\ DenomOf[Op[o].fresh] = d}
Charged(d, T) == {o \in T : Op[o].kind \in Charges /\ DenomOf[Op[o].coin] = d}

InfoFields == {"in_db", "issued", "balance", "loss", "risk", "recoup"}
IsInfo(i) ==
    DOMAIN i = InfoFields /\ i.issued \in Int /\ i.balance \in Int /\ i.loss \in Int

\* The equation of the fold in InfoOf, and its value.
Rolls(g, d, base, T) ==
    g = [s \in SUBSET T |-> IF s = {} THEN base
            ELSE AfterRow(d, g[s \ {Newest(s)}], Newest(s))]
Rolled(d, base, T) == (CHOOSE g : Rolls(g, d, base, T))[T]

(* InfoOf is two of these folds.                                           *)
LEMMA InfoRolled ==
    ASSUME NEW d, NEW W, NEW F, NEW B, NEW Q, NEW M, NEW D
    PROVE  InfoOf(d, W, F, B, Q, M, D)
             = LET issued == Issue(dinfo[d], d, Cardinality(In(d, W)))
                   refunded == Refunded(In(d, F))
                   start == [issued EXCEPT !.in_db = TRUE,
                                !.balance = @ + refunded + Total(BackTo(d, B)),
                                !.risk = @ + refunded,
                                !.recoup = @ + Total(In(d, Q))]
               IN Rolled(d, Rolled(d, start, M), In(d, D))
PROOF
  BY DEF InfoOf, FoldBySerial, MapThenFoldSet, Rolled, Rolls

(* The last row of a set.                                                  *)
LEMMA NewestIn ==
    ASSUME RowsInv, NEW s, s \subseteq plan, s # {}
    PROVE  Newest(s) \in s /\ \A p \in s : row[p].id <= row[Newest(s)].id
PROOF
<1> DEFINE f == [o \in s |-> row[o].id]
           M == {f[o] : o \in s}
<1>1. IsFiniteSet(s) /\ \A o \in s : row[o].id \in Nat
  BY FS_Subset DEF RowsInv
<1>2. M # {} /\ M \subseteq Int
  BY <1>1
<1>3. IsFiniteSet(M)
  BY <1>1, ImageFinite
<1>4. Max(M) \in M /\ \A x \in M : x <= Max(M)
  <2> HIDE DEF M
  <2> QED
    BY <1>2, <1>3, MaxFinite
<1>5. \E o \in s : \A p \in s : row[p].id <= row[o].id
  BY <1>4
<1> QED
  BY <1>5 DEF Newest

(* The equation has a solution, one size of subsets after the other.       *)
LEMMA RollExists ==
    ASSUME RowsInv, NEW d, NEW base, NEW T, T \subseteq plan
    PROVE  \E g : Rolls(g, d, base, T)
PROOF
<1> DEFINE D(n) == {s \in SUBSET T : Cardinality(s) <= n}
           Part(g, n) == g = [s \in D(n) |-> IF s = {} THEN base
                                ELSE AfterRow(d, g[s \ {Newest(s)}], Newest(s))]
           Bad == {n \in Nat : ~ \E g : Part(g, n)}
<1>0. IsFiniteSet(T)
  BY FS_Subset DEF RowsInv
<1>1. \A s \in SUBSET T : Cardinality(s) \in Nat /\ IsFiniteSet(s)
  BY <1>0, FS_Subset, FS_CardinalityType
<1>2. \A s \in SUBSET T : s # {} => /\ Newest(s) \in s
                                   /\ Cardinality(s \ {Newest(s)}) = Cardinality(s) - 1
  BY <1>1, FS_RemoveElement, NewestIn
<1>3. Part([s \in D(0) |-> base], 0)
  <2>1. \A s \in D(0) : s = {}
    BY <1>1, FS_EmptySet
  <2> QED
    BY <2>1
<1>4. ASSUME NEW n \in Nat, NEW g, Part(g, n)
      PROVE  \E h : Part(h, n + 1)
  <2> DEFINE h == [s \in D(n + 1) |-> IF s = {} THEN base
                                      ELSE AfterRow(d, g[s \ {Newest(s)}], Newest(s))]
  <2>1. ASSUME NEW s \in D(n + 1), s # {}
        PROVE  h[s \ {Newest(s)}] = g[s \ {Newest(s)}]
    <3> DEFINE t == s \ {Newest(s)}
    <3>1. t \in D(n) /\ t \in D(n + 1)
      BY <2>1, <1>1, <1>2
    <3>2. g[t] = IF t = {} THEN base ELSE AfterRow(d, g[t \ {Newest(t)}], Newest(t))
      BY <3>1, <1>4
    <3>3. h[t] = IF t = {} THEN base ELSE AfterRow(d, g[t \ {Newest(t)}], Newest(t))
      BY <3>1
    <3> QED
      BY <3>2, <3>3
  <2>2. h = [s \in D(n + 1) |-> IF s = {} THEN base
                                ELSE AfterRow(d, h[s \ {Newest(s)}], Newest(s))]
    BY <2>1
  <2> QED
    BY <2>2
<1> HIDE DEF Part
<1>5. Bad = {}
  <2>1. SUFFICES ASSUME Bad # {} PROVE FALSE
    OBVIOUS
  <2>2. PICK n \in Bad : \A m \in Bad : n <= m
    BY <2>1, NatMinimum
  <2>3. n # 0
    BY <1>3
  <2>4. n - 1 \in Nat /\ n - 1 \notin Bad
    <3>1. n \in Nat
      OBVIOUS
    <3>2. n - 1 \in Nat /\ ~(n <= n - 1)
      BY <3>1, <2>3
    <3> QED
      BY <3>2, <2>2
  <2>5. PICK g : Part(g, n - 1)
    BY <2>4
  <2>6. \E h : Part(h, (n - 1) + 1)
    BY <2>4, <2>5, <1>4
  <2>7. (n - 1) + 1 = n
    OBVIOUS
  <2> QED
    BY <2>6, <2>7
<1>6. PICK g : Part(g, Cardinality(T))
  BY <1>1, <1>5
<1>7. D(Cardinality(T)) = SUBSET T
  BY <1>0, FS_Subset
<1>8. Rolls(g, d, base, T)
  BY <1>6, <1>7 DEF Rolls, Part
<1> QED
  BY <1>8

\* A set of rows with all that are older among T, and the balance after it.
Older(s, T) == \A q \in s : \A p \in T : row[p].id < row[q].id => p \in s
Balanced(d, b, s) == (b + Denom[d].value * Cardinality(Made(d, s))) - Total(Charged(d, s))

(* The value of a coin is a natural number.                                *)
LEMMA DenomValue ==
    ASSUME NEW d \in Denoms
    PROVE  Denom[d].value \in Nat
PROOF
  BY BooksAssumption DEF Denoms

(* A charge that the balance holds.                                        *)
LEMMA ChargeFields ==
    ASSUME NEW i, IsInfo(i), NEW o, row[o].amt \in Int, i.balance >= row[o].amt
    PROVE  LET r == Charge(i, o)
           IN IsInfo(r) /\ r.issued = i.issued /\ r.loss = i.loss
              /\ r.balance = i.balance - row[o].amt
PROOF
<1>1. Charge(i, o) = [i EXCEPT !.balance = @ - row[o].amt]
  BY DEF Charge, IsInfo
<1>2. PICK r : r = [i EXCEPT !.balance = @ - row[o].amt]
  OBVIOUS
<1>3. DOMAIN r = DOMAIN i /\ r.issued = i.issued /\ r.loss = i.loss
      /\ r.balance = i.balance - row[o].amt
  BY <1>2 DEF IsInfo, InfoFields
<1> QED
  BY <1>1, <1>2, <1>3 DEF IsInfo

(* One more coin.                                                          *)
LEMMA IssueFields ==
    ASSUME NEW i, IsInfo(i), NEW d \in Denoms, NEW n \in Nat
    PROVE  LET r == Issue(i, d, n)
           IN IsInfo(r) /\ r.issued = i.issued + n /\ r.loss = i.loss
              /\ r.balance = i.balance + n * Denom[d].value
PROOF
<1>1. PICK r : r = Issue(i, d, n)
  OBVIOUS
<1>2. DOMAIN r = DOMAIN i /\ r.issued = i.issued + n /\ r.loss = i.loss
      /\ r.balance = i.balance + n * Denom[d].value
  BY <1>1 DEF IsInfo, InfoFields, Issue
<1>3. n * Denom[d].value \in Nat
  BY DenomValue
<1> QED
  BY <1>1, <1>2, <1>3 DEF IsInfo

(* One row.                                                                *)
LEMMA RowFields ==
    ASSUME NEW d \in Denoms, NEW i, IsInfo(i), NEW o, row[o].amt \in Nat,
           Op[o].kind \in Charges, Op[o].kind = "deposit" => DenomOf[Op[o].coin] = d,
           NEW n, n = (IF Op[o].kind = "melt" /\ DenomOf[Op[o].fresh] = d THEN 1 ELSE 0),
           NEW a, a = (IF DenomOf[Op[o].coin] = d THEN row[o].amt ELSE 0),
           (i.balance + n * Denom[d].value) - a >= 0
    PROVE  LET r == AfterRow(d, i, o)
           IN IsInfo(r) /\ r.issued = i.issued + n /\ r.loss = i.loss
              /\ r.balance = (i.balance + n * Denom[d].value) - a
PROOF
<1>0. Denom[d].value \in Nat /\ i.balance \in Int /\ i.issued \in Int
  BY DenomValue DEF IsInfo
<1>1. CASE Op[o].kind = "deposit"
  <2>1. n = 0 /\ a = row[o].amt /\ AfterRow(d, i, o) = Charge(i, o)
    BY <1>1 DEF AfterRow
  <2>2. n * Denom[d].value = 0
    BY <1>0, <2>1
  <2>3. i.balance >= row[o].amt
    BY <1>0, <2>1, <2>2
  <2>4. LET r == Charge(i, o)
        IN IsInfo(r) /\ r.issued = i.issued /\ r.loss = i.loss
           /\ r.balance = i.balance - row[o].amt
    BY <2>3, ChargeFields
  <2> QED
    BY <1>0, <2>1, <2>2, <2>4
<1>2. CASE Op[o].kind = "melt"
  <2> DEFINE j == IF DenomOf[Op[o].fresh] = d THEN Issue(i, d, 1) ELSE i
  <2>1. AfterRow(d, i, o) = IF DenomOf[Op[o].coin] = d THEN Charge(j, o) ELSE j
    BY <1>2 DEF AfterRow, AfterMelt
  <2>2. IsInfo(j) /\ j.issued = i.issued + n /\ j.loss = i.loss
        /\ j.balance = i.balance + n * Denom[d].value
    <3>1. CASE DenomOf[Op[o].fresh] = d
      BY <1>2, <3>1, IssueFields
    <3>2. CASE DenomOf[Op[o].fresh] # d
      <4>1. j = i /\ n = 0
        BY <1>2, <3>2
      <4> QED
        BY <1>0, <4>1
    <3> QED
      BY <3>1, <3>2
  <2> HIDE DEF j
  <2>3. CASE DenomOf[Op[o].coin] = d
    <3>1. j.balance >= row[o].amt
      <4>1. j.balance \in Int /\ a = row[o].amt /\ j.balance - a >= 0
        BY <2>2, <2>3 DEF IsInfo
      <4> QED
        BY <4>1
    <3>2. LET r == Charge(j, o)
          IN IsInfo(r) /\ r.issued = j.issued /\ r.loss = j.loss
             /\ r.balance = j.balance - row[o].amt
      BY <2>2, <3>1, ChargeFields
    <3> QED
      BY <2>1, <2>2, <2>3, <3>2
  <2>4. CASE DenomOf[Op[o].coin] # d
    <3>1. AfterRow(d, i, o) = j /\ a = 0
      BY <2>1, <2>4
    <3>2. j.balance \in Int
      BY <2>2 DEF IsInfo
    <3> QED
      BY <2>2, <3>1, <3>2
  <2> QED
    BY <2>3, <2>4
<1> QED
  BY <1>1, <1>2 DEF Charges

(* What a row adds to the coins that were made, and to the charges.        *)
LEMMA RowAdds ==
    ASSUME RowsInv, NEW d, NEW s, s \subseteq plan, NEW o \in plan, o \notin s,
           Op[o].kind \in Charges
    PROVE  /\ Cardinality(Made(d, s \cup {o}))
                = Cardinality(Made(d, s))
                  + (IF Op[o].kind = "melt" /\ DenomOf[Op[o].fresh] = d THEN 1 ELSE 0)
           /\ Total(Charged(d, s \cup {o}))
                = Total(Charged(d, s)) + (IF DenomOf[Op[o].coin] = d THEN row[o].amt ELSE 0)
           /\ Cardinality(Made(d, s)) \in Nat /\ Total(Charged(d, s)) \in Int
PROOF
<1> DEFINE A == Made(d, s)
           C == Charged(d, s)
<1>1. A \subseteq plan /\ C \subseteq plan /\ o \notin A /\ o \notin C
  BY DEF Made, Charged
<1>2. /\ Made(d, s \cup {o}) = IF Op[o].kind = "melt" /\ DenomOf[Op[o].fresh] = d
                              THEN A \cup {o} ELSE A
      /\ Charged(d, s \cup {o}) = IF DenomOf[Op[o].coin] = d THEN C \cup {o} ELSE C
  BY DEF Made, Charged, Charges
<1> HIDE DEF A, C
<1>3. IsFiniteSet(A) /\ IsFiniteSet(C) /\ Total(C) \in Int
  BY <1>1, TotalInt
<1>4. Cardinality(A) \in Nat /\ Cardinality(A \cup {o}) = Cardinality(A) + 1
  BY <1>1, <1>3, FS_CardinalityType, FS_AddElement
<1>5. \A p \in C \cup {o} : AmountIn[p] \in Int
  BY <1>1 DEF AmountIn, RowsInv
<1>6. SumFunctionOnSet(AmountIn, C \cup {o}) = SumFunctionOnSet(AmountIn, C) + AmountIn[o]
  BY ONLY <1>1, <1>3, <1>5, SumAdd
<1>7. Total(C \cup {o}) = Total(C) + row[o].amt
  BY <1>6 DEF Total, AmountIn
<1> QED
  BY <1>2, <1>3, <1>4, <1>7 DEF A, C

\* What a fold over s has made of the record b.
RollOK(d, b, s, r) ==
    /\ IsInfo(r) /\ r.issued = b.issued + Cardinality(Made(d, s))
    /\ r.loss = b.loss /\ r.balance = Balanced(d, b.balance, s)

(* Without rows the record stays.                                          *)
LEMMA RollEmpty ==
    ASSUME RowsInv, NEW d \in Denoms, NEW b, IsInfo(b)
    PROVE  RollOK(d, b, {}, b)
PROOF
<1>1. Made(d, {}) = {} /\ Charged(d, {}) = {}
  BY DEF Made, Charged
<1>2. Cardinality({}) = 0 /\ Total({}) = 0
  BY FS_EmptySet, SumEmpty DEF Total
<1>3. Denom[d].value * 0 = 0 /\ b.issued \in Int /\ b.balance \in Int
  BY DenomValue DEF IsInfo
<1>4. Balanced(d, b.balance, {}) = (b.balance + Denom[d].value * 0) - 0
  BY <1>1, <1>2 DEF Balanced
<1>5. Balanced(d, b.balance, {}) = b.balance
  BY <1>3, <1>4
<1>6. b.issued = b.issued + Cardinality(Made(d, {}))
  BY <1>1, <1>2, <1>3
<1> QED
  BY <1>5, <1>6 DEF RollOK

(* One row more.                                                           *)
LEMMA RollRow ==
    ASSUME RowsInv, NEW d \in Denoms, NEW b, IsInfo(b), NEW s, s \subseteq plan,
           NEW o \in plan, o \notin s, row[o].amt \in Nat,
           Op[o].kind \in Charges, Op[o].kind = "deposit" => DenomOf[Op[o].coin] = d,
           NEW r, RollOK(d, b, s, r), Balanced(d, b.balance, s \cup {o}) >= 0
    PROVE  RollOK(d, b, s \cup {o}, AfterRow(d, r, o))
PROOF
<1>1. PICK n, a : /\ n = (IF Op[o].kind = "melt" /\ DenomOf[Op[o].fresh] = d THEN 1 ELSE 0)
                  /\ a = (IF DenomOf[Op[o].coin] = d THEN row[o].amt ELSE 0)
  OBVIOUS
<1>2. n \in {0, 1} /\ a \in Nat
  BY <1>1
<1>3. /\ Cardinality(Made(d, s \cup {o})) = Cardinality(Made(d, s)) + n
      /\ Total(Charged(d, s \cup {o})) = Total(Charged(d, s)) + a
      /\ Cardinality(Made(d, s)) \in Nat /\ Total(Charged(d, s)) \in Int
  BY <1>1, RowAdds
<1>4. PICK v, m, t, x : /\ v = Denom[d].value /\ m = Cardinality(Made(d, s))
                        /\ t = Total(Charged(d, s)) /\ x = b.balance
  OBVIOUS
<1>5. v \in Nat /\ m \in Nat /\ t \in Int /\ x \in Int
  BY <1>3, <1>4, DenomValue DEF IsInfo
<1>6. r.balance = (x + v * m) - t /\ IsInfo(r) /\ r.issued = b.issued + m /\ r.loss = b.loss
  BY <1>4 DEF RollOK, Balanced
<1>7. Balanced(d, x, s \cup {o}) = (x + v * (m + n)) - (t + a)
  BY <1>3, <1>4 DEF Balanced
<1>8. (x + v * (m + n)) - (t + a) = (((x + v * m) - t) + n * v) - a
  <2>1. CASE n = 0
    BY ONLY <1>2, <1>5, <2>1
  <2>2. CASE n = 1
    <3>1. v * (m + 1) = v * m + v /\ v * m \in Nat
      BY ONLY <1>5
    <3> DEFINE y == v * m
    <3>2. v * (m + 1) = y + v /\ y \in Nat
      BY ONLY <3>1
    <3>3. (x + (y + v)) - (t + a) = ((x + y - t) + v) - a
      <4> HIDE DEF y
      <4> QED
        BY ONLY <1>2, <1>5, <3>2
    <3>4. 1 * v = v
      BY ONLY <1>5
    <3> HIDE DEF y
    <3>5. (x + v * (m + n)) - (t + a) = (x + (y + v)) - (t + a)
      BY ONLY <2>2, <3>2
    <3>6. (((x + y) - t) + 1 * v) - a = ((x + y - t) + v) - a
      BY ONLY <1>2, <1>5, <3>2, <3>4
    <3> QED
      BY ONLY <2>2, <3>3, <3>5, <3>6 DEF y
  <2> QED
    BY <1>2, <2>1, <2>2
<1>9. (r.balance + n * v) - a >= 0 /\ (r.balance + n * v) - a = Balanced(d, x, s \cup {o})
  BY <1>4, <1>6, <1>7, <1>8
<1>10. LET q == AfterRow(d, r, o)
       IN IsInfo(q) /\ q.issued = r.issued + n /\ q.loss = r.loss
          /\ q.balance = (r.balance + n * v) - a
  BY <1>1, <1>4, <1>6, <1>9, RowFields
<1>11. (b.issued + m) + n = b.issued + (m + n)
  BY <1>2, <1>5 DEF IsInfo
<1> QED
  BY <1>3, <1>4, <1>6, <1>9, <1>10, <1>11 DEF RollOK

(* A fold over rows that the balance holds, in order of their numbers.     *)
LEMMA RollValue ==
    ASSUME RowsInv, NEW d \in Denoms, NEW b, IsInfo(b), NEW T, T \subseteq plan,
           \A o \in T : /\ row[o].amt \in Nat /\ Op[o].kind \in Charges
                        /\ Op[o].kind = "deposit" => DenomOf[Op[o].coin] = d,
           \A s \in SUBSET T : Older(s, T) => Balanced(d, b.balance, s) >= 0
    PROVE  RollOK(d, b, T, Rolled(d, b, T))
PROOF
<1> DEFINE g == CHOOSE h : Rolls(h, d, b, T)
           B == {s \in SUBSET T : Older(s, T) /\ ~RollOK(d, b, s, g[s])}
<1>1. Rolls(g, d, b, T)
  BY RollExists
<1>2. IsFiniteSet(T)
  BY FS_Subset DEF RowsInv
<1> HIDE DEF g
<1>3. B = {}
  <2>1. SUFFICES ASSUME B # {} PROVE FALSE
    OBVIOUS
  <2>2. PICK s \in B : \A t \in B : Cardinality(s) <= Cardinality(t)
    BY <1>2, <2>1, SmallestSubset
  <2>3. s # {}
    <3>1. g[{}] = b
      BY <1>1 DEF Rolls
    <3> QED
      BY <3>1, RollEmpty
  <2>4. PICK x : x = Newest(s)
    OBVIOUS
  <2>5. x \in s /\ \A p \in s : row[p].id <= row[x].id
    BY <2>3, <2>4, NewestIn
  <2>6. PICK t : t = s \ {x}
    OBVIOUS
  <2>7. t \in SUBSET T /\ s = t \cup {x} /\ x \notin t /\ x \in plan /\ x \in T /\ t \subseteq plan
    BY <2>5, <2>6
  <2>8. Older(t, T)
    <3>1. Older(s, T) /\ \A p \in T : row[p].id \in Nat
      BY DEF RowsInv
    <3>2. ASSUME NEW q \in t, NEW p \in T, row[p].id < row[q].id
          PROVE  p \in t
      <4>1. p \in s
        BY <3>1, <3>2, <2>7 DEF Older
      <4>2. row[q].id <= row[x].id /\ row[q].id \in Nat /\ row[p].id \in Nat /\ row[x].id \in Nat
        BY <2>5, <2>7, <3>1
      <4>3. p # x
        BY <3>2, <4>2
      <4> QED
        BY <2>6, <4>1, <4>3
    <3> QED
      BY <3>2 DEF Older
  <2>9. t \notin B
    <3>1. /\ Cardinality(t) = Cardinality(s) - 1 /\ Cardinality(s) \in Nat
      BY <1>2, <2>5, <2>6, FS_Subset, FS_CardinalityType, FS_RemoveElement
    <3> HIDE DEF B
    <3> QED
      BY <2>2, <3>1
  <2>10. RollOK(d, b, t, g[t])
    BY <2>7, <2>8, <2>9
  <2>11. g[s] = AfterRow(d, g[t], x)
    BY <1>1, <2>3, <2>4, <2>6 DEF Rolls
  <2>12. Balanced(d, b.balance, t \cup {x}) >= 0
    BY <2>7
  <2>13. PICK r : r = g[t]
    OBVIOUS
  <2>14. RollOK(d, b, t, r)
    BY <2>10, <2>13
  <2>15. row[x].amt \in Nat /\ Op[x].kind \in Charges
         /\ (Op[x].kind = "deposit" => DenomOf[Op[x].coin] = d)
    BY <2>7
  <2>16. RollOK(d, b, t \cup {x}, AfterRow(d, r, x))
    BY ONLY RowsInv, d \in Denoms, IsInfo(b), <2>7, <2>12, <2>14, <2>15, RollRow
  <2> QED
    BY <2>7, <2>11, <2>13, <2>16
<1>4. Older(T, T) /\ T \in SUBSET T
  BY DEF Older
<1>5. RollOK(d, b, T, g[T])
  BY <1>3, <1>4
<1> QED
  BY <1>5 DEF g, Rolled

---------------------------------------------------------------------------
(* Coins that are made and charged.                                        *)

\* A row that makes a coin; a set of rows in which every coin that is charged
\* was made; what comes back to a denomination's coins.
Makes(i, c) ==
    \/ Op[i].kind = "withdraw" /\ Op[i].coin = c
    \/ Op[i].kind = "melt" /\ Op[i].fresh = c
AllMade(d, X) == \A o \in Charged(d, X) : \E i \in X : Makes(i, Op[o].coin)
Back(d, T) == BackTo(d, Of(T, "recoup_refresh"))
ChargeRows(c, S) == RowsOf(c, S, Charges)

\* A denomination whose coins the exchange treated by its rules, and none of
\* which was refunded.
Regular(d) ==
    \A c \in Coins : DenomOf[c] = d => Clean(c) /\ RefundRows(c, Committed) = {}

(* The charges of a coin are within its value and what came back to it.    *)
LEMMA CoinWithin ==
    ASSUME RowsInv, RefundInv, CleanInv, NEW c \in Coins, Clean(c),
           RefundRows(c, Committed) = {}
    PROVE  /\ Total(ChargeRows(c, Committed))
                <= DenomOfCoin(c).value + Total(OldCoinRecoups(c, Committed))
           /\ Total(ChargeRows(c, Committed)) \in Int
           /\ Total(OldCoinRecoups(c, Committed)) \in Int
PROOF
<1> DEFINE S == Committed
           P == SpendRows(c, S)
           D == ChargeRows(c, S)
           Q == RecoupRows(c, S)
           R == RefundRows(c, S)
           B == OldCoinRecoups(c, S)
<1>1. S \subseteq Numbered /\ Numbered \subseteq plan
  BY CommittedInPlan
<1>2. P = D \cup Q /\ D \cap Q = {} /\ D \subseteq plan /\ Q \subseteq plan
  BY <1>1 DEF SpendRows, ChargeRows, RecoupRows, RowsOf, Spends, RecoupKinds, Charges
<1>3. \A o \in Q : row[o].amt \in Nat
  BY <1>1 DEF RecoupRows, RowsOf, RefundInv, RecoupKinds
<1>4. /\ Cardinality(R) \in Nat /\ Total(B) \in Int
      /\ Spent(c, S) = (Total(P) + Cardinality(R) * DenomOfCoin(c).refund)
                       - (Total(R) + Total(B))
                       - (IF R = {} THEN 0 ELSE DenomOfCoin(c).deposit)
  BY <1>1, SpentParts
<1>5. Cardinality({}) = 0 /\ Total({}) = 0
  BY FS_EmptySet, SumEmpty DEF Total
<1>6. ~(Spent(c, S) > DenomOfCoin(c).value) /\ Spent(c, S) \in Int
  BY <1>1, SpentInt DEF CleanInv, Overspend
<1>7. DenomOfCoin(c).refund \in Nat /\ DenomOfCoin(c).value \in Nat
  BY CoinFacts
<1> HIDE DEF S, P, D, Q, B
<1>8. Total(P) = Total(D) + Total(Q) /\ Total(Q) \in Nat /\ Total(D) \in Int
  BY <1>2, <1>3, TotalUnion, TotalNat, TotalInt
<1>9. R = {}
  BY DEF S
<1> HIDE DEF R
<1>10. Spent(c, S) = (Total(P) + 0 * DenomOfCoin(c).refund) - (0 + Total(B)) - 0
  BY <1>4, <1>5, <1>9
<1>11. PICK p, q, d, b, s, v, f : /\ p = Total(P) /\ q = Total(Q) /\ d = Total(D) /\ b = Total(B)
                               /\ s = Spent(c, S) /\ v = DenomOfCoin(c).value
                               /\ f = DenomOfCoin(c).refund
  OBVIOUS
<1>12. /\ s = (p + 0 * f) - (0 + b) - 0 /\ f \in Nat /\ v \in Nat /\ q \in Nat /\ d \in Int
       /\ p = d + q /\ b \in Int /\ ~(s > v)
  BY <1>4, <1>6, <1>7, <1>8, <1>10, <1>11
<1>13. d <= v + b
  BY ONLY <1>12
<1> QED
  BY <1>11, <1>12, <1>13 DEF D, B, S

(* No more coins are charged than were made.                               *)
LEMMA CoinsMade ==
    ASSUME RowsInv, NEW d, NEW X, X \subseteq plan, NEW K,
           \A c \in K : DenomOf[c] = d /\ \E i \in X : Makes(i, c)
    PROVE  /\ IsFiniteSet(K) /\ Cardinality(K) \in Nat /\ Cardinality(Made(d, X)) \in Nat
           /\ Cardinality(K) <= Cardinality(Made(d, X))
PROOF
<1> DEFINE M == Made(d, X)
           f == [c \in K |-> CHOOSE i \in X : Makes(i, c)]
<1>1. \A c \in K : f[c] \in X /\ Makes(f[c], c)
  OBVIOUS
<1>2. \A c \in K : f[c] \in M
  BY <1>1 DEF Made, Makes
<1>3. \A c, e \in K : f[c] = f[e] => c = e
  BY <1>1 DEF Makes
<1>4. DOMAIN f = K /\ f = [c \in K |-> f[c]]
  OBVIOUS
<1>5. IsFiniteSet(M)
  BY FS_Subset DEF RowsInv, Made
<1> HIDE DEF f, M
<1>6. f \in [K -> M]
  BY <1>2, <1>4
<1>7. f \in Injection(K, M)
  BY <1>3, <1>6 DEF Injection, IsInjective
<1>8. IsFiniteSet(K) /\ Cardinality(K) <= Cardinality(M)
  BY ONLY <1>5, <1>7, FS_Injection
<1> QED
  BY <1>5, <1>8, FS_CardinalityType DEF M
(* Over any set of rows in which the charged coins were made, what was made*)
(* and all that comes back to the coins covers the charges.                *)
LEMMA MadeCovers ==
    ASSUME RowsInv, RefundInv, CleanInv, NEW d \in Denoms, Regular(d),
           NEW X, X \subseteq Committed, AllMade(d, X)
    PROVE  Balanced(d, Total(Back(d, Committed)), X) >= 0
PROOF
<1> DEFINE S == Committed
           A == Charged(d, X)
           key == [o \in A |-> Op[o].coin]
           K == {key[o] : o \in A}
           v == Denom[d].value
           vs == [c \in K |-> v]
           bs == [c \in K |-> Total(OldCoinRecoups(c, S))]
           bound == [c \in K |-> v + Total(OldCoinRecoups(c, S))]
<1>1. S \subseteq Numbered /\ Numbered \subseteq plan /\ plan \subseteq Ops /\ X \subseteq plan
      /\ A \subseteq plan /\ A \subseteq S
  BY CommittedInPlan DEF RowsInv, Charged
<1>2. \A o \in A : key[o] \in K /\ key[o] \in Coins /\ DenomOf[key[o]] = d /\ AmountIn[o] \in Int
                   /\ Op[o].kind \in Charges /\ key[o] = Op[o].coin
  <2> TAKE o \in A
  <2>1. Op[o].kind \in Charges /\ DenomOf[Op[o].coin] = d /\ o \in Ops /\ o \in plan
    BY <1>1 DEF Charged
  <2>2. Op[o].coin \in Coins
    BY <2>1, OpFacts DEF Charges
  <2>3. AmountIn[o] \in Int
    BY <2>1 DEF AmountIn, RowsInv
  <2> QED
    BY <2>1, <2>2, <2>3
<1>3. \A c \in K : c \in Coins /\ DenomOf[c] = d /\ \E i \in X : Makes(i, c)
  BY <1>2 DEF AllMade
<1>4. /\ IsFiniteSet(K) /\ Cardinality(K) \in Nat /\ Cardinality(Made(d, X)) \in Nat
      /\ Cardinality(K) <= Cardinality(Made(d, X))
  <2> HIDE DEF K
  <2> QED
    BY <1>1, <1>3, CoinsMade
<1>5. ASSUME NEW c \in K
      PROVE  /\ bound[c] \in Int /\ vs[c] = v /\ bs[c] \in Int /\ bound[c] = vs[c] + bs[c]
             /\ SumFunctionOnSet(AmountIn, {o \in A : key[o] = c}) <= bound[c]
  <2> DEFINE U == {o \in A : key[o] = c}
             C == ChargeRows(c, S)
  <2>1. c \in Coins /\ DenomOf[c] = d
    BY <1>3
  <2>2. /\ Total(C) <= DenomOfCoin(c).value + Total(OldCoinRecoups(c, S))
        /\ Total(C) \in Int /\ Total(OldCoinRecoups(c, S)) \in Int
    BY <2>1, CoinWithin DEF Regular
  <2>3. DenomOfCoin(c).value = v /\ v \in Nat
    BY <2>1, DenomValue DEF DenomOfCoin
  <2>4. C \subseteq plan /\ \A o \in C : AmountIn[o] \in Nat
    <3>1. \A o \in C : o \in Ops /\ o \in Numbered /\ Op[o].kind \in Charges /\ o \in plan
      BY <1>1 DEF ChargeRows, RowsOf
    <3>2. \A o \in C : row[o].amt \in Nat
      BY <3>1, OpFacts DEF RefundInv, Charges
    <3> QED
      BY <3>1, <3>2 DEF AmountIn
  <2>5. U \subseteq C
    BY <1>1, <1>2 DEF ChargeRows, RowsOf, CoinOf, Charges
  <2>6. IsFiniteSet(C) /\ U \subseteq plan
    BY <2>4, <2>5, FS_Subset DEF RowsInv
  <2>7. SumFunctionOnSet(AmountIn, U) <= SumFunctionOnSet(AmountIn, C) /\ Total(U) \in Int
    <3> HIDE DEF U, C
    <3>1. SumFunctionOnSet(AmountIn, U) <= SumFunctionOnSet(AmountIn, C)
      BY ONLY <2>4, <2>5, <2>6, SumSubset
    <3> QED
      BY <2>6, <3>1, TotalInt
  <2>8. PICK u, t, b : u = Total(U) /\ t = Total(C) /\ b = Total(OldCoinRecoups(c, S))
    OBVIOUS
  <2>9. u <= v + b
    <3>1. u \in Int /\ t \in Int /\ b \in Int /\ v \in Nat /\ u <= t /\ t <= v + b
      <4> HIDE DEF U, C, v
      <4> QED
        BY <2>2, <2>3, <2>7, <2>8 DEF Total
    <3> HIDE DEF v
    <3> QED
      BY ONLY <3>1
  <2>10. bound[c] = v + b /\ vs[c] = v /\ bs[c] = b /\ b \in Int /\ v \in Nat
    BY <2>2, <2>3, <2>8
  <2> HIDE DEF bound, vs, bs, v, U
  <2>11. SumFunctionOnSet(AmountIn, U) <= bound[c]
    BY <2>8, <2>9, <2>10 DEF Total
  <2> QED
    BY <2>10, <2>11 DEF U
<1>6. IsFiniteSet(A) /\ Total(A) \in Int
  BY <1>1, TotalInt
<1>7. SumFunctionOnSet(AmountIn, A) <= SumFunctionOnSet(bound, K)
  <2>1. \A a \in A : AmountIn[a] \in Int /\ key[a] \in K
    BY <1>2
  <2>2. \A k \in K : bound[k] \in Int
                     /\ SumFunctionOnSet(AmountIn, {a \in A : key[a] = k}) <= bound[k]
    BY <1>5
  <2> HIDE DEF A, key, K, bound
  <2> QED
    BY ONLY <1>4, <1>6, <2>1, <2>2, SumCharged
<1>8. v \in Nat
  BY DenomValue
<1>9. SumFunctionOnSet(bound, K) = SumFunctionOnSet(vs, K) + SumFunctionOnSet(bs, K)
      /\ SumFunctionOnSet(vs, K) = v * Cardinality(K) /\ SumFunctionOnSet(bs, K) \in Int
  <2> HIDE DEF vs, bs, bound, K, v, A, key
  <2>0. \A x \in K : bs[x] \in Int /\ bound[x] = vs[x] + bs[x] /\ vs[x] = v
    BY ONLY <1>5
  <2>1. \A x \in K : vs[x] \in Int /\ bs[x] \in Int /\ bound[x] = vs[x] + bs[x] /\ vs[x] = v
    BY ONLY <1>8, <2>0
  <2>2. v \in Int
    BY <1>8
  <2>3. SumFunctionOnSet(bound, K) = SumFunctionOnSet(vs, K) + SumFunctionOnSet(bs, K)
    BY ONLY <1>4, <2>1, SumPlus
  <2>4. SumFunctionOnSet(vs, K) = v * Cardinality(K)
    BY ONLY <1>4, <2>1, <2>2, SumConst
  <2>5. SumFunctionOnSet(bs, K) \in Int
    BY ONLY <1>4, <2>1, SumInt
  <2> QED
    BY <2>3, <2>4, <2>5
<1>10. SumFunctionOnSet(bs, K) <= Total(Back(d, S)) /\ Total(Back(d, S)) \in Int
  <2> DEFINE G == Back(d, S)
             old == [o \in G |-> OldCoinOf(Op[o].coin)]
             H == {o \in G : old[o] \in K}
             ks == [k \in K |-> SumFunctionOnSet(AmountIn, {o \in H : old[o] = k})]
  <2>1. G \subseteq plan /\ G \subseteq Of(S, "recoup_refresh") /\ H \subseteq G
    BY <1>1 DEF Back, BackTo, Of
  <2>2. \A o \in G : AmountIn[o] \in Nat
    <3>1. \A o \in G : o \in Numbered /\ Op[o].kind = "recoup_refresh" /\ o \in plan
      BY <1>1, <2>1 DEF Of
    <3>2. \A o \in G : row[o].amt \in Nat
      BY <3>1 DEF RefundInv
    <3> QED
      BY <3>1, <3>2 DEF AmountIn
  <2>3. \A o \in H : AmountIn[o] \in Int /\ old[o] \in K
    BY <2>1, <2>2
  <2>4. IsFiniteSet(G) /\ IsFiniteSet(H) /\ Total(G) \in Int
    <3>1. H \subseteq plan
      BY <2>1
    <3> HIDE DEF G, H
    <3> QED
      BY <2>1, <3>1, TotalInt
  <2>5. SumFunctionOnSet(AmountIn, H) <= SumFunctionOnSet(AmountIn, G)
    <3> HIDE DEF G, H
    <3> QED
      BY ONLY <2>1, <2>2, <2>4, SumSubset
  <2>6. SumFunctionOnSet(AmountIn, H) = SumFunctionOnSet(ks, K)
    <3> HIDE DEF G, H, old, K
    <3> QED
      BY ONLY <1>4, <2>3, <2>4, SumByKey DEF ks
  <2>7. ASSUME NEW k \in K PROVE bs[k] = ks[k]
    <3>1. DenomOf[k] = d
      BY <1>3
    <3>2. {o \in H : old[o] = k} = OldCoinRecoups(k, S)
      BY <3>1 DEF OldCoinRecoups, Back, BackTo
    <3> QED
      BY <3>2 DEF Total
  <2>8. bs = ks
    <3>1. bs = [k \in K |-> bs[k]] /\ ks = [k \in K |-> ks[k]]
      OBVIOUS
    <3> HIDE DEF bs, ks, K
    <3> QED
      BY <2>7, <3>1
  <2>9. SumFunctionOnSet(bs, K) <= Total(G)
    <3> HIDE DEF bs, ks, K, G, H
    <3> QED
      BY <2>5, <2>6, <2>8 DEF Total
  <2> QED
    BY <2>4, <2>9
<1>11. PICK t, b, vk, bk, k, m, u : /\ t = Total(A) /\ b = Total(Back(d, S)) /\ u = v
                                 /\ bk = SumFunctionOnSet(bs, K) /\ k = Cardinality(K)
                                 /\ m = Cardinality(Made(d, X)) /\ vk = v * Cardinality(K)
  OBVIOUS
<1> HIDE DEF A, K, bs, vs, bound, v
<1>12. /\ t \in Int /\ b \in Int /\ bk \in Int /\ u \in Nat /\ k \in Nat /\ m \in Nat /\ k <= m
       /\ vk = u * k /\ t <= vk + bk /\ bk <= b
  BY <1>4, <1>6, <1>7, <1>8, <1>9, <1>10, <1>11 DEF Total
<1>13. u * k <= u * m /\ u * k \in Nat /\ u * m \in Nat
  <2>1. u * (m - k) \in Nat /\ u * m = u * k + u * (m - k) /\ u * k \in Nat /\ u * m \in Nat
    BY ONLY <1>12
  <2> DEFINE x == u * (m - k)
             y == u * k
             z == u * m
  <2>2. x \in Nat /\ z = y + x /\ y \in Nat /\ z \in Nat
    BY ONLY <2>1
  <2>3. y <= z
    <3> HIDE DEF x, y, z
    <3> QED
      BY ONLY <2>2
  <2> QED
    BY <2>1, <2>3
<1>14. (b + u * m) - t >= 0
  <2> DEFINE y == u * k
             z == u * m
  <2>1. y \in Nat /\ z \in Nat /\ y <= z /\ t <= y + bk /\ bk <= b
    BY ONLY <1>12, <1>13
  <2>2. (b + z) - t >= 0
    <3> HIDE DEF y, z
    <3> QED
      BY ONLY <1>12, <2>1
  <2> QED
    BY <2>2
<1> QED
  BY <1>11, <1>14 DEF Balanced, A, v

\* A coin that is charged by the rules was made before: withdrawn, or
\* refreshed from an older melt that was revealed.
MadeFor(o, S) ==
    \/ Withdrawn(Op[o].coin, S)
    \/ \E m \in Of(S, "melt") : /\ Op[m].fresh = Op[o].coin /\ Revealed(m, S)
                                /\ Op[o].kind = "melt" => row[m].id < row[o].id
IssueInv ==
    \A o \in Numbered :
       /\ Op[o].kind \in Charges /\ Op[o].honest => MadeFor(o, Committed)
       /\ Op[o].kind = "recoup" => Withdrawn(Op[o].coin, Committed)

\* The rows below the marks of the coins helper; each coin that is charged in
\* them was made in them.
Audited == {o \in plan : Op[o].kind \in CoinKinds /\ o \in Passed(Op[o].kind, ppc[Op[o].kind])}
AuditedInv ==
    \A o \in Audited : Op[o].kind \in Charges /\ Op[o].honest
                          => \E i \in Audited : Makes(i, Op[o].coin)

(* What was withdrawn or revealed stays so.                                *)
LEMMA WithdrawnLast ==
    ASSUME NEW S, NEW T, S \subseteq T
    PROVE  /\ \A c : Withdrawn(c, S) => Withdrawn(c, T)
           /\ \A m : Revealed(m, S) => Revealed(m, T)
PROOF
  BY DEF Withdrawn, Revealed, Of

(* Every step keeps the charged coins made.                                *)
LEMMA NextIssue ==
    ASSUME RowsInv, MaxOpen = 1, IssueInv, [Next]_vars
    PROVE  IssueInv'
PROOF
<1>1. /\ plan' = plan /\ Committed \subseteq Committed' /\ Numbered \subseteq Numbered'
      /\ \A o \in Numbered : row'[o] = row[o]
  BY CommittedKept
<1>2. Committed \subseteq Numbered /\ Numbered \subseteq plan
  BY CommittedInPlan
<1>3. PICK S, T : S = Committed /\ T = Committed'
  OBVIOUS
<1>4. /\ \A c : Withdrawn(c, S) => Withdrawn(c, T)
      /\ \A m : Revealed(m, S) => Revealed(m, T)
  BY <1>1, <1>3, WithdrawnLast
<1>5. \A c : Withdrawn(c, Committed)' = Withdrawn(c, T)
  BY <1>3 DEF Withdrawn, Of
<1>6. ASSUME NEW o, Op[o].kind = "melt" => row'[o].id >= row[o].id /\ row'[o].id \in Nat
                                            /\ row[o].id \in Nat,
             MadeFor(o, Committed)
      PROVE  MadeFor(o, Committed)'
  <2>1. CASE Withdrawn(Op[o].coin, Committed)
    BY <1>3, <1>4, <1>5, <2>1 DEF MadeFor
  <2>2. ASSUME NEW m \in Of(Committed, "melt"), Op[m].fresh = Op[o].coin, Revealed(m, Committed),
               Op[o].kind = "melt" => row[m].id < row[o].id
        PROVE  MadeFor(o, Committed)'
    <3>1. m \in Of(Committed', "melt") /\ Revealed(m, T) /\ m \in Numbered /\ m \in plan
      BY <1>1, <1>2, <1>3, <1>4, <2>2 DEF Of
    <3>2. Revealed(m, Committed)'
      BY <1>3, <3>1 DEF Revealed, Of
    <3>3. row'[m] = row[m] /\ row[m].id \in Nat
      BY <1>1, <3>1 DEF RowsInv
    <3>4. Op[o].kind = "melt" => row'[m].id < row'[o].id
      BY <1>6, <2>2, <3>3
    <3> QED
      BY <2>2, <3>1, <3>2, <3>4 DEF MadeFor, Of
  <2> QED
    BY <1>6, <2>1, <2>2 DEF MadeFor
<1>7. ASSUME NEW o \in Numbered
      PROVE  /\ Op[o].kind \in Charges /\ Op[o].honest => MadeFor(o, Committed)'
             /\ Op[o].kind = "recoup" => Withdrawn(Op[o].coin, Committed)'
  <2>1. row'[o] = row[o] /\ row[o].id \in Nat
    BY <1>1, <1>2 DEF RowsInv
  <2> QED
    BY <1>3, <1>4, <1>5, <1>6, <2>1 DEF IssueInv
<1>8. ASSUME NEW o \in Numbered', o \notin Numbered
      PROVE  /\ Op[o].kind \in Charges /\ Op[o].honest => MadeFor(o, Committed)'
             /\ Op[o].kind = "recoup" => Withdrawn(Op[o].coin, Committed)'
  <2>1. PICK p \in plan : Insert(p)
    <3>1. \A p \in plan : Commit(p) => row' = row
      BY CommitEffect
    <3>2. BooksSame => row' = row
      BY DEF BooksSame
    <3> QED
      BY <1>1, <1>8, <3>1, <3>2, StepCases DEF Numbered
  <2>2. /\ Accepted(p) /\ Committed' = Committed /\ \A q \in plan \ {p} : row'[q] = row[q]
        /\ row[p].id = 0 /\ row'[p].id = NextSerial(Op[p].kind)
    BY <2>1, InsertEffect
  <2>3. p = o
    BY <1>1, <1>8, <2>2 DEF Numbered
  <2>4. /\ NextSerial(Op[o].kind) \in Nat
        /\ \A q \in plan : Op[q].kind = Op[o].kind => row[q].id < NextSerial(Op[o].kind)
    BY <2>3, NextSerialLarger
  <2>5. ASSUME Op[o].kind \in Charges, Op[o].honest
        PROVE  MadeFor(o, Committed)'
    <3>1. Issued(Op[o].coin, Committed)
      BY <2>2, <2>3, <2>5 DEF Accepted, Justified, CanSpend, Charges
    <3>2. CASE Withdrawn(Op[o].coin, Committed)
      BY <1>3, <1>4, <1>5, <3>2 DEF MadeFor
    <3>3. CASE Refreshed(Op[o].coin, Committed)
      <4>1. PICK m \in Of(Committed, "melt") : Op[m].fresh = Op[o].coin /\ Revealed(m, Committed)
        BY <3>3 DEF Refreshed
      <4>2. m \in Of(Committed', "melt") /\ Revealed(m, T) /\ m \in Numbered /\ m \in plan
            /\ Op[m].kind = "melt"
        BY <1>1, <1>2, <1>3, <1>4, <4>1 DEF Of
      <4>3. Revealed(m, Committed)'
        BY <1>3, <4>2 DEF Revealed, Of
      <4>4. row'[m] = row[m]
        BY <1>1, <4>2
      <4>5. Op[o].kind = "melt" => row'[m].id < row'[o].id
        BY <2>2, <2>3, <2>4, <4>2, <4>4
      <4> QED
        BY <4>1, <4>2, <4>3, <4>5 DEF MadeFor, Of
    <3> QED
      BY <3>1, <3>2, <3>3 DEF Issued
  <2>6. ASSUME Op[o].kind = "recoup"
        PROVE  Withdrawn(Op[o].coin, Committed)'
    <3>1. Withdrawn(Op[o].coin, Committed)
      BY <2>2, <2>3, <2>6 DEF Accepted, Justified, Fraudulent
    <3> QED
      BY <1>3, <1>4, <1>5, <3>1
  <2> QED
    BY <2>5, <2>6
<1> QED
  BY <1>7, <1>8 DEF IssueInv

(* Before the first audit nothing is charged.                              *)
LEMMA InitIssue == Init /\ RowsInv => IssueInv /\ AuditedInv
PROOF
<1> SUFFICES ASSUME Init, RowsInv PROVE IssueInv /\ AuditedInv
  OBVIOUS
<1>1. \A o \in Numbered : Op[o].kind \in {"credit", "withdraw"}
  BY InitRowKinds
<1>2. \A o \in Audited : o \in Numbered
  BY DEF Audited, Passed, Numbered, RowsInv
<1> QED
  BY <1>1, <1>2 DEF IssueInv, AuditedInv, Charges

(* A step of anything but the coins helper.                                *)
LEMMA AuditedStays ==
    ASSUME RowsInv, MaxOpen = 1, [Next]_vars, CoinMarks, ppc' = ppc
    PROVE  /\ Audited' = Audited /\ Audited \subseteq plan
           /\ \A o \in Audited : row'[o] = row[o]
PROOF
<1>1. plan' = plan
  BY PlanStays
<1>2. ASSUME NEW k \in CoinKinds
      PROVE  /\ Passed(k, ppc[k])' = Passed(k, ppc[k])
             /\ \A o \in Passed(k, ppc[k]) : row'[o] = row[o]
  <2>1. PICK m : m = ppc[k]
    OBVIOUS
  <2>2. Passed(k, m)' = Passed(k, m) /\ \A o \in Passed(k, m) : row'[o] = row[o]
    BY <2>1, MarkStep DEF CoinMarks
  <2> QED
    BY <2>1, <2>2 DEF Passed
<1>3. \A o \in plan : Op[o].kind \in CoinKinds =>
         (o \in Passed(Op[o].kind, ppc[Op[o].kind])' <=> o \in Passed(Op[o].kind, ppc[Op[o].kind]))
  BY <1>2
<1>4. Audited' = Audited
  BY <1>1, <1>3 DEF Audited, Passed, Of
<1> QED
  BY <1>2, <1>4 DEF Audited

---------------------------------------------------------------------------
(* An audit of a denomination.                                             *)

\* The reasons of EmergencyHasReason, in rows S and missed melts G; and what
\* the helper's record of a denomination without them says of the rows A.
Suspicious(d, S, G) ==
    \E c \in Coins :
       /\ DenomOf[c] = d
       /\ \/ \E o \in S : ~ Op[o].honest /\ CoinOf(o) = c
          \/ \E m \in G : c \in {Op[m].fresh, Op[m].coin}
          \/ RowsOf(c, S, {"refund"}) # {}
DenomOK(d, i, A) ==
    /\ IsInfo(i) /\ i.issued = Cardinality(Made(d, A)) /\ i.loss = 0
    /\ i.balance = Balanced(d, Total(Back(d, A)), A)
DenomInv ==
    \A d \in Denoms : ~Suspicious(d, Committed, missed) /\ ~DenomExpired(d)
                         => DenomOK(d, dinfo[d], Audited)

(* What a denomination that is not suspicious lacks.                       *)
LEMMA NotSuspicious ==
    ASSUME RowsInv, NEW d, NEW G, ~Suspicious(d, Committed, G)
    PROVE  /\ Regular(d)
           /\ \A o \in Charged(d, Committed) : Op[o].honest
           /\ \A m \in G : /\ Op[m].fresh \in Coins => DenomOf[Op[m].fresh] # d
                           /\ Op[m].coin \in Coins => DenomOf[Op[m].coin] # d
           /\ In(d, Of(Committed, "refund")) = {}
PROOF
<1>1. Committed \subseteq plan /\ plan \subseteq Ops
  BY CommittedInPlan DEF RowsInv
<1>2. Regular(d)
  BY DEF Regular, Suspicious, Clean, SpendRows, RefundRows, RowsOf
<1>3. ASSUME NEW o \in Charged(d, Committed)
      PROVE  Op[o].honest
  <2>1. o \in Committed /\ Op[o].kind \in Charges /\ DenomOf[Op[o].coin] = d /\ o \in Ops
    BY <1>1 DEF Charged
  <2>2. Op[o].coin \in Coins /\ CoinOf(o) = Op[o].coin
    BY <2>1, OpFacts DEF Charges, CoinOf
  <2> QED
    BY <2>1, <2>2 DEF Suspicious
<1>4. ASSUME NEW o \in In(d, Of(Committed, "refund"))
      PROVE  FALSE
  <2>1. o \in Committed /\ Op[o].kind = "refund" /\ o \in Ops /\ DenomOf[CoinOf(o)] = d
    BY <1>1 DEF In, Of
  <2>2. CoinOf(o) \in Coins
    BY <2>1, OpFacts DEF CoinOf
  <2> QED
    BY <2>1, <2>2 DEF Suspicious, RowsOf
<1> QED
  BY <1>2, <1>3, <1>4 DEF Suspicious

(* Rows in two parts.                                                      *)
LEMMA BalancedUnion ==
    ASSUME RowsInv, NEW d \in Denoms, NEW b \in Int, NEW X, NEW s, X \subseteq plan,
           s \subseteq plan, X \cap s = {}
    PROVE  /\ Cardinality(Made(d, X \cup s)) = Cardinality(Made(d, X)) + Cardinality(Made(d, s))
           /\ Cardinality(Made(d, X)) \in Nat /\ Cardinality(Made(d, s)) \in Nat
           /\ Balanced(d, Balanced(d, b, X), s) = Balanced(d, b, X \cup s)
           /\ Balanced(d, b, X) \in Int
PROOF
<1> DEFINE M1 == Made(d, X)
           M2 == Made(d, s)
           C1 == Charged(d, X)
           C2 == Charged(d, s)
<1>1. /\ Made(d, X \cup s) = M1 \cup M2 /\ M1 \cap M2 = {}
      /\ Charged(d, X \cup s) = C1 \cup C2 /\ C1 \cap C2 = {}
      /\ M1 \subseteq plan /\ M2 \subseteq plan /\ C1 \subseteq plan /\ C2 \subseteq plan
  BY DEF Made, Charged
<1> HIDE DEF M1, M2, C1, C2
<1>2. /\ IsFiniteSet(M1) /\ IsFiniteSet(M2)
      /\ Total(C1) \in Int /\ Total(C2) \in Int /\ Total(C1 \cup C2) = Total(C1) + Total(C2)
  BY <1>1, TotalInt, TotalUnion
<1>3. /\ Cardinality(M1) \in Nat /\ Cardinality(M2) \in Nat
      /\ Cardinality(M1 \cup M2) = Cardinality(M1) + Cardinality(M2)
  <2>1. Cardinality(M1) \in Nat /\ Cardinality(M2) \in Nat
    BY <1>2, FS_CardinalityType
  <2>2. Cardinality(M1 \cap M2) = 0
    BY ONLY <1>1, FS_EmptySet
  <2>3. Cardinality(M1 \cup M2) = Cardinality(M1) + Cardinality(M2) - Cardinality(M1 \cap M2)
    BY <1>2, FS_Union
  <2> QED
    BY ONLY <2>1, <2>2, <2>3
<1>4. PICK v, m, n, t, u : /\ v = Denom[d].value /\ m = Cardinality(M1) /\ n = Cardinality(M2)
                        /\ t = Total(C1) /\ u = Total(C2)
  OBVIOUS
<1>5. v \in Nat /\ m \in Nat /\ n \in Nat /\ t \in Int /\ u \in Int
  BY <1>2, <1>3, <1>4, DenomValue
<1>6. Balanced(d, b, X) = (b + v * m) - t
  BY <1>4 DEF Balanced, M1, C1
<1>7. Balanced(d, Balanced(d, b, X), s) = (((b + v * m) - t) + v * n) - u
  BY <1>4, <1>6 DEF Balanced, M2, C2
<1>8. Balanced(d, b, X \cup s) = (b + v * (m + n)) - (t + u)
  BY <1>1, <1>2, <1>3, <1>4 DEF Balanced
<1>9. v * (m + n) = v * m + v * n /\ v * m \in Nat /\ v * n \in Nat
  BY ONLY <1>5
<1> DEFINE x == v * m
           y == v * n
<1>10. (b + v * (m + n)) - (t + u) = (b + (x + y)) - (t + u) /\ x \in Nat /\ y \in Nat
  BY ONLY <1>9
<1>11. (((b + x) - t) + y) - u = (b + (x + y)) - (t + u) /\ (b + x) - t \in Int
  <2> HIDE DEF x, y
  <2> QED
    BY ONLY b \in Int, <1>5, <1>10
<1>12. Balanced(d, Balanced(d, b, X), s) = Balanced(d, b, X \cup s) /\ Balanced(d, b, X) \in Int
  BY ONLY <1>6, <1>7, <1>8, <1>10, <1>11
<1> QED
  BY <1>1, <1>3, <1>12 DEF M1, M2

(* What is audited and what is new.                                        *)
LEMMA AuditSplit ==
    ASSUME RowsInv, CoinMarks
    PROVE  /\ Audited \subseteq Committed
           /\ \A o \in Audited : Op[o].kind \in CoinKinds
           /\ \A k \in CoinKinds : \A o \in Committed : Op[o].kind = k =>
                 (o \in Audited <=> o \notin Above(k, Committed, ppc[k]))
           /\ \A k : \A o \in Above(k, Committed, ppc[k]) : o \in Committed /\ Op[o].kind = k
PROOF
<1>0. Committed \subseteq plan
  BY CommittedInPlan
<1>1. ASSUME NEW k \in CoinKinds
      PROVE  LET T == Above(k, Committed, ppc[k])
             IN /\ Passed(k, ppc[k]) \cup T = Of(Committed, k) /\ Passed(k, ppc[k]) \cap T = {}
  BY MarkAudit DEF CoinMarks
<1>2. \A k \in CoinKinds : \A o \in Committed : Op[o].kind = k =>
                 (o \in Audited <=> o \notin Above(k, Committed, ppc[k]))
  BY <1>0, <1>1 DEF Audited, Of
<1>3. ASSUME NEW o \in Audited PROVE o \in Committed /\ Op[o].kind \in CoinKinds
  BY <1>1 DEF Audited, Of
<1> QED
  BY <1>2, <1>3 DEF Above, Of

(* A set with all audited rows, all withdrawals and, for each new charge,  *)
(* the melts before it.                                                    *)
LEMMA MadeInside ==
    ASSUME RowsInv, CoinMarks, IssueInv, AuditedInv, NEW d, NEW G, ~Suspicious(d, Committed, G),
           NEW X, X \subseteq Committed, Audited \subseteq X,
           Above("withdraw", Committed, ppc["withdraw"]) \subseteq X,
           \A o \in X \ Audited : \A m \in Above("melt", Committed, ppc["melt"]) :
              /\ Op[o].kind \in Charges /\ Revealed(m, Committed)
              /\ Op[o].kind = "melt" => row[m].id < row[o].id
              => m \in X
    PROVE  AllMade(d, X)
PROOF
<1> SUFFICES ASSUME NEW o \in Charged(d, X)
             PROVE  \E i \in X : Makes(i, Op[o].coin)
  BY DEF AllMade
<1>1. o \in Committed /\ o \in X /\ Op[o].kind \in Charges /\ Committed \subseteq Numbered
  BY CommittedInPlan DEF Charged
<1>2. Op[o].honest
  BY <1>1, NotSuspicious DEF Charged
<1>3. CASE o \in Audited
  BY <1>1, <1>2, <1>3 DEF AuditedInv
<1>4. CASE o \notin Audited
  <2>1. MadeFor(o, Committed)
    BY <1>1, <1>2 DEF IssueInv
  <2>2. CASE Withdrawn(Op[o].coin, Committed)
    <3>1. PICK i \in Of(Committed, "withdraw") : Op[i].coin = Op[o].coin
      BY <2>2 DEF Withdrawn
    <3>2. i \in X
      BY AuditSplit DEF Of, CoinKinds
    <3> QED
      BY <3>1, <3>2 DEF Makes, Of
  <2>3. ASSUME NEW m \in Of(Committed, "melt"), Op[m].fresh = Op[o].coin, Revealed(m, Committed),
               Op[o].kind = "melt" => row[m].id < row[o].id
        PROVE  \E i \in X : Makes(i, Op[o].coin)
    <3>1. m \in X
      <4>1. CASE m \in Audited
        BY <4>1
      <4>2. CASE m \notin Audited
        <5>1. m \in Above("melt", Committed, ppc["melt"])
          BY <4>2, AuditSplit DEF Of, CoinKinds, Spends
        <5> QED
          BY <1>1, <1>4, <2>3, <5>1
      <4> QED
        BY <4>1, <4>2
    <3> QED
      BY <2>3, <3>1 DEF Makes, Of
  <2> QED
    BY <2>1, <2>2, <2>3 DEF MadeFor
<1> QED
  BY <1>3, <1>4

\* The record that InfoOf begins with, but for the amount z of recoups.
StartOf(d, W, F, B, z) ==
    [Issue(dinfo[d], d, Cardinality(In(d, W)))
       EXCEPT !.in_db = TRUE, !.balance = @ + Refunded(In(d, F)) + Total(BackTo(d, B)),
              !.risk = @ + Refunded(In(d, F)), !.recoup = @ + z]

(* The record before the charges: the withdrawals and what comes back.     *)
LEMMA StartInfo ==
    ASSUME RowsInv, CoinMarks, NEW d \in Denoms,
           NEW W, W = Above("withdraw", Committed, ppc["withdraw"]),
           NEW B, B = Above("recoup_refresh", Committed, ppc["recoup_refresh"]),
           NEW F, In(d, F) = {}, NEW z, DenomOK(d, dinfo[d], Audited),
           NEW r, r = StartOf(d, W, F, B, z)
    PROVE  /\ IsInfo(r) /\ r.issued = Cardinality(Made(d, Audited \cup W)) /\ r.loss = 0
           /\ r.balance = Balanced(d, Total(Back(d, Committed)), Audited \cup W)
           /\ Audited \cap W = {}
PROOF
<1> DEFINE S == Committed
           A == Audited
<1>0. /\ A \subseteq S /\ S \subseteq plan /\ W \subseteq S /\ B \subseteq S
      /\ A \subseteq plan /\ W \subseteq plan /\ B \subseteq plan
  BY AuditSplit, CommittedInPlan
<1>1. A \cap W = {}
  BY <1>0, AuditSplit DEF CoinKinds
<1>2. In(d, W) = Made(d, W) /\ Charged(d, W) = {}
  <2>1. \A o \in W : Op[o].kind = "withdraw" /\ CoinOf(o) = Op[o].coin
    BY AuditSplit DEF CoinOf
  <2> QED
    BY <2>1 DEF In, Made, Charged, Charges
<1>3. Refunded(In(d, F)) = 0
  BY SumEmpty DEF Refunded
<1>4. /\ Back(d, S) = Back(d, A) \cup BackTo(d, B) /\ Back(d, A) \cap BackTo(d, B) = {}
      /\ Back(d, A) \subseteq plan /\ BackTo(d, B) \subseteq plan
  <2>1. \A o \in B : Op[o].kind = "recoup_refresh" /\ o \in S
    BY AuditSplit
  <2>2. \A o \in S : Op[o].kind = "recoup_refresh" => (o \in A <=> o \notin B)
    BY AuditSplit DEF CoinKinds, Spends
  <2> QED
    BY <1>0, <2>1, <2>2 DEF Back, BackTo, Of
<1>5. PICK ta, tb, ts : ta = Total(Back(d, A)) /\ tb = Total(BackTo(d, B)) /\ ts = Total(Back(d, S))
  OBVIOUS
<1>6. ta \in Int /\ tb \in Int /\ ts = ta + tb
  BY <1>4, <1>5, TotalInt, TotalUnion
<1>7. IsInfo(dinfo[d]) /\ dinfo[d].issued = Cardinality(Made(d, A)) /\ dinfo[d].loss = 0
      /\ dinfo[d].balance = Balanced(d, ta, A)
  BY <1>5 DEF DenomOK
<1>8. PICK n : n = Cardinality(Made(d, W))
  OBVIOUS
<1>9. /\ Cardinality(Made(d, A \cup W)) = Cardinality(Made(d, A)) + n
      /\ n \in Nat /\ Cardinality(Made(d, A)) \in Nat
      /\ Balanced(d, Balanced(d, ta, A), W) = Balanced(d, ta, A \cup W)
      /\ Balanced(d, ta, A) \in Int
  <2> HIDE DEF A
  <2>1. PICK b \in Int : b = ta
    BY <1>6
  <2>2. /\ Cardinality(Made(d, A \cup W)) = Cardinality(Made(d, A)) + Cardinality(Made(d, W))
        /\ Cardinality(Made(d, A)) \in Nat /\ Cardinality(Made(d, W)) \in Nat
        /\ Balanced(d, Balanced(d, b, A), W) = Balanced(d, b, A \cup W)
        /\ Balanced(d, b, A) \in Int
    BY ONLY RowsInv, d \in Denoms, b \in Int, <1>0, <1>1, BalancedUnion
  <2> QED
    BY <1>8, <2>1, <2>2
<1>10. PICK q : q = Issue(dinfo[d], d, n)
  OBVIOUS
<1>11. IsInfo(q) /\ q.issued = dinfo[d].issued + n /\ q.loss = dinfo[d].loss
       /\ q.balance = dinfo[d].balance + n * Denom[d].value
  BY <1>7, <1>9, <1>10, IssueFields
<1>12. PICK z0 \in Int : z0 = Refunded(In(d, F))
  BY <1>3
<1>13. IsInfo(r) /\ r.issued = q.issued /\ r.loss = q.loss /\ r.balance = (q.balance + 0) + tb
  <2>1. r = [q EXCEPT !.in_db = TRUE, !.balance = @ + z0 + tb, !.risk = @ + z0, !.recoup = @ + z]
    BY <1>2, <1>5, <1>8, <1>10, <1>12 DEF StartOf
  <2>2. DOMAIN r = DOMAIN q /\ r.issued = q.issued /\ r.loss = q.loss
        /\ r.balance = q.balance + z0 + tb
    BY ONLY <1>11, <2>1 DEF IsInfo, InfoFields
  <2>3. q.balance \in Int /\ q.issued \in Int /\ q.loss \in Int /\ DOMAIN q = InfoFields /\ z0 = 0
    BY <1>3, <1>11, <1>12 DEF IsInfo
  <2>4. r.balance = (q.balance + 0) + tb /\ r.balance \in Int
    BY ONLY <1>6, <2>2, <2>3
  <2> QED
    BY ONLY <2>2, <2>3, <2>4 DEF IsInfo
<1>14. r.balance = Balanced(d, ts, A \cup W)
  <2>1. PICK v, x, m, t : /\ v = Denom[d].value /\ x = Balanced(d, ta, A)
                       /\ m = Cardinality(Made(d, A \cup W)) /\ t = Total(Charged(d, A \cup W))
    OBVIOUS
  <2>2. v \in Nat /\ x \in Int /\ m \in Nat /\ t \in Int /\ n \in Nat
    <3>1. Charged(d, A \cup W) \subseteq plan
      BY <1>0 DEF Charged
    <3>2. Total(Charged(d, A \cup W)) \in Int
      BY <3>1, TotalInt
    <3> QED
      BY <1>9, <2>1, <3>2, DenomValue
  <2>3. r.balance = ((x + n * v) + 0) + tb
    BY <1>7, <1>11, <1>13, <2>1
  <2>4. Total({}) = 0
    BY SumEmpty DEF Total
  <2>5. Balanced(d, x, W) = (x + v * n) - 0
    BY <1>2, <1>8, <2>1, <2>4 DEF Balanced
  <2>6. Balanced(d, x, W) = (ta + v * m) - t
    BY <1>9, <2>1 DEF Balanced
  <2>7. Balanced(d, ts, A \cup W) = ((ta + tb) + v * m) - t
    BY <1>6, <2>1 DEF Balanced
  <2>8. n * v = v * n /\ v * n \in Nat /\ v * m \in Nat
    BY ONLY <2>2
  <2>9. (x + v * n) - 0 = (ta + v * m) - t
    BY ONLY <2>5, <2>6
  <2> DEFINE e == v * n
             f == v * m
  <2>10. n * v = e /\ e \in Nat /\ f \in Nat /\ (x + e) - 0 = (ta + f) - t
    BY ONLY <2>8, <2>9
  <2>11. r.balance = ((x + e) + 0) + tb /\ Balanced(d, ts, A \cup W) = ((ta + tb) + f) - t
    BY ONLY <2>3, <2>7, <2>10
  <2> HIDE DEF e, f
  <2>12. ((x + e) + 0) + tb = ((ta + tb) + f) - t
    BY ONLY <1>6, <2>2, <2>10
  <2> QED
    BY ONLY <2>11, <2>12
<1> QED
  BY <1>1, <1>5, <1>7, <1>9, <1>11, <1>13, <1>14

\* The record says what was made and charged in X, of all that came back.
Says(d, i, X) ==
    /\ IsInfo(i) /\ i.issued = Cardinality(Made(d, X)) /\ i.loss = 0
    /\ i.balance = Balanced(d, Total(Back(d, Committed)), X)

(* Charging rows T after rows X.                                           *)
LEMMA RollOn ==
    ASSUME RowsInv, RefundInv, CleanInv, NEW d \in Denoms, Regular(d),
           NEW X, NEW T, X \subseteq Committed, T \subseteq Committed, X \cap T = {},
           NEW b, Says(d, b, X),
           \A o \in T : Op[o].kind \in Charges /\ (Op[o].kind = "deposit" => DenomOf[Op[o].coin] = d),
           \A s \in SUBSET T : Older(s, T) => AllMade(d, X \cup s)
    PROVE  Says(d, Rolled(d, b, T), X \cup T)
PROOF
<1>1. Committed \subseteq Numbered /\ Numbered \subseteq plan /\ plan \subseteq Ops
      /\ X \subseteq plan /\ T \subseteq plan
  BY CommittedInPlan DEF RowsInv
<1>2. PICK k : k = Total(Back(d, Committed))
  OBVIOUS
<1>3. k \in Int
  <2>1. Back(d, Committed) \subseteq plan
    BY <1>1 DEF Back, BackTo, Of
  <2> QED
    BY <1>2, <2>1, TotalInt
<1>4. ASSUME NEW s \in SUBSET T
      PROVE  /\ Cardinality(Made(d, X \cup s)) = Cardinality(Made(d, X)) + Cardinality(Made(d, s))
             /\ Balanced(d, b.balance, s) = Balanced(d, k, X \cup s)
  <2>1. s \subseteq plan /\ X \cap s = {}
    BY <1>1
  <2>2. /\ Cardinality(Made(d, X \cup s)) = Cardinality(Made(d, X)) + Cardinality(Made(d, s))
        /\ Balanced(d, Balanced(d, k, X), s) = Balanced(d, k, X \cup s)
    BY ONLY RowsInv, d \in Denoms, <1>1, <1>3, <2>1, BalancedUnion
  <2>3. b.balance = Balanced(d, k, X)
    BY <1>2 DEF Says
  <2> QED
    BY <2>2, <2>3
<1>5. ASSUME NEW s \in SUBSET T, Older(s, T)
      PROVE  Balanced(d, b.balance, s) >= 0
  <2>1. X \cup s \subseteq Committed /\ AllMade(d, X \cup s)
    BY <1>5
  <2>2. PICK Y : Y = X \cup s
    OBVIOUS
  <2>3. Balanced(d, Total(Back(d, Committed)), Y) >= 0
    BY <2>1, <2>2, MadeCovers
  <2> QED
    BY <1>2, <1>4, <2>2, <2>3
<1>6. \A o \in T : row[o].amt \in Nat
  <2>1. \A o \in T : o \in Ops /\ o \in Numbered
    BY <1>1
  <2> QED
    BY <2>1, OpFacts DEF RefundInv, Charges
<1>7. IsInfo(b)
  BY DEF Says
<1>8. \A o \in T : /\ row[o].amt \in Nat /\ Op[o].kind \in Charges
                   /\ Op[o].kind = "deposit" => DenomOf[Op[o].coin] = d
  BY <1>6
<1>9. RollOK(d, b, T, Rolled(d, b, T))
  BY ONLY RowsInv, d \in Denoms, <1>1, <1>5, <1>7, <1>8, RollValue
<1>10. PICK r : r = Rolled(d, b, T)
  OBVIOUS
<1>11. /\ IsInfo(r) /\ r.issued = b.issued + Cardinality(Made(d, T))
       /\ r.loss = b.loss /\ r.balance = Balanced(d, b.balance, T)
  BY <1>9, <1>10 DEF RollOK
<1>12. b.issued = Cardinality(Made(d, X)) /\ b.loss = 0
  BY DEF Says
<1>13. T \in SUBSET T
  OBVIOUS
<1>14. r.issued = Cardinality(Made(d, X \cup T)) /\ r.loss = 0 /\ r.balance = Balanced(d, k, X \cup T)
  BY ONLY <1>4, <1>11, <1>12, <1>13
<1> QED
  BY <1>2, <1>10, <1>11, <1>14 DEF Says

(* The record after an audit.                                              *)
LEMMA AuditInfo ==
    ASSUME RowsInv, RefundInv, CleanInv, CoinMarks, IssueInv, AuditedInv, NEW d \in Denoms,
           NEW W, W = Above("withdraw", Committed, ppc["withdraw"]),
           NEW B, B = Above("recoup_refresh", Committed, ppc["recoup_refresh"]),
           NEW L, L = Above("melt", Committed, ppc["melt"]),
           NEW D, D = Above("deposit", Committed, ppc["deposit"]),
           NEW F, F \subseteq Of(Committed, "refund"), NEW Q,
           ~Suspicious(d, Committed, missed \cup Hanging(L, Committed)),
           DenomOK(d, dinfo[d], Audited)
    PROVE  DenomOK(d, InfoOf(d, W, F, B, Q, L \ Hanging(L, Committed), D),
                   {o \in Committed : Op[o].kind \in CoinKinds})
PROOF
<1> DEFINE S == Committed
           A == Audited
           H == Hanging(L, S)
           M == L \ H
           DD == In(d, D)
           all == {o \in S : Op[o].kind \in CoinKinds}
<1>1. /\ A \subseteq S /\ S \subseteq plan /\ plan \subseteq Ops
      /\ W \subseteq S /\ L \subseteq S /\ D \subseteq S /\ M \subseteq L /\ DD \subseteq D
      /\ \A o \in W : Op[o].kind = "withdraw"
      /\ \A o \in L : Op[o].kind = "melt"
      /\ \A o \in D : Op[o].kind = "deposit"
  BY AuditSplit, CommittedInPlan DEF RowsInv, In
<1>2. Regular(d) /\ In(d, F) = {}
  <2>1. Regular(d) /\ In(d, Of(S, "refund")) = {}
    BY NotSuspicious
  <2> QED
    BY <2>1 DEF In
<1>3. A \cap W = {} /\ A \cap M = {} /\ A \cap DD = {}
  BY <1>1, AuditSplit DEF CoinKinds, Spends
<1>4. W \cap M = {} /\ W \cap DD = {} /\ M \cap DD = {}
  BY <1>1
<1>5. \A o \in DD : DenomOf[Op[o].coin] = d
  BY <1>1 DEF In, CoinOf
<1>6. PICK z : z = Total(In(d, Q))
  OBVIOUS
<1>7. PICK start : start = StartOf(d, W, F, B, z)
  OBVIOUS
<1>8. Says(d, start, A \cup W)
  BY <1>2, <1>7, StartInfo DEF Says
<1>9. PICK r1 : r1 = Rolled(d, start, M)
  OBVIOUS
<1>10. PICK X1, X2, X3 : X1 = A \cup W /\ X2 = X1 \cup M /\ X3 = X2 \cup DD
  OBVIOUS
<1>11. /\ X1 \subseteq S /\ X2 \subseteq S /\ X3 \subseteq S /\ M \subseteq S /\ DD \subseteq S
       /\ X1 \cap M = {} /\ X2 \cap DD = {}
  BY <1>1, <1>3, <1>4, <1>10
<1>12. ASSUME NEW s \in SUBSET M, Older(s, M)
       PROVE  AllMade(d, X1 \cup s)
  <2>1. PICK Y : Y = X1 \cup s
    OBVIOUS
  <2>2. Y \subseteq S /\ A \subseteq Y /\ W \subseteq Y
    BY <1>10, <1>11, <2>1
  <2>3. ASSUME NEW o \in Y \ A, NEW m \in L, Op[o].kind \in Charges, Revealed(m, S),
               Op[o].kind = "melt" => row[m].id < row[o].id
        PROVE  m \in Y
    <3>1. o \in s /\ Op[o].kind = "melt"
      BY <1>1, <1>10, <2>1, <2>3 DEF Charges
    <3>2. m \in M
      BY <2>3 DEF Hanging
    <3> QED
      BY <1>12, <2>1, <2>3, <3>1, <3>2 DEF Older
  <2>4. AllMade(d, Y)
    <3> HIDE DEF A, S, H, M, DD
    <3>1. ~Suspicious(d, S, missed \cup H)
      BY DEF S, H
    <3> QED
      BY <2>2, <2>3, <3>1, MadeInside DEF A, S
  <2> QED
    BY <2>1, <2>4
<1>13. ASSUME NEW s \in SUBSET DD
       PROVE  AllMade(d, X2 \cup s)
  <2>1. PICK Y : Y = X2 \cup s
    OBVIOUS
  <2>2. Y \subseteq S /\ A \subseteq Y /\ W \subseteq Y
    BY <1>10, <1>11, <2>1
  <2>3. ASSUME NEW o \in Y \ A, NEW m \in L, Op[o].kind \in Charges, Revealed(m, S),
               Op[o].kind = "melt" => row[m].id < row[o].id
        PROVE  m \in Y
    <3>2. m \in M
      BY <2>3 DEF Hanging
    <3> QED
      BY <1>10, <2>1, <3>2
  <2>4. AllMade(d, Y)
    <3> HIDE DEF A, S, H, M, DD
    <3>1. ~Suspicious(d, S, missed \cup H)
      BY DEF S, H
    <3> QED
      BY <2>2, <2>3, <3>1, MadeInside DEF A, S
  <2> QED
    BY <2>1, <2>4
<1>14. Says(d, r1, X2)
  <2>1. \A o \in M : Op[o].kind \in Charges /\ (Op[o].kind = "deposit" => DenomOf[Op[o].coin] = d)
    BY <1>1 DEF Charges
  <2> HIDE DEF M
  <2> QED
    BY <1>2, <1>8, <1>9, <1>10, <1>11, <1>12, <2>1, RollOn
<1>15. Says(d, Rolled(d, r1, DD), X3)
  <2>1. \A o \in DD : Op[o].kind \in Charges /\ (Op[o].kind = "deposit" => DenomOf[Op[o].coin] = d)
    BY <1>1, <1>5 DEF Charges
  <2> HIDE DEF M, DD
  <2> QED
    BY <1>2, <1>10, <1>11, <1>13, <1>14, <2>1, RollOn
<1>16. InfoOf(d, W, F, B, Q, M, D) = Rolled(d, r1, DD)
  BY <1>6, <1>7, <1>9, InfoRolled DEF StartOf
<1>17. Made(d, all) = Made(d, X3) /\ Charged(d, all) = Charged(d, X3) /\ Back(d, all) = Back(d, S)
  <2>1. \A o \in H : o \in Ops /\ Op[o].kind = "melt" /\ Op[o].fresh \in Coins /\ Op[o].coin \in Coins
    BY <1>1, OpFacts DEF Hanging
  <2>2. \A o \in H : DenomOf[Op[o].fresh] # d /\ DenomOf[Op[o].coin] # d
    BY <2>1, NotSuspicious
  <2>3. \A o \in S : /\ Op[o].kind = "withdraw" => o \in A \cup W
                     /\ Op[o].kind = "melt" => o \in A \cup M \cup H
                     /\ Op[o].kind = "deposit" => o \in A \cup D
    BY AuditSplit DEF CoinKinds, Spends
  <2>4. X3 \subseteq all
    BY <1>1, <1>10, <1>11, AuditSplit DEF CoinKinds, Spends
  <2>5. \A o \in Made(d, all) : o \in X3
    BY <1>10, <2>2, <2>3 DEF Made
  <2>6. \A o \in Charged(d, all) : o \in X3
    <3>1. \A o \in D : CoinOf(o) = Op[o].coin
      BY <1>1 DEF CoinOf
    <3> QED
      BY <1>10, <2>2, <2>3, <3>1 DEF Charged, Charges, In
  <2>7. Back(d, all) = Back(d, S)
    BY DEF Back, BackTo, Of, CoinKinds, Spends
  <2> HIDE DEF all
  <2> QED
    BY <2>4, <2>5, <2>6, <2>7 DEF Made, Charged
<1> HIDE DEF M, DD, all
<1>18. PICK i : i = InfoOf(d, W, F, B, Q, M, D)
  OBVIOUS
<1>19. Says(d, i, X3)
  BY <1>15, <1>16, <1>18
<1>20. DenomOK(d, i, all)
  BY <1>17, <1>19 DEF DenomOK, Says, Balanced
<1> QED
  BY <1>18, <1>20 DEF M, all

---------------------------------------------------------------------------
(* Emergencies.                                                            *)

\* The rows that the coins helper finds, and what it does with them.
Found(k) == Above(k, Committed, ppc[k])
Unrevealed == Hanging(Found("melt"), Committed)
InfoNow(d) ==
    InfoOf(d, Found("withdraw"), Found("refund"), Found("recoup_refresh"),
           Found("recoup") \cup Found("recoup_refresh"), Found("melt") \ Unrevealed,
           Found("deposit"))
Untouched(d) ==
    /\ In(d, Found("withdraw") \cup Found("refund") \cup Found("recoup_refresh")
             \cup Found("recoup") \cup (Found("melt") \ Unrevealed) \cup Found("deposit")) = {}
    /\ BackTo(d, Found("recoup_refresh")) = {}
    /\ d \notin FreshDenoms(Found("melt"), Committed)

\* All rows that the coins helper can have found.
CoinRows == {o \in Committed : Op[o].kind \in CoinKinds}

(* What analyze_coins stores and reports.                                  *)
LEMMA CoinsRecord ==
    ASSUME Coins_
    PROVE  \/ ppc' = ppc /\ dinfo' = dinfo /\ missed' = missed /\ alarms' = alarms
           \/ /\ missed' = missed \cup Unrevealed
              /\ \A d \in Denoms :
                    \/ DenomExpired(d)
                    \/ dinfo'[d] = InfoNow(d)
                    \/ dinfo'[d] = dinfo[d] /\ Untouched(d)
              /\ \A a \in alarms' \ alarms : a[1] = "emergency" =>
                    /\ a[2] \in Denoms
                    /\ \/ EmergencyByCount(a[2], InfoNow(a[2]), Committed)
                       \/ EmergencyByAmount(a[2], InfoNow(a[2]))
PROOF
<1> DEFINE info == [d \in Denoms |-> InfoNow(d)]
           touched == {d \in Denoms : ~Untouched(d)}
           gone == {d \in touched : DenomExpired(d)}
           E == {d \in touched : \/ EmergencyByCount(d, info[d], Committed)
                                 \/ EmergencyByAmount(d, info[d])}
<1>0. AuditCoins
  BY DEF Coins_
<1>1. \/ ppc' = ppc /\ dinfo' = dinfo /\ missed' = missed /\ alarms' = alarms
      \/ /\ missed' = missed \cup Unrevealed
         /\ StoreDenominationBalances([d \in touched \ gone |-> info[d]])
         /\ \E X, Y, Z : Raise(Alarm("coin history", X) \cup Alarm("melt cost", Y)
                               \cup Alarm("not revoked", Z) \cup Alarm("emergency", E))
  BY <1>0 DEF AuditCoins, WithdrawalsAbove, RefundsAbove, RecoupRefreshAbove, RecoupAbove,
              RefreshesAbove, DepositsAbove, coinAuditVars, Found, Unrevealed, InfoNow, Untouched
<1>2. ASSUME StoreDenominationBalances([d \in touched \ gone |-> info[d]]), NEW d \in Denoms
      PROVE  \/ DenomExpired(d)
             \/ dinfo'[d] = InfoNow(d)
             \/ dinfo'[d] = dinfo[d] /\ Untouched(d)
  <2> HIDE DEF touched, gone
  <2>1. dinfo'[d] = IF d \in touched \ gone THEN info[d] ELSE dinfo[d]
    BY <1>2 DEF StoreDenominationBalances
  <2> QED
    BY <2>1 DEF touched, gone
<1>3. ASSUME NEW X, NEW Y, NEW Z, Raise(Alarm("coin history", X) \cup Alarm("melt cost", Y)
                               \cup Alarm("not revoked", Z) \cup Alarm("emergency", E)),
             NEW a \in alarms' \ alarms, a[1] = "emergency"
      PROVE  /\ a[2] \in Denoms
             /\ \/ EmergencyByCount(a[2], InfoNow(a[2]), Committed)
                \/ EmergencyByAmount(a[2], InfoNow(a[2]))
  <2>1. \/ a \in Alarm("coin history", X) \/ a \in Alarm("melt cost", Y)
        \/ a \in Alarm("not revoked", Z) \/ a \in Alarm("emergency", E)
    <3> HIDE DEF E
    <3> QED
      BY <1>3 DEF Raise
  <2>2. a \in Alarm("emergency", E)
    <3> HIDE DEF E
    <3>1. a \notin Alarm("coin history", X)
      <4> SUFFICES ASSUME a \in Alarm("coin history", X) PROVE FALSE
        OBVIOUS
      <4>1. a[1] = "coin history"
        BY ONLY a \in Alarm("coin history", X), AlarmIn, Zenon
      <4> QED
        BY <1>3, <4>1
    <3>2. a \notin Alarm("melt cost", Y)
      <4> SUFFICES ASSUME a \in Alarm("melt cost", Y) PROVE FALSE
        OBVIOUS
      <4>1. a[1] = "melt cost"
        BY ONLY a \in Alarm("melt cost", Y), AlarmIn, Zenon
      <4> QED
        BY <1>3, <4>1
    <3>3. a \notin Alarm("not revoked", Z)
      <4> SUFFICES ASSUME a \in Alarm("not revoked", Z) PROVE FALSE
        OBVIOUS
      <4>1. a[1] = "not revoked"
        BY ONLY a \in Alarm("not revoked", Z), AlarmIn, Zenon
      <4> QED
        BY <1>3, <4>1
    <3> QED
      BY ONLY <2>1, <3>1, <3>2, <3>3
  <2>3. a[2] \in E
    <3> HIDE DEF E
    <3> QED
      BY ONLY <2>2, AlarmIn, Zenon
  <2> QED
    BY <2>3
<1> HIDE DEF info, touched, gone, E
<1> QED
  BY <1>1, <1>2, <1>3

(* The coins helper passes all rows that it can find.                      *)
LEMMA CoinsPassed ==
    ASSUME RowsInv, CoinMarks, Coins_,
           ~(ppc' = ppc /\ dinfo' = dinfo /\ missed' = missed /\ alarms' = alarms)
    PROVE  Audited' = CoinRows
PROOF
<1>0. row' = row /\ plan' = plan /\ Committed' = Committed /\ Committed \subseteq plan
  BY CommittedInPlan DEF Coins_, bookVars, Committed
<1>1. \A k \in CoinKinds : ppc'[k] = MarkAfter(Found(k), ppc[k])
  BY CoinsEffect DEF Found
<1>2. \A k \in CoinKinds :
          LET n == MarkAfter(Found(k), ppc[k])
          IN MarkOK(k, n) /\ Passed(k, n) = Of(Committed, k)
  BY MarkAudit DEF CoinMarks, Found
<1>3. \A k \in CoinKinds : Passed(k, ppc'[k]) = Of(Committed, k)
  BY <1>1, <1>2
<1>4. Audited' = {o \in plan : Op[o].kind \in CoinKinds /\ o \in Passed(Op[o].kind, ppc'[Op[o].kind])}
  BY <1>0 DEF Audited, Passed, Of
<1> QED
  BY <1>0, <1>3, <1>4 DEF CoinRows, Of

(* The charged coins of all rows were made in them.                        *)
LEMMA RowsMade ==
    ASSUME RowsInv, IssueInv, NEW o \in CoinRows, Op[o].kind \in Charges, Op[o].honest
    PROVE  \E i \in CoinRows : Makes(i, Op[o].coin)
PROOF
<1>1. o \in Numbered
  BY CommittedInPlan DEF CoinRows
<1>2. MadeFor(o, Committed)
  BY <1>1 DEF IssueInv
<1> QED
  BY <1>2 DEF MadeFor, Withdrawn, Of, CoinRows, CoinKinds, Spends, Makes

(* A record that no new row concerns.                                      *)
LEMMA UntouchedOK ==
    ASSUME RowsInv, CoinMarks, NEW d \in Denoms, Untouched(d),
           ~Suspicious(d, Committed, missed \cup Unrevealed),
           NEW i, DenomOK(d, i, Audited)
    PROVE  DenomOK(d, i, CoinRows)
PROOF
<1>1. Committed \subseteq plan /\ plan \subseteq Ops
  BY CommittedInPlan DEF RowsInv
<1>2. Audited \subseteq CoinRows
  BY AuditSplit DEF CoinRows
<1>3. ASSUME NEW o \in CoinRows, o \notin Audited
      PROVE  o \notin Made(d, CoinRows) /\ o \notin Charged(d, CoinRows) /\ o \notin Back(d, CoinRows)
  <2>1. PICK k : k = Op[o].kind
    OBVIOUS
  <2>2. k \in CoinKinds /\ o \in Committed /\ o \in Found(k) /\ o \in Ops
    BY <1>1, <1>3, <2>1, AuditSplit DEF CoinRows, Found
  <2>3. CASE k = "withdraw"
    <3>1. DenomOf[Op[o].coin] # d
      BY <2>1, <2>2, <2>3 DEF Untouched, In, CoinOf
    <3> QED
      BY <2>1, <2>3, <3>1 DEF Made, Charged, Charges, Back, BackTo, Of
  <2>4. CASE k = "deposit"
    <3>1. DenomOf[Op[o].coin] # d
      BY <2>1, <2>2, <2>4 DEF Untouched, In, CoinOf
    <3> QED
      BY <2>1, <2>4, <3>1 DEF Made, Charged, Charges, Back, BackTo, Of
  <2>5. CASE k = "recoup"
    BY <2>1, <2>5 DEF Made, Charged, Charges, Back, BackTo, Of
  <2>6. CASE k = "recoup_refresh"
    <3>1. o \notin BackTo(d, Found("recoup_refresh"))
      BY DEF Untouched
    <3> QED
      BY <2>1, <2>2, <2>6, <3>1 DEF Made, Charged, Charges, Back, BackTo, Of
  <2>7. CASE k = "melt"
    <3>0. Op[o].coin \in Coins /\ Op[o].fresh \in Coins
      BY <2>1, <2>2, <2>7, OpFacts
    <3>1. CASE o \in Unrevealed
      <4>1. o \in missed \cup Unrevealed
        BY <3>1
      <4>2. DenomOf[Op[o].coin] # d /\ DenomOf[Op[o].fresh] # d
        <5>1. PICK G : G = missed \cup Unrevealed
          OBVIOUS
        <5> QED
          BY <3>0, <4>1, <5>1, NotSuspicious
      <4> QED
        BY <2>1, <2>7, <4>2 DEF Made, Charged, Charges, Back, BackTo, Of
    <3>2. CASE o \notin Unrevealed
      <4>1. DenomOf[Op[o].coin] # d
        BY <2>1, <2>2, <2>7, <3>2 DEF Untouched, In, CoinOf
      <4>2. DenomOf[Op[o].fresh] # d
        BY <2>2, <2>7, <3>2 DEF Untouched, FreshDenoms, Unrevealed
      <4> QED
        BY <2>1, <2>7, <4>1, <4>2 DEF Made, Charged, Charges, Back, BackTo, Of
    <3> QED
      BY <3>1, <3>2
  <2> QED
    BY <2>2, <2>3, <2>4, <2>5, <2>6, <2>7 DEF CoinKinds, Spends
<1>4. /\ Made(d, CoinRows) = Made(d, Audited) /\ Charged(d, CoinRows) = Charged(d, Audited)
      /\ Back(d, CoinRows) = Back(d, Audited)
  BY <1>2, <1>3 DEF Made, Charged, Back, BackTo, Of
<1> QED
  BY <1>4 DEF DenomOK, Balanced

(* A coin that the exchange knows was made.                                *)
LEMMA KnownMade ==
    ASSUME RowsInv, IssueInv, GroundsInv, NEW d, NEW G, ~Suspicious(d, Committed, G),
           NEW c \in KnownCoins(Committed), DenomOf[c] = d
    PROVE  \E i \in CoinRows : Makes(i, c)
PROOF
<1>1. PICK o \in Committed : Op[o].kind \in {"deposit", "melt", "recoup", "recoup_refresh"}
                             /\ CoinOf(o) = c
  BY DEF KnownCoins
<1>2. o \in Numbered /\ Op[o].coin = c /\ o \in CoinRows
  BY <1>1, CommittedInPlan DEF CoinOf, CoinRows, CoinKinds, Spends
<1>3. CASE Op[o].kind \in Charges
  <2>1. Op[o].honest
    BY <1>1, <1>2, <1>3, NotSuspicious DEF Charged
  <2> QED
    BY <1>2, <1>3, <2>1, RowsMade
<1>4. CASE Op[o].kind = "recoup"
  <2>1. Withdrawn(c, Committed)
    BY <1>2, <1>4 DEF IssueInv
  <2> QED
    BY <2>1 DEF Withdrawn, Of, CoinRows, CoinKinds, Makes
<1>5. CASE Op[o].kind = "recoup_refresh"
  <2>1. Refreshed(c, Committed)
    BY <1>2, <1>5 DEF GroundsInv, Of
  <2> QED
    BY <2>1 DEF Refreshed, Of, CoinRows, CoinKinds, Spends, Makes
<1> QED
  BY <1>1, <1>3, <1>4, <1>5 DEF Charges

(* The new record, and the two reports about it.                           *)
LEMMA NoEmergency ==
    ASSUME RowsInv, RefundInv, GroundsInv, CleanInv, CoinMarks, IssueInv, AuditedInv,
           NEW d \in Denoms, ~Suspicious(d, Committed, missed \cup Unrevealed),
           DenomOK(d, dinfo[d], Audited)
    PROVE  /\ DenomOK(d, InfoNow(d), CoinRows)
           /\ ~EmergencyByCount(d, InfoNow(d), Committed)
           /\ ~EmergencyByAmount(d, InfoNow(d))
PROOF
<1>1. DenomOK(d, InfoNow(d), CoinRows)
  <2>1. Found("refund") \subseteq Of(Committed, "refund")
    BY DEF Found, Above
  <2>2. PICK W, B, L, D, F, Q : /\ W = Found("withdraw") /\ B = Found("recoup_refresh")
                             /\ L = Found("melt") /\ D = Found("deposit") /\ F = Found("refund")
                             /\ Q = Found("recoup") \cup Found("recoup_refresh")
    OBVIOUS
  <2>3. /\ W = Above("withdraw", Committed, ppc["withdraw"])
        /\ B = Above("recoup_refresh", Committed, ppc["recoup_refresh"])
        /\ L = Above("melt", Committed, ppc["melt"])
        /\ D = Above("deposit", Committed, ppc["deposit"])
        /\ F \subseteq Of(Committed, "refund")
        /\ ~Suspicious(d, Committed, missed \cup Hanging(L, Committed))
    BY <2>1, <2>2 DEF Found, Unrevealed
  <2>4. DenomOK(d, InfoOf(d, W, F, B, Q, L \ Hanging(L, Committed), D),
                   {o \in Committed : Op[o].kind \in CoinKinds})
    BY ONLY RowsInv, RefundInv, CleanInv, CoinMarks, IssueInv, AuditedInv, d \in Denoms,
            DenomOK(d, dinfo[d], Audited), <2>3, AuditInfo
  <2> QED
    BY <2>2, <2>4 DEF InfoNow, Unrevealed, CoinRows
<1>2. PICK K : K = {c \in KnownCoins(Committed) : DenomOf[c] = d}
  OBVIOUS
<1>3. \A c \in K : DenomOf[c] = d /\ \E i \in CoinRows : Makes(i, c)
  BY <1>2, KnownMade
<1>4. CoinRows \subseteq plan
  BY CommittedInPlan DEF CoinRows
<1>5. /\ Cardinality(K) \in Nat /\ Cardinality(Made(d, CoinRows)) \in Nat
      /\ Cardinality(K) <= Cardinality(Made(d, CoinRows))
  BY ONLY RowsInv, <1>3, <1>4, CoinsMade
<1>6. PICK x, y, i : x = Cardinality(K) /\ y = Cardinality(Made(d, CoinRows)) /\ i = InfoNow(d)
  OBVIOUS
<1>7. i.issued = y /\ i.loss = 0 /\ dinfo[d].loss = 0
  BY <1>1, <1>6 DEF DenomOK
<1>8. ~(i.issued < x) /\ ~(i.loss > dinfo[d].loss)
  BY ONLY <1>5, <1>6, <1>7
<1> QED
  BY <1>1, <1>2, <1>6, <1>8 DEF EmergencyByCount, EmergencyByAmount

\* Time is a number; an emergency that was reported has its reason.
TimeInv == now \in Nat
ReasonInv == \A a \in alarms : a[1] = "emergency" => Suspicious(a[2], Committed, missed)

(* What is suspicious stays suspicious.                                    *)
LEMMA SuspicionStays ==
    ASSUME NEW d, NEW S, NEW T, S \subseteq T, NEW G, NEW H, G \subseteq H, Suspicious(d, S, G)
    PROVE  Suspicious(d, T, H)
PROOF
  BY DEF Suspicious, RowsOf

(* Time does not go back.                                                  *)
LEMMA TimeGoesOn ==
    ASSUME TimeInv, [Next]_vars
    PROVE  /\ TimeInv'
           /\ \A d \in Denoms : DenomExpired(d) => DenomExpired(d)'
PROOF
<1>1. now' = now \/ now' = now + 1
  <2>1. BooksNext => now' = now \/ now' = now + 1
    BY DEF BooksNext, Insert, Commit, BankCredit, Steal, BankDebit, Tick
  <2> QED
    BY <2>1 DEF Next, Exchange, Confirm, Reserves_, Coins_, Aggregation_, Deposits_, Wire_,
                Fails, bookVars, vars
<1>2. \A d \in Denoms : Denom[d].expire_deposit + DepositGrace \in Nat
  BY CoinsAssumption DEF Denoms
<1>3. now \in Nat
  BY DEF TimeInv
<1>4. now' \in Nat /\ \A n \in Nat : now > n => now' > n
  BY ONLY <1>1, <1>3
<1> QED
  BY <1>2, <1>4 DEF TimeInv, DenomExpired

(* What a record says stays true while its rows stay.                      *)
LEMMA RecordStays ==
    ASSUME RowsInv, plan' = plan, NEW A, A \subseteq plan, \A o \in A : row'[o] = row[o],
           NEW d, NEW i, DenomOK(d, i, A)
    PROVE  DenomOK(d, i, A)'
PROOF
<1>1. Charged(d, A) \subseteq A /\ Back(d, A) \subseteq A
  BY DEF Charged, Back, BackTo, Of
<1>2. \A T \in SUBSET A : SumFunctionOnSet(AmountIn', T) = SumFunctionOnSet(AmountIn, T)
  <2>1. ASSUME NEW T \in SUBSET A
        PROVE  SumFunctionOnSet(AmountIn', T) = SumFunctionOnSet(AmountIn, T)
    <3>1. T \subseteq plan /\ \A o \in T : row'[o] = row[o]
      OBVIOUS
    <3> QED
      BY ONLY RowsInv, plan' = plan, <3>1, TotalKept
  <2> QED
    BY <2>1
<1>3. PICK C, B : C = Charged(d, A) /\ B = Back(d, A)
  OBVIOUS
<1>4. Total(C)' = Total(C) /\ Total(B)' = Total(B)
  BY <1>1, <1>2, <1>3 DEF Total
<1>5. Charged(d, A)' = C /\ Made(d, A)' = Made(d, A)
  BY <1>3 DEF Charged, Made
<1>6. Back(d, A)' = B
  BY <1>3 DEF Back, BackTo, Of, OldCoinOf, MeltOf
<1>7. Total(Charged(d, A))' = Total(Charged(d, A)) /\ Total(Back(d, A))' = Total(Back(d, A))
  BY <1>3, <1>4, <1>5, <1>6 DEF Total
<1> QED
  BY <1>5, <1>7 DEF DenomOK, IsInfo, Balanced, Total

(* The steps of everything but the coins helper.                           *)
LEMMA OthersDenom ==
    ASSUME RowsInv, MaxOpen = 1, [Next]_vars, CoinMarks, TimeInv, AuditedInv, DenomInv,
           ppc' = ppc, dinfo' = dinfo, missed' = missed
    PROVE  AuditedInv' /\ DenomInv'
PROOF
<1>1. /\ Audited' = Audited /\ Audited \subseteq plan
      /\ \A o \in Audited : row'[o] = row[o]
  BY AuditedStays
<1>2. plan' = plan /\ Committed \subseteq Committed'
  BY CommittedKept
<1>3. AuditedInv'
  BY <1>1 DEF AuditedInv, Makes
<1>4. ASSUME NEW d \in Denoms, ~Suspicious(d, Committed, missed)', ~DenomExpired(d)'
      PROVE  DenomOK(d, dinfo[d], Audited)'
  <2>1. ~Suspicious(d, Committed', missed')
    BY <1>4 DEF Suspicious, RowsOf, CoinOf
  <2>2. ~Suspicious(d, Committed, missed)
    BY <1>2, <2>1, SuspicionStays
  <2>3. ~DenomExpired(d)
    BY <1>4, TimeGoesOn
  <2>4. PICK A, i : A = Audited /\ i = dinfo[d]
    OBVIOUS
  <2>5. DenomOK(d, i, A)
    BY <2>2, <2>3, <2>4 DEF DenomInv
  <2>6. DenomOK(d, i, A)'
    BY <1>1, <1>2, <2>4, <2>5, RecordStays
  <2>7. dinfo'[d] = i /\ Audited' = A
    BY <1>1, <2>4
  <2> QED
    BY <2>6, <2>7 DEF DenomOK, IsInfo, Balanced, Back, BackTo, Of, Charged, Made
<1> QED
  BY <1>3, <1>4 DEF DenomInv, Denoms

(* A step of the coins helper.                                             *)
LEMMA AuditDenom ==
    ASSUME RowsInv, RefundInv, GroundsInv, CleanInv, CoinMarks, IssueInv, MaxOpen = 1,
           TimeInv, AuditedInv, DenomInv, ReasonInv, Coins_
    PROVE  AuditedInv' /\ DenomInv' /\ ReasonInv'
PROOF
<1>0. row' = row /\ plan' = plan /\ Committed' = Committed /\ now' = now
  BY DEF Coins_, bookVars, Committed
<1>1. \A d : DenomExpired(d)' = DenomExpired(d)
  BY <1>0 DEF DenomExpired
<1>2. \A d : Suspicious(d, Committed, missed)' = Suspicious(d, Committed, missed')
  BY <1>0 DEF Suspicious, RowsOf, CoinOf
<1>3. CASE ppc' = ppc /\ dinfo' = dinfo /\ missed' = missed /\ alarms' = alarms
  <2>1. [Next]_vars
    BY DEF Next
  <2>2. AuditedInv' /\ DenomInv'
    BY <1>3, <2>1, OthersDenom
  <2> QED
    BY <1>2, <1>3, <2>2 DEF ReasonInv
<1>4. CASE ~(ppc' = ppc /\ dinfo' = dinfo /\ missed' = missed /\ alarms' = alarms)
  <2>1. /\ missed' = missed \cup Unrevealed
        /\ \A d \in Denoms :
              \/ DenomExpired(d)
              \/ dinfo'[d] = InfoNow(d)
              \/ dinfo'[d] = dinfo[d] /\ Untouched(d)
        /\ \A a \in alarms' \ alarms : a[1] = "emergency" =>
              /\ a[2] \in Denoms
              /\ \/ EmergencyByCount(a[2], InfoNow(a[2]), Committed)
                 \/ EmergencyByAmount(a[2], InfoNow(a[2]))
    BY <1>4, CoinsRecord
  <2>2. Audited' = CoinRows
    BY <1>4, CoinsPassed
  <2>3. AuditedInv'
    BY <2>2, RowsMade DEF AuditedInv, Makes
  <2>4. ASSUME NEW d \in Denoms, ~Suspicious(d, Committed, missed'), ~DenomExpired(d)
        PROVE  /\ DenomOK(d, InfoNow(d), CoinRows)
               /\ ~EmergencyByCount(d, InfoNow(d), Committed)
               /\ ~EmergencyByAmount(d, InfoNow(d))
               /\ DenomOK(d, dinfo'[d], CoinRows)
    <3>1. ~Suspicious(d, Committed, missed \cup Unrevealed)
      BY <2>1, <2>4
    <3>2. ~Suspicious(d, Committed, missed)
      BY <3>1, SuspicionStays
    <3>3. DenomOK(d, dinfo[d], Audited)
      BY <2>4, <3>2 DEF DenomInv
    <3>4. /\ DenomOK(d, InfoNow(d), CoinRows)
          /\ ~EmergencyByCount(d, InfoNow(d), Committed)
          /\ ~EmergencyByAmount(d, InfoNow(d))
      BY <3>1, <3>3, NoEmergency
    <3>5. Untouched(d) => DenomOK(d, dinfo[d], CoinRows)
      BY <3>1, <3>3, UntouchedOK
    <3> QED
      BY <2>1, <2>4, <3>4, <3>5
  <2>5. DenomInv'
    <3>1. ASSUME NEW d \in Denoms, ~Suspicious(d, Committed, missed)', ~DenomExpired(d)'
          PROVE  DenomOK(d, dinfo[d], Audited)'
      <4>1. DenomOK(d, dinfo'[d], CoinRows)
        BY <1>1, <1>2, <2>4, <3>1
      <4>2. PICK A, i : A = CoinRows /\ i = dinfo'[d]
        OBVIOUS
      <4>3. CoinRows \subseteq plan
        BY CommittedInPlan DEF CoinRows
      <4>4. DenomOK(d, i, A)'
        BY <1>0, <4>1, <4>2, <4>3, RecordStays
      <4> QED
        BY <2>2, <4>2, <4>4 DEF DenomOK, IsInfo, Balanced, Back, BackTo, Of, Charged, Made
    <3> QED
      BY <3>1 DEF DenomInv, Denoms
  <2>6. ASSUME NEW a \in alarms', a[1] = "emergency"
        PROVE  Suspicious(a[2], Committed, missed')
    <3>1. CASE a \in alarms
      <4>1. Suspicious(a[2], Committed, missed)
        BY <2>6, <3>1 DEF ReasonInv
      <4> QED
        BY <2>1, <4>1, SuspicionStays
    <3>2. CASE a \notin alarms
      <4>1. /\ a[2] \in Denoms
            /\ \/ EmergencyByCount(a[2], InfoNow(a[2]), Committed)
               \/ EmergencyByAmount(a[2], InfoNow(a[2]))
        BY <2>1, <2>6, <3>2
      <4>2. ~DenomExpired(a[2])
        BY <4>1 DEF EmergencyByCount, EmergencyByAmount
      <4> QED
        BY <2>4, <4>1, <4>2
    <3> QED
      BY <3>1, <3>2
  <2>7. ReasonInv'
    BY <1>2, <2>6 DEF ReasonInv
  <2> QED
    BY <2>3, <2>5, <2>7
<1> QED
  BY <1>3, <1>4

(* Every step keeps the records right and the emergencies with a reason.   *)
LEMMA NextDenom ==
    ASSUME RowsInv, RefundInv, GroundsInv, CleanInv, CoinMarks, IssueInv, MaxOpen = 1,
           TimeInv, AuditedInv, DenomInv, ReasonInv, [Next]_vars
    PROVE  AuditedInv' /\ DenomInv' /\ ReasonInv'
PROOF
<1>1. CASE Coins_
  BY <1>1, AuditDenom
<1>2. CASE ~Coins_
  <2>1. ppc' = ppc /\ dinfo' = dinfo /\ missed' = missed
    BY <1>2 DEF Next, Exchange, Confirm, Reserves_, Aggregation_, Wire_, Deposits_,
                  Fails, vars, auditorVars, coinAuditVars
  <2>2. AuditedInv' /\ DenomInv'
    BY <2>1, OthersDenom
  <2>3. \A a \in alarms' : a[1] = "emergency" => a \in alarms
    BY <1>2, ReserveAdds, AggregationAdds, WireAdds, DepositAdds, OtherAdds
       DEF Next, Adds, ReserveAlarms, AggregationAlarms, AllWireAlarms, WireAlarms
  <2>4. Committed \subseteq Committed'
    BY CommittedKept
  <2>5. ASSUME NEW a \in alarms', a[1] = "emergency"
        PROVE  Suspicious(a[2], Committed, missed)'
    <3>1. Suspicious(a[2], Committed, missed)
      BY <2>3, <2>5 DEF ReasonInv
    <3>2. Suspicious(a[2], Committed', missed')
      BY <2>1, <2>4, <3>1, SuspicionStays
    <3> QED
      BY <3>2 DEF Suspicious, RowsOf, CoinOf
  <2> QED
    BY <2>2, <2>5 DEF ReasonInv
<1> QED
  BY <1>1, <1>2

(* Before the first audit the records are empty.                           *)
LEMMA InitDenom == Init /\ RowsInv => TimeInv /\ DenomInv /\ ReasonInv
PROOF
<1> SUFFICES ASSUME Init, RowsInv PROVE TimeInv /\ DenomInv /\ ReasonInv
  OBVIOUS
<1>1. TimeInv /\ ReasonInv
  BY DEF Init, BooksInit, LibInit, TimeInv, ReasonInv
<1>2. ppc = [withdraw |-> 1, refund |-> 1, recoup_refresh |-> 1, recoup |-> 1,
              melt |-> 1, deposit |-> 1]
      /\ dinfo = [d \in Denoms |-> NoDenomInfo]
  BY DEF Init, AuditCoinsInit
<1>3. \A k \in CoinKinds : ppc[k] = 1
  BY <1>2 DEF CoinKinds, Spends
<1>4. Audited = {}
  BY <1>3, FirstMark DEF Audited
<1>5. ASSUME NEW d \in Denoms
      PROVE  DenomOK(d, dinfo[d], {})
  <2>1. Made(d, {}) = {} /\ Charged(d, {}) = {} /\ Back(d, {}) = {}
    BY DEF Made, Charged, Back, BackTo, Of
  <2>2. Total({}) = 0 /\ Cardinality({}) = 0
    BY SumEmpty, FS_EmptySet DEF Total
  <2>3. PICK v : v = Denom[d].value
    OBVIOUS
  <2>4. v \in Nat
    BY <2>3, DenomValue
  <2>5. (0 + v * 0) - 0 = 0
    BY ONLY <2>4
  <2>6. Balanced(d, 0, {}) = 0
    BY <2>1, <2>2, <2>3, <2>5 DEF Balanced
  <2>7. /\ dinfo[d].issued = 0 /\ dinfo[d].loss = 0 /\ dinfo[d].balance = 0
        /\ DOMAIN dinfo[d] = InfoFields
    BY <1>2 DEF NoDenomInfo, InfoFields
  <2>8. IsInfo(dinfo[d])
    BY <2>7 DEF IsInfo
  <2>9. Balanced(d, Total(Back(d, {})), {}) = 0 /\ Cardinality(Made(d, {})) = 0
    BY <2>1, <2>2, <2>6
  <2> QED
    BY <2>7, <2>8, <2>9 DEF DenomOK
<1> QED
  BY <1>1, <1>4, <1>5 DEF DenomInv

\* Why the coins helper finds no more than was issued.
EmergencyInv ==
    /\ RowsInv /\ BalanceInv
    /\ RefundInv /\ WireInv
    /\ GroundsInv /\ CleanInv
    /\ CoinMarks /\ OverspendInv
    /\ IssueInv /\ AuditedInv
    /\ TimeInv /\ DenomInv /\ ReasonInv

(* Whatever the exchange does, an emergency that analyze_coins reports for *)
(* a denomination, by count or by amount, has one of three reasons: a coin *)
(* of it in a row that broke the rules, a melt of or into a coin of it     *)
(* that was audited before it was revealed, or a refund of a coin of it.   *)
(* Without them the record counts each coin that was issued and its        *)
(* balance covers every charge.                                            *)
THEOREM EmergenciesAlwaysHaveReason ==
    ASSUME MaxOpen = 1
    PROVE  Spec => []EmergencyHasReason
PROOF
<1>1. Init => EmergencyInv
  BY InitBooks, InitRefund, InitGrounds, InitOverspend, InitIssue, InitDenom
     DEF EmergencyInv, SpendInv
<1>2. EmergencyInv /\ [Next]_vars => EmergencyInv'
  <2> SUFFICES ASSUME EmergencyInv, [Next]_vars PROVE EmergencyInv'
    OBVIOUS
  <2>1. RowsInv' /\ BalanceInv'
    BY NextBooks DEF EmergencyInv
  <2>2. RefundInv' /\ WireInv'
    BY NextRefund, NextWire DEF EmergencyInv
  <2>3. GroundsInv' /\ CleanInv'
    BY NextGrounds, NextClean DEF EmergencyInv
  <2>4. CoinMarks' /\ OverspendInv'
    BY NextOverspend DEF EmergencyInv
  <2>5. IssueInv' /\ TimeInv'
    BY NextIssue, TimeGoesOn DEF EmergencyInv
  <2>6. AuditedInv' /\ DenomInv' /\ ReasonInv'
    BY NextDenom DEF EmergencyInv
  <2> QED
    BY <2>1, <2>2, <2>3, <2>4, <2>5, <2>6 DEF EmergencyInv
<1>3. EmergencyInv => EmergencyHasReason
  BY DEF EmergencyInv, ReasonInv, Suspicious, EmergencyHasReason
<1> QED
  BY <1>1, <1>2, <1>3, PTL DEF Spec
=============================================================================
