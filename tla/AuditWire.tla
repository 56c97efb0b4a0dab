----------------------------- MODULE AuditWire -----------------------------
(***************************************************************************)
(* taler-helper-auditor-wire: the bank's credits are the incoming          *)
(* transfers of the books, and its debits are the wire transfers and the   *)
(* closed reserves of the books.                                           *)
(*                                                                         *)
(* The helper reads the books in one transaction, but asks the bank for    *)
(* the history of each account while the transaction is open: the bank     *)
(* may be ahead of what the transaction sees.                              *)
(***************************************************************************)
EXTENDS AuditLib

CONSTANTS
    WireGrace,    \* GRACE_PERIOD
    AccountList   \* the accounts in the order of wa_head

\* The exchange has an account; the list has each of them once.
ASSUME WireAssumption ==
    /\ WireGrace \in Nat
    /\ AccountList \in Seq(Accounts) /\ AccountList # <<>>
    /\ Range(AccountList) = Accounts
    /\ \A i, j \in DOMAIN AccountList : AccountList[i] = AccountList[j] => i = j

VARIABLES
    wpp,        \* wire_auditor_progress and wire_auditor_account_progress
    w,          \* the helper's variables
    disturbed   \* history: transfers that an audit found in the books and not
                \* at the bank, or the other way round

wireAuditVars == <<wpp, w, disturbed>>

\* pp: working copy of the progress; snap: the rows that the transaction sees;
\* todo: accounts to be done; in_map: rows not found at the bank yet;
\* closures: reserve_closures.
IdleWire == [phase |-> "idle", pp |-> wpp, snap |-> {}, todo |-> <<>>,
             in_map |-> {}, closures |-> {}]

AuditWireInit ==
    /\ wpp = [account |-> [a \in Accounts |-> [in |-> 1, out |-> 1, in_off |-> 0,
                                               out_off |-> 0]],
              close |-> 1, time |-> 0]
    /\ w = IdleWire
    /\ disturbed = {}

\* begin_transaction, with reserve_closed_cb.
BeginTransaction ==
    LET closed == ReserveClosedAbove(Committed, wpp.close)
    IN /\ helper = "wire" /\ w.phase = "idle"
       /\ w' = [phase |-> "credits", snap |-> Committed, todo |-> AccountList,
                pp |-> [wpp EXCEPT !.close = MarkAfter(closed, @)],
                in_map |-> {}, closures |-> closed]
       /\ UNCHANGED <<libVars, wpp, disturbed>>

\* The bank's history of an account after an offset.
History(h, a, off) == {i \in DOMAIN h : i > off /\ Op[h[i]].account = a}
LastOf(H, off) == Max({off} \cup H)

\* The accounts that are left; after the last credits come the debits.
NextAccount(v) ==
    IF Len(v.todo) > 1 THEN [v EXCEPT !.todo = Tail(@)]
    ELSE IF v.phase = "credits" THEN [v EXCEPT !.phase = "debits", !.todo = AccountList]
    ELSE [v EXCEPT !.phase = "conclude", !.todo = <<>>]

\* reserve_in_cb: the incoming transfers of the books since the last audit.
ReserveInRows(a) == ReservesInAboveByAccount(w.snap, w.pp.account[a].in, a)

\* complain_in_not_found, after the last credit of the bank.
InNotFound(left, ends) == IF ends = {} THEN left ELSE {}

\* process_credits, reserve_in_cb and history_credit_cb for one account.  A
\* credit that is not in the map ends the account: the exchange has not seen
\* it yet.  What is left in the map is then neither complained about nor
\* removed.
ProcessCredits ==
    LET a == Head(w.todo)
        p == w.pp.account[a]
        rows == ReserveInRows(a)
        map == w.in_map \cup rows
        new == History(credits, a, p.in_off)
        ends == {i \in new : credits[i] \notin map}
        found == {i \in new : \A j \in ends : i < j}
        left == map \ {credits[i] : i \in found}
        v == [w EXCEPT !.in_map = IF ends = {} THEN {} ELSE left,
                       !.pp.account[a].in = MarkAfter(rows, @),
                       !.pp.account[a].in_off = LastOf(found, @)]
    IN /\ w.phase = "credits"
       /\ w' = NextAccount(v)
       /\ Raise(Alarm("credit not at bank", InNotFound(left, ends)))
       /\ UNCHANGED <<helper, wpp, disturbed>>

\* (Faulty: closed reserves do not explain debits.)
NeverExplained(o, closures) == FALSE

\* check_rc_matches: the closed reserve that explains a debit.  The amount in
\* the books is not rounded.
ClosureAmount(o) == row[o].amt - ClosingFeeOf(row[o].amt)
ExplainedBy(o, closures) == o \in closures /\ DebitAmount(o) = ClosureAmount(o)

\* complain_out_not_found
Unjustified(out, rows, closures) ==
    {o \in out \ rows : ~ ExplainedBy(o, closures)}

\* check_exchange_wire_out: the transfers of the books since the last audit.
WireOutRows(a) == WireOutAboveByAccount(w.snap, w.pp.account[a].out, a)

\* process_debits, history_debit_cb, check_exchange_wire_out and wire_out_cb
\* for one account.  A transfer of the books that the bank does not have does
\* not move the mark, but a later one does.
ProcessDebits ==
    LET a == Head(w.todo)
        p == w.pp.account[a]
        new == History(debits, a, p.out_off)
        out == {debits[i] : i \in new}
        rows == WireOutRows(a)
        explained == {o \in out \ rows : ExplainedBy(o, w.closures)}
        v == [w EXCEPT !.closures = @ \ explained,
                       !.pp.account[a].out = MarkAfter(rows \cap out, @),
                       !.pp.account[a].out_off = LastOf(new, @)]
    IN /\ w.phase = "debits"
       /\ w' = NextAccount(v)
       /\ disturbed' = disturbed \cup (out \ w.snap)
                       \cup ((rows \cup {o \in w.closures : Op[o].account = a}) \ out)
       /\ Raise(Alarm("transfer not at bank", rows \ out)
                \cup Alarm("debit not in books", Unjustified(out, rows, w.closures)))
       /\ UNCHANGED <<helper, wpp>>

\* check_pending_rc: the mark goes back to the first closure without a debit.
PendingClosures == {o \in w.closures : ClosureAmount(o) > 0}
CloseMark == Min({w.pp.close} \cup {row[o].id : o \in w.closures})

Before(t) == Max({0, now - t})

\* wire_missing_cb: deposits whose transfer is late.
Late == DepositsMissingWire(w.snap, w.pp.time, Before(WireGrace))

\* The auditor's tables.
StoreWireProgress(account, close, time) ==
    wpp' = [account |-> account, close |-> close, time |-> time]

\* check_for_required_transfers and commit.
Conclude ==
    /\ w.phase = "conclude"
    /\ StoreWireProgress(w.pp.account, CloseMark, Before(WireGrace))
    /\ Transact("wire")
    /\ Raise(Alarm("closure lag", PendingClosures)
             \cup Alarm("lag", Late))
    /\ w' = [IdleWire EXCEPT !.pp = wpp']
    /\ UNCHANGED disturbed

\* An error of the bank or a database: commit(GNUNET_DB_STATUS_HARD_ERROR)
\* rolls back, and the helper ends.
WireFails ==
    /\ w.phase # "idle"
    /\ w' = IdleWire
    /\ helper' = Helpers[1]
    /\ UNCHANGED <<alarms, wpp, disturbed>>

AuditWireNext ==
    \/ BeginTransaction
    \/ ProcessCredits
    \/ ProcessDebits
    \/ Conclude
    \/ WireFails
============================================================================
