--------------------------- MODULE AuditDeposits ---------------------------
(***************************************************************************)
(* taler-auditor-httpd receives deposit confirmations from merchants, and  *)
(* taler-helper-auditor-deposits checks that the exchange has the deposits *)
(* it confirmed.                                                           *)
(***************************************************************************)
EXTENDS AuditLib

CONSTANT StackValues   \* values that an uninitialised variable may have

VARIABLES
    dcs,     \* deposit_confirmations: operations, in the order of arrival
    ppd,     \* auditor_progress_deposit_confirmation: the mark
    dreport  \* of the last report: the confirmations it had to list (history)
             \* and those it lists; whether the mark was ever uninitialised

depositAuditVars == <<dcs, ppd, dreport>>

AuditDepositsInit ==
    /\ dcs = <<>>
    /\ ppd = 0
    /\ dreport = [missing |-> {}, listed |-> {}, guess |-> FALSE]

\* insert_deposit_confirmation: a confirmation is stored once.
InsertDepositConfirmation(o) == dcs' = Append(dcs, o)

\* TAH_DEPOSIT_CONFIRMATION_handler: the signatures are checked and the
\* confirmation is stored once.  The exchange signs what it has committed;
\* a dishonest one signs a deposit it never commits.
DepositConfirmation(o) ==
    /\ Op[o].kind = "confirm"
    /\ \A i \in DOMAIN dcs : dcs[i] # o
    /\ Op[o].honest => Op[o].deposit \in Committed
    /\ InsertDepositConfirmation(o)
    /\ UNCHANGED <<ppd, dreport>>

\* have_deposit
HaveDeposit(o, S) == Op[o].deposit \in S

\* test_dc
Missed(S, m) == {i \in DOMAIN dcs : i > m /\ ~ HaveDeposit(dcs[i], S)}

\* (Faulty: goes on after the last confirmation, whatever was missing.)
MarkPastAll(S, m) == {Len(dcs)}

\* analyze_deposit_confirmations: before the first confirmation that is
\* missing, or after the last one.  Without a new confirmation
\* last_seen_coin_serial is never set.
DepositMark(S, m) ==
    IF Missed(S, m) # {} THEN {Min(Missed(S, m)) - 1}
    ELSE IF Len(dcs) > m THEN {Len(dcs)}
    ELSE StackValues

StoreDepositProgress(m) == ppd' = m

AuditDeposits ==
    LET S == Committed
    IN /\ Transact("deposits")
       /\ \E m \in DepositMark(S, ppd) : StoreDepositProgress(m)
       /\ dreport' = [missing |-> {i \in DOMAIN dcs : ~ HaveDeposit(dcs[i], S)},
                      listed |-> Missed(S, ppd),
                      guess |-> dreport.guess \/ Len(dcs) <= ppd]
       /\ Raise(Alarm("deposit missing", {dcs[i] : i \in Missed(S, ppd)}))
       /\ UNCHANGED dcs
============================================================================
