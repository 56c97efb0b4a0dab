----------------------------- MODULE Transfers -----------------------------
(***************************************************************************)
(* The outgoing side of the exchange's bank account: the table prewire     *)
(* (wire transfers the exchange has committed to), the process             *)
(* taler-exchange-transfer that executes them one after the other, and the *)
(* bank, which knows a request by its request_uid.                         *)
(*                                                                         *)
(* TALER_BANK_prepare_transfer draws the request_uid when the row of       *)
(* prewire is made and stores it in the row, so the row's serial number    *)
(* (prewire_uuid) stands for the request_uid as well.                      *)
(*                                                                         *)
(* The process keeps a database transaction open while it waits for the    *)
(* bank.  Requests and replies can be lost or late and the process can     *)
(* crash at any time; requests that are under way then stay under way.     *)
(***************************************************************************)
EXTENDS Integers

CONSTANT Targets  \* accounts that transfers go to (with the merchant's key)

(* There is an account to transfer to. *)
ASSUME TargetsAssumption == Targets # {}

VARIABLES
    prewire,      \* rows of the table prewire (without the column finished)
    finished,     \* prewire_uuid of the rows with finished=TRUE
    next_uuid,    \* BIGSERIAL of prewire_uuid
    wpd,          \* prewire_uuid that the process works on, or NoRow
    transfer_up,  \* whether the process runs
    requests,     \* request_uids under way to the bank
    replies,      \* request_uids with a success reply under way back
    ledger,       \* debits of the exchange's account at the bank
    bank_serial   \* serial number of the next entry of the ledger

wireVars == <<prewire, finished, next_uuid, wpd, transfer_up, requests,
              replies, ledger, bank_serial>>

NoRow == 0
Uuids == Nat \ {0}

\* What the buffer of a row says: subject (wtid), credit account and amount.
PrewireRow == [uuid : Uuids, wtid : Nat, target : Targets, amt : Nat]
LedgerRow  == [serial : Uuids, uid : Uuids, wtid : Nat, target : Targets,
               amt : Nat]

WireTypeOK ==
    /\ prewire \subseteq PrewireRow
    /\ finished \subseteq Uuids
    /\ next_uuid \in Uuids
    /\ wpd \in Nat
    /\ transfer_up \in BOOLEAN
    /\ requests \subseteq Uuids
    /\ replies \subseteq Uuids
    /\ ledger \subseteq LedgerRow
    /\ bank_serial \in Uuids

WireInit ==
    /\ prewire = {} /\ finished = {} /\ next_uuid = 1
    /\ wpd = NoRow /\ transfer_up = TRUE
    /\ requests = {} /\ replies = {}
    /\ ledger = {} /\ bank_serial = 1

---------------------------------------------------------------------------
(* TALER_BANK_prepare_transfer and wire_prepare_data_insert, a part of the *)
(* transaction that commits to the transfer.                               *)

WirePrepareDataInsert(w, t, a) ==
    /\ prewire' = prewire \cup
          {[uuid |-> next_uuid, wtid |-> w, target |-> t, amt |-> a]}
    /\ next_uuid' = next_uuid + 1

---------------------------------------------------------------------------
(* taler-exchange-transfer.                                                *)

\* (Faulty: the column finished is not looked at.)
PendingAll == prewire

Pending == {p \in prewire : p.uuid \notin finished}

\* run_transfers: start a transaction, take the first row that is not
\* finished (wire_prepare_data_get) and send its request (wire_prepare_cb).
RunTransfers(p) ==
    /\ transfer_up /\ wpd = NoRow
    /\ p \in Pending
    /\ \A q \in Pending : p.uuid <= q.uuid
    /\ wpd' = p.uuid
    /\ requests' = requests \cup {p.uuid}
    /\ UNCHANGED <<prewire, finished, next_uuid, transfer_up, replies, ledger,
                   bank_serial>>

\* (Faulty: marks the row as finished without looking at the status.)
WireConfirmUnchecked ==
    /\ transfer_up /\ wpd # NoRow
    /\ finished' = finished \cup {wpd}
    /\ wpd' = NoRow
    /\ UNCHANGED <<prewire, next_uuid, transfer_up, requests, replies, ledger,
                   bank_serial>>

\* wire_confirm_cb, with status 200: mark the row as finished and commit.
WireConfirm ==
    /\ transfer_up /\ wpd \in replies
    /\ finished' = finished \cup {wpd}
    /\ wpd' = NoRow
    /\ replies' = replies \ {wpd}
    /\ UNCHANGED <<prewire, next_uuid, transfer_up, requests, ledger,
                   bank_serial>>

\* The same, but marking or committing ends in a soft error: run_transfers
\* starts again with the row.
WireConfirmSoftError ==
    /\ transfer_up /\ wpd \in replies
    /\ wpd' = NoRow
    /\ replies' = replies \ {wpd}
    /\ UNCHANGED <<prewire, finished, next_uuid, transfer_up, requests, ledger,
                   bank_serial>>

\* wire_confirm_cb, with any other status (0 for a broken connection): roll
\* back and shut down.  A hard error of the database has the same effect.
WireConfirmFails ==
    /\ transfer_up /\ wpd # NoRow
    /\ transfer_up' = FALSE
    /\ wpd' = NoRow
    /\ replies' = {}
    /\ UNCHANGED <<prewire, finished, next_uuid, requests, ledger, bank_serial>>

\* The connection broke and neither request nor reply is under way.
ConnectionBroken == WireConfirmFails /\ wpd \notin requests \cup replies

\* The process crashes.  The database rolls its transaction back; a reply
\* that is under way finds nobody.
TransferCrashes ==
    /\ transfer_up
    /\ transfer_up' = FALSE
    /\ wpd' = NoRow
    /\ replies' = {}
    /\ UNCHANGED <<prewire, finished, next_uuid, requests, ledger, bank_serial>>

TransferRestarts ==
    /\ ~transfer_up
    /\ transfer_up' = TRUE
    /\ UNCHANGED <<prewire, finished, next_uuid, wpd, requests, replies, ledger,
                   bank_serial>>

---------------------------------------------------------------------------
(* The bank (TALER_FAKEBANK_make_transfer is the bank of the test suite).  *)

Executed == {e.uid : e \in ledger}

MakeTransfer(p) ==
    /\ ledger' = ledger \cup
          {[serial |-> bank_serial, uid |-> p.uuid, wtid |-> p.wtid,
            target |-> p.target, amt |-> p.amt]}
    /\ bank_serial' = bank_serial + 1

\* The reply reaches the process if that still waits for it.
BankReplies(u) ==
    replies' = IF transfer_up /\ wpd = u THEN replies \cup {u} ELSE replies

\* (Faulty: a repeated request is a new transfer.)
BankExecutesAgain(p) == MakeTransfer(p)

\* A request_uid the bank has seen before is answered like the first time.
BankExecutes(p) ==
    IF p.uuid \in Executed
    THEN UNCHANGED <<ledger, bank_serial>>
    ELSE MakeTransfer(p)

\* The bank gets the request for row p.
BankTransfer(p) ==
    /\ p.uuid \in requests
    /\ BankExecutes(p)
    /\ requests' = requests \ {p.uuid}
    /\ BankReplies(p.uuid)
    /\ UNCHANGED <<prewire, finished, next_uuid, wpd, transfer_up>>

\* The same, but the reply is lost.
BankReplyLost(p) ==
    /\ p.uuid \in requests
    /\ BankExecutes(p)
    /\ requests' = requests \ {p.uuid}
    /\ UNCHANGED <<prewire, finished, next_uuid, wpd, transfer_up, replies>>

\* The request does not reach the bank.
RequestLost(p) ==
    /\ p.uuid \in requests
    /\ requests' = requests \ {p.uuid}
    /\ UNCHANGED <<prewire, finished, next_uuid, wpd, transfer_up, replies,
                   ledger, bank_serial>>

WireStep ==
    \/ \E p \in prewire : \/ RunTransfers(p)
                          \/ BankTransfer(p)
                          \/ BankReplyLost(p)
                          \/ RequestLost(p)
    \/ WireConfirm \/ WireConfirmSoftError
    \/ WireConfirmFails \/ TransferCrashes \/ TransferRestarts
=============================================================================
