------------------------------ MODULE KeyState ------------------------------
(***************************************************************************)
(* The key state of taler-exchange-httpd: a reference counted snapshot of  *)
(* the keys that the threads of the server acquire and release.  It is     *)
(* replaced by TEH_KS_acquire, under the mutex, when the state is too old, *)
(* and by the main thread in TEH_KS_loop on SIGUSR1, where the new state   *)
(* is made before the mutex is taken.                                      *)
(*                                                                         *)
(* A handle is the address of a key state.  Freed addresses are used       *)
(* again.  A section under the mutex is one step.                          *)
(***************************************************************************)
EXTENDS KeyFiles, Sequences, SequencesExt

CONSTANTS
    Threads,
    Provide,      \* LOOKAHEAD_PROVIDE
    MaxSignals,   \* bound on the signals in the pipe
    MaxFaults     \* bound on failures of the database

ASSUME ServerAssumption ==
    /\ IsFiniteSet(Threads) /\ Provide \in Nat
    /\ MaxSignals \in Nat /\ MaxFaults \in Nat

VARIABLES
    db,         \* rows of denominations
    db_revoked, \* rows of denomination_revocations
    ks,         \* the key state at a handle, or Freed
    internal,   \* internal_key_state
    held,       \* per thread: the handle it has acquired
    pipe,       \* signals in reload_pipe
    loop,       \* what the main thread does
    fs,         \* the new state of TEH_KS_loop
    pending,    \* revocations that the SIGUSR1 being handled was sent for
    effective,  \* revocations that a handled SIGUSR1 was sent for
    published,  \* keys of all states that were ever in use
    faults      \* failures of the database so far

serverVars == <<db, db_revoked, ks, internal, held, pipe, loop, fs, pending,
                effective, published, faults>>
keyVars == <<fileVars, serverVars>>

Handles == 1..(Cardinality(Threads) + 3)
None == 0
Freed == [refcnt |-> 0]

LoopPhases == {"read", "install", "stop", "exited"}

KeysTypeOK ==
    /\ FilesTypeOK
    /\ db \subseteq DenomKey /\ db_revoked \subseteq db
    /\ DOMAIN ks = Handles
    /\ internal \in Handles \cup {None}
    /\ held \in [Threads -> Handles \cup {None}]
    /\ Len(pipe) <= MaxSignals + 1
    /\ loop \in LoopPhases
    /\ fs \in Handles \cup {None}
    /\ pending \subseteq revocations /\ effective \subseteq revocations

---------------------------------------------------------------------------
(* make_fresh_key_state.                                                   *)

\* reload_keys_denom_iter: the keys on disk that are not past deposits and
\* not too far in the future.
FromFiles ==
    {d \in denom_files : now <= ExpireDeposit(d) /\ d.start <= now + Provide}

\* (Faulty: forgets keys that have expired for deposits.)
FromDatabaseDeposit == {d \in db : now <= ExpireWithdraw(d)}

\* reload_public_denoms_cb: keys in the database, of which only the public
\* part is left.
FromDatabase == {d \in db : now <= ExpireLegal(d)}

\* TALER_EXCHANGEDB_revocations_iterate calls revocations_iter, which ignores
\* keys that are not known.
Revoked(known) == known \cap revocations

\* Signing keys that signing_keys_iterate passes on; it removes the others.
Unexpired == {s \in sign_files : SignExpire(s) > now}

\* reload_keys_sign_iter: the current key is the latest that has started.
CurrentSignKeys == {s \in Unexpired : s < now}

\* (Faulty: looks at the denomination keys only.)
NextReloadDenoms == Min({MaxTime + 1} \cup {ExpireDeposit(d) : d \in FromFiles})

NextReload ==
    Min({SignExpire(Max(CurrentSignKeys))}
          \cup {ExpireDeposit(d) : d \in FromFiles})

\* (Faulty: revocations are processed before the database is read.)
NewStateRevokedFirst(known) ==
    [refcnt |-> 1,
     denoms |-> FromDatabase \cup (known \ revocations),
     revoked |-> known \cap revocations,
     priv |-> FromFiles,
     sign |-> Max(CurrentSignKeys),
     signkeys |-> {s \in Unexpired : s <= now + Provide},
     next_reload |-> NextReload,
     seen |-> published]

\* The new state, given the keys that were found.  "priv" are the keys with
\* a private key; "seen" records the keys that had been in use before.
NewState(known) ==
    [refcnt |-> 1,
     denoms |-> known \ Revoked(known),
     revoked |-> Revoked(known),
     priv |-> FromFiles,
     sign |-> Max(CurrentSignKeys),
     signkeys |-> {s \in Unexpired : s <= now + Provide},
     next_reload |-> NextReload,
     seen |-> published]

\* Whether make_fresh_key_state returns a state for these keys.
Usable(known) == CurrentSignKeys # {} /\ known \ Revoked(known) # {}

\* Reading the directories removes expired keys.
ReadDirectories ==
    /\ denom_files' = denom_files \ Unlinked
    /\ sign_files' = Unexpired
    /\ UNCHANGED <<now, revocations, keyups>>

\* The tables: a row that exists is left alone.
InsertDenominationInfo(keys) == db' = db \cup keys
InsertDenominationRevocation(keys) == db_revoked' = db_revoked \cup keys

\* add_denomination_transaction and add_revocations_transaction
StoreKeys(known) ==
    InsertDenominationInfo(FromFiles) /\ InsertDenominationRevocation(Revoked(known))

FreeHandle == CHOOSE h \in Handles : ks[h] = Freed

\* iterate_denomination_info may fail, which is ignored: "warn, but continue,
\* fingers crossed".
Readings == IF faults < MaxFaults THEN BOOLEAN ELSE {TRUE}

Known(readable) == FromFiles \cup (IF readable THEN FromDatabase ELSE {})

\* make_fresh_key_state: the handle it returns, the memory after it, and its
\* effects on files and database.
Fresh(readable) == IF Usable(Known(readable)) THEN FreeHandle ELSE None

WithFresh(readable) ==
    IF Usable(Known(readable))
    THEN [ks EXCEPT ![FreeHandle] = NewState(Known(readable))]
    ELSE ks

MakeFresh(readable) ==
    /\ ReadDirectories
    /\ StoreKeys(Known(readable))
    /\ faults' = IF readable THEN faults ELSE faults + 1

\* A key cannot be stored: "Committing suicide via SIGTERM", and no state.
\* Rows that were stored before the failure are stored again by any later
\* attempt, and left out here.
MakeFreshFails ==
    /\ faults < MaxFaults /\ FromFiles # {}
    /\ ReadDirectories
    /\ faults' = faults + 1
    /\ UNCHANGED <<db, db_revoked>>

Signal(sig) == [sig |-> sig, rev |-> revocations]

\* (Faulty: frees the state although threads still use it.)
DropAlways(states, h) ==
    IF h = None THEN states ELSE [states EXCEPT ![h] = Freed]

\* One reference to h less; the last one frees it.
Drop(states, h) ==
    IF h = None THEN states
    ELSE IF states[h].refcnt = 1 THEN [states EXCEPT ![h] = Freed]
    ELSE [states EXCEPT ![h].refcnt = @ - 1]

Publish(states, h) ==
    published' = IF h = None THEN published
                 ELSE published \cup states[h].denoms

KeysInit ==
    /\ now = 2 /\ keyups = 0 /\ revocations = {}
    /\ sign_files = {1} /\ denom_files = {[start |-> 1, gen |-> 0]}
    /\ db = FromFiles /\ db_revoked = {} /\ published = FromFiles
    /\ ks = [h \in Handles |-> IF h = 1 THEN NewState(FromFiles) ELSE Freed]
    /\ internal = 1
    /\ held = [t \in Threads |-> None]
    /\ pipe = <<>> /\ loop = "read" /\ fs = None
    /\ pending = {} /\ effective = {} /\ faults = 0

---------------------------------------------------------------------------
(* The threads of the server.                                              *)

Serving == loop # "exited"

TooOld == internal # None => ks[internal].next_reload <= now

\* Thread t gets a reference to h.
Grab(t, h, states) ==
    IF h = None
    THEN held' = held /\ ks' = states
    ELSE /\ held' = [held EXCEPT ![t] = h]
         /\ ks' = [states EXCEPT ![h].refcnt = @ + 1]

\* TEH_KS_acquire, when the state is recent enough
Acquire(t) ==
    /\ Serving /\ held[t] = None /\ ~TooOld
    /\ Grab(t, internal, ks)
    /\ UNCHANGED <<fileVars, db, db_revoked, internal, pipe, loop, fs, pending,
                   effective, published, faults>>

\* TEH_KS_acquire, when it has to make a new one
AcquireReloads(t) ==
    /\ Serving /\ held[t] = None /\ TooOld
    /\ \E readable \in Readings :
          /\ MakeFresh(readable)
          /\ internal' = Fresh(readable)
          /\ Publish(WithFresh(readable), Fresh(readable))
          /\ Grab(t, Fresh(readable), Drop(WithFresh(readable), internal))
    /\ UNCHANGED <<pipe, loop, fs, pending, effective>>

AcquireFails(t) ==
    /\ Serving /\ held[t] = None /\ TooOld
    /\ MakeFreshFails
    /\ internal' = None
    /\ ks' = Drop(ks, internal)
    /\ pipe' = Append(pipe, Signal("TERM"))
    /\ UNCHANGED <<held, loop, fs, pending, effective, published>>

\* TEH_KS_release
Release(t) ==
    /\ held[t] # None
    /\ ks' = Drop(ks, held[t])
    /\ held' = [held EXCEPT ![t] = None]
    /\ UNCHANGED <<fileVars, db, db_revoked, internal, pipe, loop, fs, pending,
                   effective, published, faults>>

---------------------------------------------------------------------------
(* The main thread.                                                        *)

\* The operator sends a signal (handle_signal).
Kill(sig) ==
    /\ Serving /\ Len(pipe) < MaxSignals
    /\ pipe' = Append(pipe, Signal(sig))
    /\ UNCHANGED <<fileVars, db, db_revoked, ks, internal, held, loop, fs,
                   pending, effective, published, faults>>

Reads(sig) == loop = "read" /\ pipe # <<>> /\ Head(pipe).sig = sig

\* TEH_KS_loop, SIGUSR1: make a state; without one the server ends.
Reload ==
    /\ Reads("USR1")
    /\ \E readable \in Readings :
          /\ MakeFresh(readable)
          /\ ks' = WithFresh(readable)
          /\ fs' = Fresh(readable)
          /\ loop' = IF Fresh(readable) = None THEN "stop" ELSE "install"
    /\ pending' = Head(pipe).rev
    /\ pipe' = Tail(pipe)
    /\ UNCHANGED <<internal, held, effective, published>>

ReloadFails ==
    /\ Reads("USR1")
    /\ MakeFreshFails
    /\ loop' = "stop"
    /\ pipe' = Tail(pipe)
    /\ UNCHANGED <<ks, internal, held, fs, pending, effective, published>>

\* Then, under the mutex, publish it.
Install ==
    /\ loop = "install"
    /\ internal' = fs
    /\ Publish(ks, fs)
    /\ ks' = Drop(ks, internal)
    /\ fs' = None /\ loop' = "read"
    /\ effective' = effective \cup pending
    /\ UNCHANGED <<fileVars, db, db_revoked, held, pipe, pending,
                   faults>>

\* SIGTERM and SIGINT end the loop; so does SIGHUP, after which a new process
\* takes over.
Terminate ==
    /\ Reads("TERM")
    /\ loop' = "stop"
    /\ pipe' = Tail(pipe)
    /\ UNCHANGED <<fileVars, db, db_revoked, ks, internal, held, fs, pending,
                   effective, published, faults>>

\* run_main_loop stops the threads, main calls TEH_KS_free.
Exit ==
    /\ loop = "stop"
    /\ \A t \in Threads : held[t] = None
    /\ ks' = Drop(ks, internal)
    /\ internal' = None
    /\ loop' = "exited" /\ pipe' = <<>>
    /\ UNCHANGED <<fileVars, db, db_revoked, held, fs, pending, effective,
                   published, faults>>

\* A new process: TEH_KS_init.
Restart ==
    /\ loop = "exited"
    /\ \E readable \in Readings :
          /\ MakeFresh(readable)
          /\ ks' = WithFresh(readable)
          /\ internal' = Fresh(readable)
          /\ Publish(WithFresh(readable), Fresh(readable))
          /\ loop' = IF Fresh(readable) = None THEN "exited" ELSE "read"
    /\ UNCHANGED <<held, pipe, fs, pending, effective>>

---------------------------------------------------------------------------
ThreadStep(t) ==
    \/ Acquire(t) \/ AcquireReloads(t) \/ AcquireFails(t) \/ Release(t)

LoopStep ==
    \/ Reload \/ ReloadFails \/ Install
    \/ Terminate \/ Exit \/ Restart

KeysNext ==
    \/ FileStep /\ UNCHANGED serverVars
    \/ \E t \in Threads : ThreadStep(t)
    \/ \E sig \in {"USR1", "TERM"} : Kill(sig)
    \/ LoopStep

KeysSpec == KeysInit /\ [][KeysNext]_keyVars

---------------------------------------------------------------------------
(* The reference count of a state is the number of its users, however      *)
(* threads, reloads of threads and reloads of the main thread interleave:  *)
(* no thread uses a state that was freed, no state is leaked, and the      *)
(* assertions of TEH_KS_acquire_, TEH_KS_release_ and TEH_KS_free hold.    *)
ReferencesCounted ==
    \A h \in Handles :
        ks[h].refcnt = Cardinality({t \in Threads : held[t] = h})
                         + Cardinality({i \in {1} : internal = h})
                         + Cardinality({i \in {1} : fs = h})

(* A revocation stays: once a SIGUSR1 that was sent after the revocation   *)
(* was written has been handled, no later state has the key among the keys *)
(* for withdrawals, deposits and melts, whichever reload made it.          *)
RevocationHolds ==
    internal # None => ks[internal].denoms \cap effective = {}

(* Coins stay spendable: a state knows every key that was in use before it *)
(* was made until deposits end, although the file of the key is removed    *)
(* when withdrawals end, and after restarts.  An unreadable database       *)
(* excepted.  (A key that came into use after a state was made may be      *)
(* missing: Install may replace a newer state by its older one.)           *)
CoinsStaySpendable ==
    internal # None /\ faults = 0 =>
        \A d \in ks[internal].seen : now <= ExpireDeposit(d) =>
            d \in ks[internal].denoms \cup ks[internal].revoked

(* A thread never gets a signing key that has expired or not started, so   *)
(* clients accept what it signs.                                           *)
SignKeyValid ==
    [][\A t \in Threads :
          held[t] = None /\ held'[t] # None =>
              /\ ks'[held'[t]].sign < now
              /\ now < SignExpire(ks'[held'[t]].sign)]_keyVars
=============================================================================
