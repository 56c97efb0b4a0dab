------------------------------ MODULE KeyFiles ------------------------------
(***************************************************************************)
(* The key files of the exchange and the offline tool that makes them,     *)
(* taler-exchange-keyup: signing keys, denomination keys (of one           *)
(* denomination) and revocations.                                          *)
(*                                                                         *)
(* A signing key stands for its start time.  A denomination key has a      *)
(* start time and a generation: 0 for the file <start>, n for the          *)
(* replacement <start>-n that revocation makes.  Time 0 is the epoch; the  *)
(* model starts at time 2, with the keys of time 1.                        *)
(***************************************************************************)
EXTENDS Integers, FiniteSets, FiniteSetsExt

CONSTANTS
    DurationWithdraw, DurationSpend, DurationLegal, DurationOverlap,
    SignkeyDuration,
    LookaheadSign,
    MaxTime,         \* bound on the clock
    MaxKeyups,       \* bound on runs of keyup
    MaxRevocations   \* bound on revocations

(* get_denomination_type_params refuses an overlap that is not shorter     *)
(* than the withdraw period, run refuses to look ahead by 0; the durations *)
(* of the example configuration are ordered.  A signing key lasts longer   *)
(* than one unit of time: the one of time 1, with which the server runs    *)
(* when the model starts at time 2, has not expired.                       *)
ASSUME DurationsAssumption ==
    /\ DurationOverlap \in Nat /\ LookaheadSign \in Nat \ {0}
    /\ DurationWithdraw \in Nat /\ DurationOverlap < DurationWithdraw
    /\ DurationSpend \in Nat /\ DurationWithdraw <= DurationSpend
    /\ DurationLegal \in Nat /\ DurationSpend <= DurationLegal
    /\ SignkeyDuration \in Nat /\ SignkeyDuration > 1
    /\ MaxTime \in Nat /\ MaxKeyups \in Nat /\ MaxRevocations \in Nat

VARIABLES
    now,
    sign_files,    \* start times of the signing keys on disk
    denom_files,   \* denomination keys on disk
    revocations,   \* revocation files: denomination keys
    keyups         \* runs of keyup

fileVars == <<now, sign_files, denom_files, revocations, keyups>>

Times == 0..(MaxTime + LookaheadSign)
DenomKey == [start : Times, gen : 0..MaxRevocations]

ExpireWithdraw(d) == d.start + DurationWithdraw
ExpireDeposit(d) == d.start + DurationSpend
ExpireLegal(d) == d.start + DurationLegal
SignExpire(s) == s + SignkeyDuration

FilesTypeOK ==
    /\ now \in 1..MaxTime
    /\ sign_files \subseteq Times
    /\ denom_files \subseteq DenomKey
    /\ revocations \subseteq DenomKey
    /\ keyups \in 0..MaxKeyups

---------------------------------------------------------------------------
(* taler-exchange-keyup.                                                   *)

\* get_anchor: where to go on.  get_anchor_iter does not see replacements.
GetAnchor(starts, duration, overlap) ==
    IF starts = {} \/ Max(starts) + duration < now THEN now
    ELSE IF Max(starts) # now THEN Max(starts) + duration - overlap
    ELSE now

\* Start times of new keys, from the anchor to before stamp.
NewStarts(anchor, step, stamp) ==
    {t \in anchor..(stamp - 1) : (t - anchor) % step = 0}

\* exchange_keys_update_signkeys
NewSignKeys(stamp) ==
    NewStarts(GetAnchor(sign_files, SignkeyDuration, 0), SignkeyDuration, stamp)

\* exchange_keys_update_denominationtype: an existing file is an error that
\* ends the loop.
NewDenomKeys(stamp) ==
    LET old == {d.start : d \in {d \in denom_files : d.gen = 0}}
        anchor == GetAnchor(old, DurationWithdraw, DurationOverlap)
    IN IF anchor \in old THEN {}
       ELSE {[start |-> t, gen |-> 0] :
                t \in NewStarts(anchor, DurationWithdraw - DurationOverlap, stamp)}

\* TALER_EXCHANGEDB_signing_key_write and _denomination_key_write
WriteSignKeys(stamp) == sign_files' = sign_files \cup NewSignKeys(stamp)
WriteDenomKeys(stamp) == denom_files' = denom_files \cup NewDenomKeys(stamp)

WriteKeys(sign_stamp, denom_stamp) ==
    WriteSignKeys(sign_stamp) /\ WriteDenomKeys(denom_stamp)

\* lookahead_sign_stamp
Stamp == now + LookaheadSign

\* run, to the end
Keyup ==
    /\ keyups < MaxKeyups
    /\ keyups' = keyups + 1
    /\ WriteKeys(Stamp, Stamp)
    /\ UNCHANGED <<now, revocations>>

\* run is stopped, or fails, before it has written all keys
KeyupStops ==
    /\ keyups < MaxKeyups
    /\ keyups' = keyups + 1
    /\ \E t \in now..(Stamp - 1) : WriteKeys(t, 0) \/ WriteKeys(Stamp, t)
    /\ UNCHANGED <<now, revocations>>

\* denomination_key_read removes the file of a key that has expired for
\* withdrawals, after it has read it.
Unlinked == {d \in denom_files : ExpireWithdraw(d) <= now}

\* check_revocation_regeneration: a key that can still be withdrawn is
\* replaced by one with the same start time.
Replacement(d) ==
    IF now >= ExpireWithdraw(d) THEN {}
    ELSE {[start |-> d.start,
           gen |-> Min({i \in 1..(MaxRevocations + 1) :
                          [start |-> d.start, gen |-> i] \notin denom_files})]}

\* revoke_denomination
Revoke(d) ==
    /\ d \in denom_files \ revocations
    /\ Cardinality(revocations) < MaxRevocations
    /\ revocations' = revocations \cup {d}
    /\ \E gone \in SUBSET Unlinked :
          denom_files' = (denom_files \ gone) \cup Replacement(d)
    /\ UNCHANGED <<now, sign_files, keyups>>

\* The same, but stopped before the replacement is made.
RevokeStops(d) ==
    /\ d \in denom_files \ revocations
    /\ Cardinality(revocations) < MaxRevocations
    /\ revocations' = revocations \cup {d}
    /\ UNCHANGED <<now, sign_files, denom_files, keyups>>

Tick ==
    /\ now < MaxTime
    /\ now' = now + 1
    /\ UNCHANGED <<sign_files, denom_files, revocations, keyups>>

FileStep ==
    \/ Keyup \/ KeyupStops \/ Tick
    \/ \E d \in denom_files : Revoke(d) \/ RevokeStops(d)
=============================================================================
