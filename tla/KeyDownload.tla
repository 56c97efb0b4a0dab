----------------------------- MODULE KeyDownload -----------------------------
(***************************************************************************)
(* GET /keys: the handler of the server, which has one prepared response   *)
(* for every start time of a denomination key ("cherry picking"), and the  *)
(* client library, which asks for the keys after the last start time it    *)
(* knows and merges the reply with the keys it has.                        *)
(*                                                                         *)
(* The handler acquires and releases the key state within one step here;   *)
(* KeyState has the interleavings of several threads.  Signatures of the   *)
(* master key and of auditors are left out: the parties are honest.        *)
(***************************************************************************)
EXTENDS KeyState

CONSTANTS
    MaxRequests,   \* bound on downloads that the application starts
    MaxLosses      \* bound on lost or mangled messages

ASSUME DownloadAssumption == MaxRequests \in Nat /\ MaxLosses \in Nat

VARIABLES
    client,    \* struct TALER_EXCHANGE_Handle
    request,   \* the KeysRequest of the client and its reply
    requests,  \* downloads so far
    losses     \* lost and mangled messages so far

clientVars == <<client, request, requests, losses>>
downloadVars == <<keyVars, clientVars>>

\* A handle after TALER_EXCHANGE_connect.  "broken" records that the keys
\* were lost since the last complete reply.
NewHandle ==
    [state |-> "INIT", keys |-> {}, revoked |-> {}, signkeys |-> {}, last |-> 0,
     broken |-> FALSE]

NoRequest == [phase |-> "idle"]
Retry == [phase |-> "retry"]

RequestPhases == {"idle", "retry", "sent", "answered"}

DownloadInit ==
    /\ KeysInit
    /\ client = NewHandle /\ request = Retry
    /\ requests = 0 /\ losses = 0

---------------------------------------------------------------------------
(* The server.                                                             *)

\* krd_array: a response for every start time and one for "all keys".
CherryPickDates(state) == {0} \cup {d.start : d \in state.denoms}

\* TEH_handler_keys: the response for this date, else the first one.
Krd(state, date) ==
    IF date \in CherryPickDates(state)
    THEN {d \in state.denoms : d.start > date}
    ELSE state.denoms

\* build_keys_response; "all" records what the state has.
KeysResponse(state, date) ==
    [phase |-> "answered", status |-> 200, date |-> date,
     denoms |-> Krd(state, date), recoup |-> state.revoked,
     signkeys |-> state.signkeys, signer |-> state.sign, all |-> state.denoms]

Answer(states, h) ==
    request' = IF h = None THEN [phase |-> "answered", status |-> 500]
               ELSE KeysResponse(states[h], request.date)

HandlerKeys ==
    /\ Serving /\ request.phase = "sent" /\ ~TooOld
    /\ Answer(ks, internal)
    /\ UNCHANGED <<keyVars, client, requests, losses>>

\* The same, when TEH_KS_acquire makes a new state.
HandlerKeysReloads ==
    /\ Serving /\ request.phase = "sent" /\ TooOld
    /\ \E readable \in Readings :
          /\ MakeFresh(readable)
          /\ internal' = Fresh(readable)
          /\ Publish(WithFresh(readable), Fresh(readable))
          /\ ks' = Drop(WithFresh(readable), internal)
          /\ Answer(WithFresh(readable), Fresh(readable))
    /\ UNCHANGED <<held, pipe, loop, fs, pending, effective, client, requests,
                   losses>>

---------------------------------------------------------------------------
(* The client.                                                             *)

\* TEAH_handle_is_ready
HandleIsReady == client.state = "CERT"

\* request_keys
RequestKeys ==
    /\ request.phase = "retry"
    /\ request' = [phase |-> "sent",
                   date |-> IF HandleIsReady THEN client.last ELSE 0]
    /\ UNCHANGED <<keyVars, client, requests, losses>>

\* TALER_EXCHANGE_check_keys_current, forced or after the expiration
CheckKeysCurrent(pull_all_keys) ==
    /\ requests < MaxRequests
    /\ request.phase = "idle"
    /\ client' = IF pull_all_keys THEN [client EXCEPT !.state = "INIT"]
                 ELSE client
    /\ request' = Retry
    /\ requests' = requests + 1
    /\ UNCHANGED <<keyVars, losses>>

\* The request or the reply is lost, or the server is down: response code 0,
\* which keeps the keys and tries again.
RequestLost ==
    /\ request.phase \in {"sent", "answered"}
    /\ Serving => losses < MaxLosses
    /\ losses' = IF Serving THEN losses + 1 ELSE losses
    /\ request' = Retry
    /\ UNCHANGED <<keyVars, client, requests>>

\* (Faulty: looks for revoked keys among the new ones only.)
MergedNewOnly(cl, reply) ==
    [cl EXCEPT !.state = "CERT",
               !.keys = @ \cup reply.denoms,
               !.revoked = @ \cup (reply.recoup \cap reply.denoms),
               !.signkeys = reply.signkeys,
               !.last = Max({@} \cup {d.start : d \in reply.denoms}),
               !.broken = @ /\ reply.date \in {d.start : d \in reply.all}]

\* decode_keys_json, on top of the keys of the last download.
Merged(cl, reply) ==
    LET keys == cl.keys \cup reply.denoms
    IN [cl EXCEPT !.state = "CERT",
                  !.keys = keys,
                  !.revoked = @ \cup (reply.recoup \cap keys),
                  !.signkeys = reply.signkeys,
                  !.last = Max({@} \cup {d.start : d \in reply.denoms}),
                  !.broken = @ /\ reply.date \in {d.start : d \in reply.all}]

\* TALER_EXCHANGE_test_signing_key
TestSigningKey(reply) ==
    reply.signer \in reply.signkeys /\ SignExpire(reply.signer) > now

\* keys_completed_cb, 200, and the reply is good
KeysCompleted ==
    /\ request.phase = "answered" /\ request.status = 200
    /\ TestSigningKey(request)
    /\ client' = Merged(client, request)
    /\ request' = NoRequest
    /\ UNCHANGED <<keyVars, requests, losses>>

\* 200, but decode_keys_json fails: no keys are left, the date is.
KeysInvalid ==
    /\ request.phase = "answered" /\ request.status = 200
    /\ TestSigningKey(request) => losses < MaxLosses
    /\ losses' = IF TestSigningKey(request) THEN losses + 1 ELSE losses
    /\ client' = [NewHandle EXCEPT !.state = "CERT", !.last = client.last,
                                   !.broken = TRUE]
    /\ request' = NoRequest
    /\ UNCHANGED <<keyVars, requests>>

\* another status: nothing is left
KeysFailed ==
    /\ request.phase = "answered" /\ request.status # 200
    /\ client' = [NewHandle EXCEPT !.state = "FAILED"]
    /\ request' = NoRequest
    /\ UNCHANGED <<keyVars, requests, losses>>

\* (Faulty: forgets keys that can still be deposited.)
SerializedKeysWithdraw == {d \in client.keys : now <= ExpireWithdraw(d)}

\* TALER_EXCHANGE_serialize_data: keys that have not expired for deposits
SerializedKeys == {d \in client.keys : now <= ExpireDeposit(d)}

\* deserialize_data: the serialized data has no revocations, and a list
\* without signing keys is refused.
Deserialized ==
    LET signkeys == {s \in client.signkeys : now <= SignExpire(s)}
    IN IF signkeys = {} THEN NewHandle
       ELSE [client EXCEPT
               !.state = "CERT", !.keys = SerializedKeys, !.revoked = {},
               !.signkeys = signkeys,
               !.last = Max({0} \cup {d.start : d \in SerializedKeys})]

\* The application ends and starts again with the serialized data
\* (TALER_EXCHANGE_disconnect, TALER_EXCHANGE_connect).
ClientRestarts ==
    /\ requests < MaxRequests
    /\ requests' = requests + 1
    /\ client' = Deserialized
    /\ request' = Retry
    /\ UNCHANGED <<keyVars, losses>>

---------------------------------------------------------------------------
ServerStep ==
    /\ KeysNext
    /\ UNCHANGED clientVars

ClientStep ==
    \/ RequestKeys \/ KeysCompleted \/ KeysInvalid \/ KeysFailed \/ RequestLost

DownloadNext ==
    \/ ServerStep
    \/ HandlerKeys \/ HandlerKeysReloads
    \/ \E pull_all_keys \in BOOLEAN : CheckKeysCurrent(pull_all_keys)
    \/ ClientStep \/ ClientRestarts

DownloadSpec == DownloadInit /\ [][DownloadNext]_downloadVars

---------------------------------------------------------------------------
(* A download completes the keys: after it, the client knows every key of  *)
(* the state that answered with which coins can be deposited, although it  *)
(* got only those after its date, and after restarts of either side.       *)
(* Excepted are the keys of a period with a revocation, since the          *)
(* replacement has the start time of the revoked key, and a client that    *)
(* lost its keys to an invalid reply.                                      *)
DownloadCompletes ==
    [][KeysCompleted =>
          \A d \in request.all :
              \/ d \in client'.keys \/ client'.broken \/ now > ExpireDeposit(d)
              \/ \E e \in revocations : e.start = d.start]_downloadVars

(* What the comment on cherry_pick_date promises: the response for a date  *)
(* leaves out only keys that the client has.                               *)
CherryPickingComplete ==
    [][KeysCompleted => request.all \subseteq client'.keys]_downloadVars

(* A revocation reaches the client with the next download, whatever the    *)
(* date it asked with: no key that the answering state has revoked is left *)
(* unmarked.                                                               *)
RevocationsArrive ==
    [][KeysCompleted =>
          client'.keys \cap request.recoup \subseteq client'.revoked]_downloadVars

DownloadTypeOK ==
    /\ client.state \in {"INIT", "CERT", "FAILED"}
    /\ client.keys \subseteq published
    /\ client.revoked \subseteq client.keys \cap db_revoked
    /\ client.last \in Times
    /\ request.phase \in RequestPhases
    /\ requests \in 0..MaxRequests /\ losses \in 0..MaxLosses
=============================================================================
