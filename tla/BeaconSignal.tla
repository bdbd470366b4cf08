---------------------------- MODULE BeaconSignal ----------------------------
(***************************************************************************)
(* The peer registry of company-beacon-signal: SignalingState (peers and   *)
(* the file-hash index, state.rs) driven by the WebSocket connections that *)
(* share it behind one RwLock (handle_socket, handlers.rs).  Every handler *)
(* does its work on the registry under one acquisition of the lock, so a   *)
(* handler is one action.                                                  *)
(***************************************************************************)
EXTENDS Naturals, FiniteSets

CONSTANTS
    Conns,      \* WebSocket connections, each used for one connection
    PeerIds,    \* the `sub` claims that a validated token can carry
    Hashes,     \* file hashes peers advertise
    MAX_PEERS,  \* capacity of the registry
    NoPeer,     \* Option::None for a peer id
    NoEntry     \* a peer id with no key in `peers`

ASSUME MaxPeersAssumption == MAX_PEERS \in Nat
ASSUME NoPeerAssumption == NoPeer \notin PeerIds
ASSUME NoEntryAssumption == NoEntry \notin [file_hashes : SUBSET Hashes, tx : Conns]

VARIABLES
    peers,      \* HashMap<String, PeerEntry>: [PeerIds -> PeerEntry or NoEntry]
    hash_index, \* HashMap<String, String>: [Hashes -> owner or NoPeer]
    status,     \* "new", "open" (in the receive loop) or "closed"
    peer_id,    \* the local `peer_id` of each handle_socket
    receiver,   \* does the send task of the connection still hold `rx`?
    out         \* the <<connection, message>> pairs sent by the last handler

vars == <<peers, hash_index, status, peer_id, receiver, out>>

PeerEntry == [file_hashes : SUBSET Hashes, tx : Conns]

Message ==
    [type : {"registered", "peer_left", "signal"}, peerId : PeerIds]
        \cup [type : {"resolved"}, hash : Hashes, peerId : PeerIds]
        \cup [type : {"not_found"}, hash : Hashes]
        \cup [type : {"error"}]

TypeOK ==
    /\ peers \in [PeerIds -> PeerEntry \cup {NoEntry}]
    /\ hash_index \in [Hashes -> PeerIds \cup {NoPeer}]
    /\ status \in [Conns -> {"new", "open", "closed"}]
    /\ peer_id \in [Conns -> PeerIds \cup {NoPeer}]
    /\ receiver \in [Conns -> BOOLEAN]
    /\ out \subseteq Conns \X Message

Init ==
    /\ peers = [p \in PeerIds |-> NoEntry]
    /\ hash_index = [h \in Hashes |-> NoPeer]
    /\ status = [c \in Conns |-> "new"]
    /\ peer_id = [c \in Conns |-> NoPeer]
    /\ receiver = [c \in Conns |-> FALSE]
    /\ out = {}

-----------------------------------------------------------------------------
Registered == {p \in PeerIds : peers[p] # NoEntry}

(* `tx.send` fails silently once the receiving half is gone. *)
Send(c, m) == IF receiver[c] THEN {<<c, m>>} ELSE {}

(* remove_hashes: drop every index entry a peer owns. *)
WithoutHashesOf(index, p) ==
    [h \in Hashes |-> IF index[h] = p THEN NoPeer ELSE index[h]]

(* register: refuse a new peer at capacity; otherwise forget the peer's old
   hashes, index the unowned ones among the new, and replace the entry. *)
AtCapacity(p) == peers[p] = NoEntry /\ Cardinality(Registered) >= MAX_PEERS

IndexOnRegister(p, hs) ==
    LET cleaned == IF peers[p] # NoEntry THEN WithoutHashesOf(hash_index, p) ELSE hash_index
    IN  [h \in Hashes |->
            IF h \in hs /\ cleaned[h] = NoPeer THEN p ELSE cleaned[h]]

PeersWithout(p) == [peers EXCEPT ![p] = NoEntry]

(* resolve: the index entry, then the entry of that peer. *)
Resolves(h) == hash_index[h] # NoPeer /\ peers[hash_index[h]] # NoEntry

-----------------------------------------------------------------------------
(* on_upgrade: handle_socket starts with its send task and no peer id. *)
Connect(c) ==
    /\ status[c] = "new"
    /\ status' = [status EXCEPT ![c] = "open"]
    /\ receiver' = [receiver EXCEPT ![c] = TRUE]
    /\ out' = {}
    /\ UNCHANGED <<peers, hash_index, peer_id>>

(* A text frame that is refused: over the rate limit, not JSON of a known
   message, or with a token validate_token rejects. *)
Refuse(c) ==
    /\ status[c] = "open"
    /\ out' = Send(c, [type |-> "error"])
    /\ UNCHANGED <<peers, hash_index, status, peer_id, receiver>>

RegisterRefusedAfterClaim(c, p) ==
    /\ status[c] = "open"
    /\ AtCapacity(p)
    /\ peer_id' = [peer_id EXCEPT ![c] = p]
    /\ out' = Send(c, [type |-> "error"])
    /\ UNCHANGED <<peers, hash_index, status, receiver>>

RegisterRefused(c, p) ==
    /\ status[c] = "open"
    /\ AtCapacity(p)
    /\ out' = Send(c, [type |-> "error"])
    /\ UNCHANGED <<peers, hash_index, status, peer_id, receiver>>

Register(c, p, hs) ==
    /\ status[c] = "open"
    /\ ~AtCapacity(p)
    /\ hash_index' = IndexOnRegister(p, hs)
    /\ peers' = [peers EXCEPT ![p] = [file_hashes |-> hs, tx |-> c]]
    /\ peer_id' = [peer_id EXCEPT ![c] = p]
    /\ out' = Send(c, [type |-> "registered", peerId |-> p])
    /\ UNCHANGED <<status, receiver>>

Resolve(c, h) ==
    /\ status[c] = "open"
    /\ out' = Send(c, IF Resolves(h)
                      THEN [type |-> "resolved", hash |-> h, peerId |-> hash_index[h]]
                      ELSE [type |-> "not_found", hash |-> h])
    /\ UNCHANGED <<peers, hash_index, status, peer_id, receiver>>

(* `from` is the token's subject: a connection may signal without having
   registered. *)
Signal(c, from, to) ==
    /\ status[c] = "open"
    /\ out' = IF peers[to] # NoEntry
              THEN Send(peers[to].tx, [type |-> "signal", peerId |-> from])
              ELSE Send(c, [type |-> "error"])
    /\ UNCHANGED <<peers, hash_index, status, peer_id, receiver>>

(* The forwarding task ends when the socket's sending half fails, dropping
   `rx`, while the receive loop may still deliver frames. *)
SendTaskEnds(c) ==
    /\ status[c] = "open"
    /\ receiver[c]
    /\ receiver' = [receiver EXCEPT ![c] = FALSE]
    /\ out' = {}
    /\ UNCHANGED <<peers, hash_index, status, peer_id>>

(* Leave, a close frame, the end of the stream or a read error: the cleanup
   after the loop, which removes whatever entry the peer id has by now. *)
Disconnect(c) ==
    LET p == peer_id[c] IN
    /\ status[c] = "open"
    /\ status' = [status EXCEPT ![c] = "closed"]
    /\ receiver' = [receiver EXCEPT ![c] = FALSE]
    /\ IF p = NoPeer
       THEN /\ out' = {}
            /\ UNCHANGED <<peers, hash_index>>
       ELSE /\ hash_index' = WithoutHashesOf(hash_index, p)
            /\ peers' = PeersWithout(p)
            /\ out' = UNION {Send(peers[q].tx, [type |-> "peer_left", peerId |-> p]) :
                                q \in Registered \ {p}}
    /\ UNCHANGED peer_id

Next ==
    \E c \in Conns :
        \/ Connect(c)
        \/ Refuse(c)
        \/ SendTaskEnds(c)
        \/ Disconnect(c)
        \/ \E p \in PeerIds :
              \/ RegisterRefused(c, p)
              \/ \E hs \in SUBSET Hashes : Register(c, p, hs)
              \/ \E q \in PeerIds : Signal(c, p, q)
        \/ \E h \in Hashes : Resolve(c, h)

Spec == Init /\ [][Next]_vars

-----------------------------------------------------------------------------
(* The index never points past the registry: the owner of a hash is registered
   and advertises it.  register and remove keep the two maps of SignalingState
   in step through re-registrations, departures and shared hashes. *)
HashIndexConsistent ==
    \A h \in Hashes : hash_index[h] # NoPeer =>
        /\ peers[hash_index[h]] # NoEntry
        /\ h \in peers[hash_index[h]].file_hashes

(* What clients see of that: a `resolved` reply names a peer that is
   registered with this very hash at that moment. *)
ResolvedNamesHolder ==
    \A r \in out : r[2].type = "resolved" =>
        /\ peers[r[2].peerId] # NoEntry
        /\ r[2].hash \in peers[r[2].peerId].file_hashes

(* register never grows the registry beyond MAX_PEERS, re-registrations at
   capacity included. *)
RegistryBounded == Cardinality(Registered) <= MAX_PEERS

(* The entry of a closed connection survives only when that connection had
   since registered under another peer id: cleanup removes the last id. *)
NoEntryOfClosedConnection ==
    \A p \in Registered :
        status[peers[p].tx] = "closed" => peer_id[peers[p].tx] # p

(* An open connection that registered as p loses its entry only to the
   cleanup of another connection whose last id was p too. *)
EntryLostOnlyToSameId ==
    \A c \in Conns :
        (status[c] = "open" /\ peer_id[c] # NoPeer /\ peers[peer_id[c]] = NoEntry)
            => \E d \in Conns \ {c} : status[d] = "closed" /\ peer_id[d] = peer_id[c]

(* "First registrant wins": no step hands a hash from one owner straight to
   another; it must become unowned first. *)
HashNeverChangesHands ==
    [][\A h \in Hashes :
          hash_index[h] # NoPeer => hash_index'[h] \in {hash_index[h], NoPeer}]_vars

-----------------------------------------------------------------------------
(***************************************************************************)
(* Handshake authentication of company-beacon-signal: the HMAC check, the  *)
(* single-use session tokens handed out by POST /signal/auth (SessionStore,*)
(* state.rs; auth_handler, handlers.rs) and the upgrade of GET /signal     *)
(* (ws_handler, main.rs).  The store is used under one lock per request.   *)
(***************************************************************************)
CONSTANTS
    Upgrades,         \* upgrade requests
    Tokens,           \* the uuids auth_handler can draw
    MAX_SESSIONS,
    SESSION_TTL_SECS,
    HMAC_SKEW,        \* the 30 seconds of verify_client_hmac
    MaxTime,          \* bound: the clock stops here
    NoToken           \* a token that is not (or no longer) in the store

ASSUME SessionsAssumption ==
    /\ MAX_SESSIONS \in Nat /\ SESSION_TTL_SECS \in Nat
    /\ HMAC_SKEW \in Nat /\ MaxTime \in Nat

VARIABLES
    signal_secret, \* is SIGNAL_SECRET set? read once, at start-up
    now,      \* the clock, in seconds
    tokens,   \* HashMap<String, SessionEntry>: [Tokens -> entry or NoToken]
    issued,   \* <<token, time>> for every token drawn (a uuid is drawn once)
    admitted, \* connections whose upgrade was accepted
    uses      \* <<token, connection, time>> for every successful consume

sessionVars == <<signal_secret, now, tokens, issued, admitted, uses>>

SessionEntry == [created_at : 0..MaxTime, used : BOOLEAN]

SessionInit ==
    /\ signal_secret \in BOOLEAN
    /\ now = 0
    /\ tokens = [t \in Tokens |-> NoToken]
    /\ issued = {}
    /\ admitted = {}
    /\ uses = {}

SessionTypeOK ==
    /\ signal_secret \in BOOLEAN /\ now \in 0..MaxTime
    /\ tokens \in [Tokens -> SessionEntry \cup {NoToken}]
    /\ issued \subseteq Tokens \X (0..MaxTime) /\ admitted \subseteq Upgrades
    /\ uses \subseteq Tokens \X Upgrades \X (0..MaxTime)

-----------------------------------------------------------------------------
Stored(store) == {t \in Tokens : store[t] # NoToken}

(* abs_diff of the two clocks, then the MAC itself. *)
VerifyClientHmac(timestamp, mac_ok) ==
    /\ timestamp <= now + HMAC_SKEW
    /\ now <= timestamp + HMAC_SKEW
    /\ mac_ok

(* created_at.elapsed() >= SESSION_TTL_SECS *)
Elapsed(t) == now - tokens[t].created_at >= SESSION_TTL_SECS

EvictExpired ==
    [t \in Tokens |->
        IF tokens[t] # NoToken /\ Elapsed(t) THEN NoToken ELSE tokens[t]]

(* insert: the capacity is tested after the eviction, which happens even when
   the insertion is refused. *)
Full(store) == Cardinality(Stored(store)) >= MAX_SESSIONS

Insert(t) ==
    tokens' = IF Full(EvictExpired) THEN EvictExpired
              ELSE [EvictExpired EXCEPT ![t] = [created_at |-> now, used |-> FALSE]]

(* consume: only a stored, unused, unexpired token, marked used at once. *)
Consumable(t) == tokens[t] # NoToken /\ ~tokens[t].used /\ ~Elapsed(t)

Consume(t) == Consumable(t) /\ tokens' = [tokens EXCEPT ![t].used = TRUE]

-----------------------------------------------------------------------------
Tick ==
    /\ now < MaxTime
    /\ now' = now + 1
    /\ UNCHANGED <<signal_secret, tokens, issued, admitted, uses>>

(* POST /signal/auth: with a secret configured the HMAC must verify. *)
AuthHandler(t, timestamp, mac_ok) ==
    /\ signal_secret => VerifyClientHmac(timestamp, mac_ok)
    /\ \A i \in issued : i[1] # t
    /\ issued' = issued \cup {<<t, now>>}
    /\ Insert(t)
    /\ UNCHANGED <<signal_secret, now, admitted, uses>>

(* GET /signal without a secret: an open upgrade. *)
UpgradeOpen(c) ==
    /\ ~signal_secret
    /\ c \notin admitted
    /\ admitted' = admitted \cup {c}
    /\ UNCHANGED <<signal_secret, now, tokens, issued, uses>>

(* GET /signal with all three HMAC headers. *)
UpgradeHmac(c, timestamp, mac_ok) ==
    /\ signal_secret
    /\ c \notin admitted
    /\ VerifyClientHmac(timestamp, mac_ok)
    /\ admitted' = admitted \cup {c}
    /\ UNCHANGED <<signal_secret, now, tokens, issued, uses>>

(* GET /signal?session=t, when an HMAC header is missing. *)
UpgradeSession(c, t) ==
    /\ signal_secret
    /\ c \notin admitted
    /\ Consume(t)
    /\ admitted' = admitted \cup {c}
    /\ uses' = uses \cup {<<t, c, now>>}
    /\ UNCHANGED <<signal_secret, now, issued>>

WsHandler(c) ==
    \/ UpgradeOpen(c)
    \/ \E timestamp \in 0..MaxTime, mac_ok \in BOOLEAN : UpgradeHmac(c, timestamp, mac_ok)
    \/ \E t \in Tokens : UpgradeSession(c, t)

SessionNext ==
    \/ Tick
    \/ \E t \in Tokens, timestamp \in 0..MaxTime, mac_ok \in BOOLEAN :
          AuthHandler(t, timestamp, mac_ok)
    \/ \E c \in Upgrades : WsHandler(c)

SessionSpec == SessionInit /\ [][SessionNext]_sessionVars

-----------------------------------------------------------------------------
(* "single use": however requests, evictions and the clock interleave, one
   token lets at most one connection in, and nobody before it was issued or
   once SESSION_TTL_SECS have passed since, wherever the eviction of expired
   entries has got to. *)
TokenAdmitsOnce ==
    /\ \A u, v \in uses : u[1] = v[1] => u = v
    /\ \A u \in uses : \E i \in issued :
        i[1] = u[1] /\ i[2] <= u[3] /\ u[3] < i[2] + SESSION_TTL_SECS

-----------------------------------------------------------------------------
(***************************************************************************)
(* The whole signaling service: AppState holds the registry and the session*)
(* store, and the upgrade that ws_handler accepts is the one that starts a *)
(* handle_socket.  Every other handler touches one of the two stores only. *)
(***************************************************************************)
(* An upgrade request is the start of a connection. *)
ASSUME UpgradesAreConns == Upgrades = Conns

allVars == <<vars, sessionVars>>

ServiceInit == Init /\ SessionInit

(* ws_handler: authenticate the upgrade, then hand the socket over. *)
HandOver(c) == WsHandler(c) /\ Connect(c)

Authenticate ==
    /\ \/ Tick
       \/ \E t \in Tokens, timestamp \in 0..MaxTime, mac_ok \in BOOLEAN :
             AuthHandler(t, timestamp, mac_ok)
    /\ UNCHANGED vars

HandleFrame(c) ==
    /\ \/ Refuse(c)
       \/ SendTaskEnds(c)
       \/ Disconnect(c)
       \/ \E p \in PeerIds :
             \/ RegisterRefused(c, p)
             \/ \E hs \in SUBSET Hashes : Register(c, p, hs)
             \/ \E q \in PeerIds : Signal(c, p, q)
       \/ \E h \in Hashes : Resolve(c, h)
    /\ UNCHANGED sessionVars

ServiceNext == Authenticate \/ \E c \in Conns : HandOver(c) \/ HandleFrame(c)

ServiceSpec == ServiceInit /\ [][ServiceNext]_allVars

=============================================================================
