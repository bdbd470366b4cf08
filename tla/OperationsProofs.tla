-------------------------- MODULE OperationsProofs --------------------------
(***************************************************************************)
(* For any number of connections, peers, requests, hashes and messages:    *)
(* what the peer registry loses, what the ledger of beacons keeps, and     *)
(* that the pages of a channel leave no message out.                       *)
(***************************************************************************)
EXTENDS BeaconSignal, BeaconLedger, ChannelMessages, FiniteSetTheorems, TLAPS

(* Leaves go to Zenon unless they name another prover. *)
USE Zenon

(* Sending yields at most the one pair, and only messages of the protocol:
   what `tx.send` can put into a connection's channel. *)
LEMMA SendType ==
    ASSUME NEW c \in Conns, NEW m \in Message
    PROVE  Send(c, m) \subseteq Conns \X Message
BY SMT DEF Send

(* NoEntry is told apart from the entries only by not being one. *)
LEMMA EntryFields ==
    ASSUME TypeOK, NEW p \in PeerIds, peers[p] # NoEntry
    PROVE  peers[p] \in PeerEntry /\ peers[p].tx \in Conns
BY DEF TypeOK, PeerEntry

(* Every handler of the registry keeps its state well typed. *)
LEMMA TypeOKStep == TypeOK /\ [Next]_vars => TypeOK'
<1> SUFFICES ASSUME TypeOK, [Next]_vars PROVE TypeOK'
    OBVIOUS
<1>1. CASE UNCHANGED vars
    BY <1>1 DEF TypeOK, vars
<1>2. ASSUME NEW c \in Conns, Connect(c) PROVE TypeOK'
    BY <1>2 DEF TypeOK, Connect
<1>3. ASSUME NEW c \in Conns, Refuse(c) PROVE TypeOK'
    <2>1. [type |-> "error"] \in Message
        BY DEF Message
    <2> QED BY <1>3, <2>1, SendType DEF TypeOK, Refuse
<1>4. ASSUME NEW c \in Conns, SendTaskEnds(c) PROVE TypeOK'
    BY <1>4 DEF TypeOK, SendTaskEnds
<1>5. ASSUME NEW c \in Conns, Disconnect(c) PROVE TypeOK'
    <2> DEFINE p == peer_id[c]
    <2>1. CASE p = NoPeer
        BY <1>5, <2>1 DEF TypeOK, Disconnect
    <2>2. CASE p # NoPeer
        <3>1. p \in PeerIds
            BY <2>2 DEF TypeOK
        <3>2. out' \subseteq Conns \X Message
            <4>1. [type |-> "peer_left", peerId |-> p] \in Message
                BY <3>1 DEF Message
            <4>2. \A q \in Registered :
                     Send(peers[q].tx, [type |-> "peer_left", peerId |-> p])
                        \subseteq Conns \X Message
                BY <4>1, SendType, EntryFields DEF Registered
            <4> QED BY <1>5, <2>2, <4>2, SMT DEF Disconnect
        <3>3. peers' \in [PeerIds -> PeerEntry \cup {NoEntry}]
            BY <1>5, <2>2, <3>1 DEF TypeOK, Disconnect, PeersWithout
        <3>4. hash_index' \in [Hashes -> PeerIds \cup {NoPeer}]
            BY <1>5, <2>2 DEF TypeOK, Disconnect, WithoutHashesOf
        <3> QED BY <1>5, <3>2, <3>3, <3>4 DEF TypeOK, Disconnect
    <2> QED BY <2>1, <2>2
<1>6. ASSUME NEW c \in Conns, NEW p \in PeerIds, RegisterRefused(c, p) PROVE TypeOK'
    <2>1. [type |-> "error"] \in Message
        BY DEF Message
    <2> QED BY <1>6, <2>1, SendType DEF TypeOK, RegisterRefused
<1>7. ASSUME NEW c \in Conns, NEW p \in PeerIds, NEW hs \in SUBSET Hashes, Register(c, p, hs)
      PROVE TypeOK'
    <2>1. [type |-> "registered", peerId |-> p] \in Message
        BY DEF Message
    <2>2. [file_hashes |-> hs, tx |-> c] \in PeerEntry
        BY DEF PeerEntry
    <2>3. hash_index' \in [Hashes -> PeerIds \cup {NoPeer}]
        BY <1>7 DEF TypeOK, Register, IndexOnRegister, WithoutHashesOf
    <2> QED BY <1>7, <2>1, <2>2, <2>3, SendType DEF TypeOK, Register
<1>8. ASSUME NEW c \in Conns, NEW p \in PeerIds, NEW q \in PeerIds, Signal(c, p, q)
      PROVE TypeOK'
    <2>1. [type |-> "signal", peerId |-> p] \in Message /\ [type |-> "error"] \in Message
        BY DEF Message
    <2>2. out' \subseteq Conns \X Message
        BY <1>8, <2>1, SendType, EntryFields DEF Signal
    <2> QED BY <1>8, <2>2 DEF TypeOK, Signal
<1>9. ASSUME NEW c \in Conns, NEW h \in Hashes, Resolve(c, h) PROVE TypeOK'
    <2>1. [type |-> "not_found", hash |-> h] \in Message
        BY DEF Message
    <2>2. Resolves(h) => [type |-> "resolved", hash |-> h, peerId |-> hash_index[h]] \in Message
        BY DEF Message, Resolves, TypeOK
    <2>3. out' \subseteq Conns \X Message
        BY <1>9, <2>1, <2>2, SendType DEF Resolve
    <2> QED BY <1>9, <2>3 DEF TypeOK, Resolve
<1> QED BY <1>1, <1>2, <1>3, <1>4, <1>5, <1>6, <1>7, <1>8, <1>9 DEF Next

(* The registry state is well typed in every reachable state. *)
THEOREM TypeCorrect == Spec => []TypeOK
<1>1. Init => TypeOK
    BY DEF Init, TypeOK
<1> QED BY <1>1, TypeOKStep, PTL DEF Spec

-----------------------------------------------------------------------------
(* How a step moves an index entry: it keeps its owner, becomes unowned, or is
   claimed by the peer registering the hash, which is then in that peer's new
   entry.  The entry of the other peers is left alone. *)
LEMMA IndexMoves ==
    ASSUME TypeOK, HashIndexConsistent,
           NEW c \in Conns, NEW p \in PeerIds, NEW hs \in SUBSET Hashes,
           Register(c, p, hs), NEW h \in Hashes, hash_index'[h] # NoPeer
    PROVE  \/ hash_index'[h] = p /\ h \in hs
           \/ hash_index'[h] = hash_index[h] /\ hash_index[h] # p
<1>1. p # NoPeer
    BY NoPeerAssumption
<1>2. CASE peers[p] # NoEntry
    BY <1>1, <1>2 DEF TypeOK, Register, IndexOnRegister, WithoutHashesOf
<1>3. CASE peers[p] = NoEntry
    <2>1. hash_index[h] # p
        BY <1>1, <1>3 DEF HashIndexConsistent
    <2> QED BY <1>1, <1>3, <2>1 DEF TypeOK, Register, IndexOnRegister
<1> QED BY <1>2, <1>3

(* register and remove keep the hash index inside the registry. *)
LEMMA HashIndexStep ==
    TypeOK /\ HashIndexConsistent /\ [Next]_vars => HashIndexConsistent'
<1> SUFFICES ASSUME TypeOK, HashIndexConsistent, [Next]_vars,
                    NEW h \in Hashes, hash_index'[h] # NoPeer
             PROVE  /\ peers'[hash_index'[h]] # NoEntry
                    /\ h \in peers'[hash_index'[h]].file_hashes
    BY DEF HashIndexConsistent
<1>1. CASE UNCHANGED <<peers, hash_index>>
    BY <1>1 DEF HashIndexConsistent
<1>2. ASSUME NEW c \in Conns, Disconnect(c), ~UNCHANGED <<peers, hash_index>>
      PROVE  /\ peers'[hash_index'[h]] # NoEntry
             /\ h \in peers'[hash_index'[h]].file_hashes
    <2>1. hash_index'[h] = hash_index[h] /\ hash_index[h] # peer_id[c]
        BY <1>2 DEF Disconnect, WithoutHashesOf
    <2>2. hash_index[h] \in PeerIds /\ peers'[hash_index[h]] = peers[hash_index[h]]
        BY <1>2, <2>1 DEF Disconnect, PeersWithout, TypeOK
    <2> QED BY <2>1, <2>2 DEF HashIndexConsistent
<1>3. ASSUME NEW c \in Conns, NEW p \in PeerIds, NEW hs \in SUBSET Hashes, Register(c, p, hs)
      PROVE  /\ peers'[hash_index'[h]] # NoEntry
             /\ h \in peers'[hash_index'[h]].file_hashes
    <2>1. peers' = [peers EXCEPT ![p] = [file_hashes |-> hs, tx |-> c]]
        BY <1>3 DEF Register
    <2>2. CASE hash_index'[h] = p /\ h \in hs
        BY <2>1, <2>2, NoEntryAssumption, SMT DEF TypeOK, PeerEntry
    <2>3. CASE hash_index'[h] = hash_index[h] /\ hash_index[h] # p
        <3>1. hash_index[h] \in PeerIds
            BY <2>3 DEF TypeOK
        <3> QED BY <2>1, <2>3, <3>1 DEF HashIndexConsistent, TypeOK
    <2> QED BY <1>3, <2>2, <2>3, IndexMoves, SMT
<1> QED BY <1>1, <1>2, <1>3
        DEF Next, vars, Connect, Refuse, SendTaskEnds, RegisterRefused, Signal, Resolve

(* The index never points past the registry, for any number of peers. *)
THEOREM IndexInsideRegistry == Spec => []HashIndexConsistent
<1>1. Init => HashIndexConsistent
    BY DEF Init, HashIndexConsistent
<1> QED BY <1>1, HashIndexStep, TypeCorrect, PTL DEF Spec

(* No step hands a hash from one owner to another: first registrant wins.  *)
THEOREM FirstRegistrantWins == Spec => HashNeverChangesHands
<1>1. ASSUME TypeOK, [Next]_vars, NEW h \in Hashes, hash_index[h] # NoPeer
      PROVE  hash_index'[h] \in {hash_index[h], NoPeer}
    <2>1. CASE UNCHANGED hash_index
        BY <2>1
    <2>2. ASSUME NEW c \in Conns, Disconnect(c)
          PROVE  hash_index'[h] \in {hash_index[h], NoPeer}
        BY <2>2 DEF Disconnect, WithoutHashesOf
    <2>3. ASSUME NEW c \in Conns, NEW p \in PeerIds, NEW hs \in SUBSET Hashes,
                 Register(c, p, hs)
          PROVE  hash_index'[h] \in {hash_index[h], NoPeer}
        BY <1>1, <2>3 DEF Register, IndexOnRegister, WithoutHashesOf
    <2> QED BY <1>1, <2>1, <2>2, <2>3
            DEF Next, vars, Connect, Refuse, SendTaskEnds, RegisterRefused, Signal, Resolve
<1>2. TypeOK /\ [Next]_vars
        => [\A h \in Hashes : hash_index[h] # NoPeer
                => hash_index'[h] \in {hash_index[h], NoPeer}]_vars
    BY <1>1
<1> QED BY <1>2, TypeCorrect, PTL DEF Spec, HashNeverChangesHands

-----------------------------------------------------------------------------
(* A `resolved` reply is built from the index, so it names a holder; every
   other handler sends no such reply. *)
THEOREM ResolvedIsHolder == Spec => []ResolvedNamesHolder
<1>1. Init => ResolvedNamesHolder
    BY DEF Init, ResolvedNamesHolder
<1>2. TypeOK /\ HashIndexConsistent /\ ResolvedNamesHolder /\ [Next]_vars
        => ResolvedNamesHolder'
    <2> SUFFICES ASSUME TypeOK, HashIndexConsistent, ResolvedNamesHolder, [Next]_vars,
                        NEW r \in out', r[2].type = "resolved"
                 PROVE  /\ peers'[r[2].peerId] # NoEntry
                        /\ r[2].hash \in peers'[r[2].peerId].file_hashes
        BY DEF ResolvedNamesHolder
    <2>1. CASE UNCHANGED vars
        BY <2>1 DEF vars, ResolvedNamesHolder
    <2>2. ASSUME NEW c \in Conns, NEW h \in Hashes, Resolve(c, h)
          PROVE  /\ peers'[r[2].peerId] # NoEntry
                 /\ r[2].hash \in peers'[r[2].peerId].file_hashes
        <3>1. CASE Resolves(h)
            <4>1. r[2] = [type |-> "resolved", hash |-> h, peerId |-> hash_index[h]]
                BY <2>2, <3>1, SMT DEF Resolve, Send
            <4> QED BY <2>2, <3>1, <4>1, SMT DEF Resolve, Resolves, HashIndexConsistent
        <3>2. CASE ~Resolves(h)
            <4>1. r[2] = [type |-> "not_found", hash |-> h]
                BY <2>2, <3>2, SMT DEF Resolve, Send
            <4> QED BY <4>1, SMT
        <3> QED BY <3>1, <3>2
    <2>3. ASSUME NEW c \in Conns, Disconnect(c) PROVE FALSE
        <3>1. PICK q \in Registered :
                 r \in Send(peers[q].tx, [type |-> "peer_left", peerId |-> peer_id[c]])
            BY <2>3, SMT DEF Disconnect
        <3> QED BY <3>1, SMT DEF Send
    <2>4. ASSUME NEW c \in Conns, NEW p \in PeerIds, NEW q \in PeerIds, Signal(c, p, q)
          PROVE  FALSE
        BY <2>4, SMT DEF Signal, Send
    <2>5. ASSUME NEW c \in Conns, NEW p \in PeerIds, NEW hs \in SUBSET Hashes,
                 Register(c, p, hs)
          PROVE  FALSE
        BY <2>5, SMT DEF Register, Send
    <2>6. ASSUME NEW c \in Conns,
                 \/ Connect(c) \/ Refuse(c) \/ SendTaskEnds(c)
                 \/ \E p \in PeerIds : RegisterRefused(c, p)
          PROVE  FALSE
        BY <2>6, SMT DEF Connect, Refuse, SendTaskEnds, RegisterRefused, Send
    <2> QED BY <2>1, <2>2, <2>3, <2>4, <2>5, <2>6 DEF Next
<1> QED BY <1>1, <1>2, TypeCorrect, IndexInsideRegistry, PTL DEF Spec

(* Cleanup removes the entry under the connection's last peer id, so an entry
   of a closed connection is one it registered before under another id. *)
THEOREM ClosedEntriesAreOlderIds == Spec => []NoEntryOfClosedConnection
<1>1. Init => NoEntryOfClosedConnection
    BY SMT DEF Init, NoEntryOfClosedConnection, Registered
<1>2. TypeOK /\ NoEntryOfClosedConnection /\ [Next]_vars => NoEntryOfClosedConnection'
    <2> SUFFICES ASSUME TypeOK, NoEntryOfClosedConnection, [Next]_vars,
                        NEW q \in PeerIds, peers'[q] # NoEntry,
                        status'[peers'[q].tx] = "closed"
                 PROVE  peer_id'[peers'[q].tx] # q
        BY DEF NoEntryOfClosedConnection, Registered
    <2>1. CASE UNCHANGED <<peers, status, peer_id>>
        BY <2>1 DEF NoEntryOfClosedConnection, Registered
    <2>2. ASSUME NEW c \in Conns, Connect(c) PROVE peer_id'[peers'[q].tx] # q
        BY <2>2, EntryFields DEF Connect, NoEntryOfClosedConnection, Registered, TypeOK
    <2>3. ASSUME NEW c \in Conns, Disconnect(c) PROVE peer_id'[peers'[q].tx] # q
        <3>1. peers'[q] = peers[q] /\ q # peer_id[c]
            BY <2>3, NoPeerAssumption DEF Disconnect, PeersWithout, TypeOK
        <3> QED BY <2>3, <3>1, EntryFields
                DEF Disconnect, NoEntryOfClosedConnection, Registered, TypeOK
    <2>4. ASSUME NEW c \in Conns, NEW p \in PeerIds, NEW hs \in SUBSET Hashes,
                 Register(c, p, hs)
          PROVE  peer_id'[peers'[q].tx] # q
        <3>1. CASE q = p
            BY <2>4, <3>1 DEF Register, TypeOK
        <3>2. CASE q # p
            BY <2>4, <3>2, EntryFields
               DEF Register, NoEntryOfClosedConnection, Registered, TypeOK
        <3> QED BY <3>1, <3>2
    <2> QED BY <2>1, <2>2, <2>3, <2>4
            DEF Next, vars, Refuse, SendTaskEnds, RegisterRefused, Signal, Resolve
<1> QED BY <1>1, <1>2, TypeCorrect, PTL DEF Spec

(* handle_socket starts with `peer_id` unset: the strengthening that the next
   theorem needs for a connection that has just opened. *)
StartsUnregistered == \A c \in Conns : status[c] = "new" => peer_id[c] = NoPeer

LEMMA UnusedHasNoId == Spec => []StartsUnregistered
<1>1. Init => StartsUnregistered
    BY DEF Init, StartsUnregistered
<1>2. TypeOK /\ StartsUnregistered /\ [Next]_vars => StartsUnregistered'
    BY DEF Next, vars, StartsUnregistered, TypeOK, Connect, Refuse, SendTaskEnds,
           Disconnect, RegisterRefused, Register, Signal, Resolve
<1> QED BY <1>1, <1>2, TypeCorrect, PTL DEF Spec

(* An open connection misses its entry only when another connection with the
   same last peer id went through the cleanup. *)
THEOREM LostOnlyToSameId == Spec => []EntryLostOnlyToSameId
<1> DEFINE Lost(c) == status[c] = "open" /\ peer_id[c] # NoPeer /\ peers[peer_id[c]] = NoEntry
<1> DEFINE Twin(c) == \E d \in Conns \ {c} : status[d] = "closed" /\ peer_id[d] = peer_id[c]
<1>1. Init => EntryLostOnlyToSameId
    BY DEF Init, EntryLostOnlyToSameId
<1>2. TypeOK /\ StartsUnregistered /\ EntryLostOnlyToSameId /\ [Next]_vars
        => EntryLostOnlyToSameId'
    <2> SUFFICES ASSUME TypeOK, StartsUnregistered, EntryLostOnlyToSameId, [Next]_vars,
                        NEW e \in Conns, Lost(e)'
                 PROVE  Twin(e)'
        BY DEF EntryLostOnlyToSameId
    <2>1. CASE UNCHANGED <<peers, status, peer_id>>
        BY <2>1 DEF EntryLostOnlyToSameId
    <2>2. ASSUME NEW c \in Conns, Connect(c) PROVE Twin(e)'
        <3>1. CASE e = c
            BY <2>2, <3>1 DEF Connect, StartsUnregistered
        <3>2. CASE e # c
            BY <2>2, <3>2 DEF Connect, EntryLostOnlyToSameId, TypeOK
        <3> QED BY <3>1, <3>2
    <2>3. ASSUME NEW c \in Conns, Disconnect(c) PROVE Twin(e)'
        <3>1. e # c /\ peer_id' = peer_id /\ status[e] = "open"
            BY <2>3 DEF Disconnect, TypeOK
        <3>2. CASE peer_id[e] = peer_id[c]
            BY <2>3, <3>1, <3>2 DEF Disconnect, TypeOK
        <3>3. CASE peer_id[e] # peer_id[c]
            <4>1. peers[peer_id[e]] = NoEntry
                BY <2>3, <3>1, <3>3, SMT DEF Disconnect, PeersWithout, TypeOK
            <4>2. Twin(e)
                BY <3>1, <4>1 DEF EntryLostOnlyToSameId
            <4> QED BY <2>3, <3>1, <4>2 DEF Disconnect, TypeOK
        <3> QED BY <3>2, <3>3
    <2>4. ASSUME NEW c \in Conns, NEW p \in PeerIds, NEW hs \in SUBSET Hashes,
                 Register(c, p, hs)
          PROVE  Twin(e)'
        <3>1. peer_id'[e] # p
            BY <2>4, NoEntryAssumption DEF Register, TypeOK, PeerEntry
        <3>2. e # c
            BY <2>4, <3>1 DEF Register, TypeOK
        <3>3. Lost(e)
            BY <2>4, <3>1, <3>2 DEF Register, TypeOK
        <3> QED BY <2>4, <3>2, <3>3, SMT DEF Register, TypeOK, EntryLostOnlyToSameId
    <2> QED BY <2>1, <2>2, <2>3, <2>4
            DEF Next, vars, Refuse, SendTaskEnds, RegisterRefused, Signal, Resolve
<1> QED BY <1>1, <1>2, TypeCorrect, UnusedHasNoId, PTL DEF Spec

(* register refuses a new peer at capacity, so the registry stays bounded. *)
THEOREM CapacityRespected == Spec => []RegistryBounded
<1> DEFINE Bounded == IsFiniteSet(Registered) /\ RegistryBounded
<1>1. Init => Bounded
    <2> SUFFICES ASSUME Init PROVE Bounded
        OBVIOUS
    <2>1. Registered = {}
        BY DEF Init, Registered
    <2> QED BY <2>1, FS_EmptySet, MaxPeersAssumption, SMT DEF RegistryBounded
<1>2. TypeOK /\ Bounded /\ [Next]_vars => Bounded'
    <2> SUFFICES ASSUME TypeOK, Bounded, [Next]_vars PROVE Bounded'
        OBVIOUS
    <2>1. CASE UNCHANGED peers
        BY <2>1 DEF Registered, RegistryBounded
    <2>2. ASSUME NEW c \in Conns, Disconnect(c), ~UNCHANGED peers PROVE Bounded'
        <3>1. Registered' \subseteq Registered
            BY <2>2 DEF Disconnect, PeersWithout, Registered, TypeOK
        <3>2. IsFiniteSet(Registered') /\ Cardinality(Registered') <= Cardinality(Registered)
            BY <3>1, FS_Subset
        <3>3. Cardinality(Registered') \in Nat /\ Cardinality(Registered) \in Nat
            BY <3>2, FS_CardinalityType
        <3> QED BY <3>2, <3>3, MaxPeersAssumption, SMT DEF RegistryBounded
    <2>3. ASSUME NEW c \in Conns, NEW p \in PeerIds, NEW hs \in SUBSET Hashes,
                 Register(c, p, hs)
          PROVE  Bounded'
        <3>1. Registered' = Registered \cup {p}
            BY <2>3, NoEntryAssumption, SMT DEF Register, Registered, TypeOK, PeerEntry
        <3>2. CASE p \in Registered
            <4>1. Registered' = Registered
                BY <3>1, <3>2
            <4> QED BY <4>1 DEF RegistryBounded
        <3>3. CASE p \notin Registered
            <4>1. ~(Cardinality(Registered) >= MAX_PEERS)
                BY <2>3, <3>3 DEF Register, AtCapacity, Registered
            <4>2. /\ IsFiniteSet(Registered')
                  /\ Cardinality(Registered') = Cardinality(Registered) + 1
                BY <3>1, <3>3, FS_AddElement
            <4>3. Cardinality(Registered) \in Nat
                BY FS_CardinalityType
            <4> QED BY <4>1, <4>2, <4>3, MaxPeersAssumption, SMT DEF RegistryBounded
        <3> QED BY <3>2, <3>3
    <2> QED BY <2>1, <2>2, <2>3
            DEF Next, vars, Connect, Refuse, SendTaskEnds, RegisterRefused, Signal, Resolve
<1> QED BY <1>1, <1>2, TypeCorrect, PTL DEF Spec

(***************************************************************************)
(* The ledger of beacons.  A document never vanishes, so what a request has  *)
(* read is there when it writes; and until there is one, nothing was       *)
(* downloaded.                                                             *)
(***************************************************************************)
Ops == {"update", "delete", "seen"}

LedgerIInv ==
    /\ LedgerTypeOK
    /\ DOMAIN downloads = BeaconIds
    /\ DOMAIN lreq = LRequests
    /\ \A q \in LRequests : lreq[q].op \in Ops =>
          lreq[q].id \in BeaconIds /\ ledger[lreq[q].id] # NoBeacon
    /\ \A b \in BeaconIds : ledger[b] = NoBeacon => downloads[b] = 0
    /\ LedgerKept

(* One document is written, and its request is served. *)
LEMMA LedgerWrite ==
    ASSUME LedgerIInv, NEW b \in BeaconIds, NEW d \in Beacon, NEW n,
           DOMAIN ledger' = BeaconIds, ledger'[b] = d,
           \A c \in BeaconIds : c # b => ledger'[c] = ledger[c],
           DOMAIN downloads' = BeaconIds, downloads'[b] = n,
           \A c \in BeaconIds : c # b => downloads'[c] = downloads[c],
           d.download_count = n, d.expiry_mode = "Custom" => d.expires_at,
           lreq' = lreq \/ \E q \in LRequests : LReq(q, Ready0),
           ledger' \in [BeaconIds -> Beacon \cup {NoBeacon}]
    PROVE  LedgerIInv'
<1>1. d # NoBeacon
  BY LedgerAssumption
<1>2. /\ DOMAIN lreq' = LRequests
      /\ \A q \in LRequests : lreq'[q].op \in Ops => lreq'[q] = lreq[q]
  <2>1. CASE lreq' = lreq
    BY <2>1 DEF LedgerIInv
  <2>2. ASSUME NEW q \in LRequests, LReq(q, Ready0)
        PROVE  /\ DOMAIN lreq' = LRequests
               /\ \A r \in LRequests : lreq'[r].op \in Ops => lreq'[r] = lreq[r]
    <3>1. DOMAIN lreq' = LRequests /\ lreq'[q] = Ready0 /\ \A r \in LRequests : r # q => lreq'[r] = lreq[r]
      BY <2>2 DEF LedgerIInv, LReq
    <3>2. Ready0.op \notin Ops
      BY DEF Ready0, Ops
    <3> QED
      BY <3>1, <3>2
  <2> QED
    BY <2>1, <2>2
<1>3. \A q \in LRequests : lreq'[q].op \in Ops =>
          lreq'[q].id \in BeaconIds /\ ledger'[lreq'[q].id] # NoBeacon
  BY <1>1, <1>2, SMT DEF LedgerIInv
<1> QED
  BY <1>1, <1>2, <1>3, SMT DEF LedgerIInv, LedgerTypeOK, LedgerKept

LEMMA RegisterKeeps ==
    ASSUME LedgerIInv, NEW b \in BeaconIds, NEW m \in Modes, register_beacon(b, m)
    PROVE  LedgerIInv'
<1> DEFINE custom == m = "Custom"
           doc == [status |-> "Active", expiry_mode |-> m, expires_at |-> custom, download_count |-> 0]
           d == IF ledger[b] = NoBeacon THEN doc
                ELSE [doc EXCEPT !.download_count = ledger[b].download_count,
                                 !.expires_at = @ \/ ledger[b].expires_at]
<1>1. doc \in Beacon /\ doc.download_count = 0 /\ (doc.expiry_mode = "Custom" => doc.expires_at)
  <2>1. custom \in BOOLEAN /\ (m = "Custom" => custom)
    OBVIOUS
  <2> HIDE DEF custom
  <2> QED
    BY <2>1, LedgerAssumption, SMT DEF Beacon
<1>2. ledger[b] # NoBeacon => ledger[b] \in Beacon /\ ledger[b].download_count = downloads[b]
  BY SMT DEF LedgerIInv, LedgerTypeOK, LedgerKept
<1>3. d \in Beacon /\ d.download_count = downloads[b] /\ (d.expiry_mode = "Custom" => d.expires_at)
  <2>1. CASE ledger[b] = NoBeacon
    BY <2>1, <1>1 DEF LedgerIInv
  <2>2. CASE ledger[b] # NoBeacon
    BY <2>2, <1>2 DEF Beacon
  <2> QED
    BY <2>1, <2>2
<1>4. ledger' = [ledger EXCEPT ![b] = d] /\ UNCHANGED <<lreq, downloads>>
  BY DEF register_beacon, insert_beacon
<1> HIDE DEF d
<1>5. /\ DOMAIN ledger' = BeaconIds /\ ledger'[b] = d
      /\ \A c \in BeaconIds : c # b => ledger'[c] = ledger[c]
      /\ ledger' \in [BeaconIds -> Beacon \cup {NoBeacon}]
  BY <1>3, <1>4 DEF LedgerIInv, LedgerTypeOK
<1> QED
  BY <1>3, <1>4, <1>5, LedgerWrite DEF LedgerIInv

LEMMA FetchKeeps ==
    ASSUME LedgerIInv, NEW q \in LRequests, NEW b \in BeaconIds, NEW op \in Ops,
           fetch_beacon(q, b, op)
    PROVE  LedgerIInv'
<1> DEFINE r == [op |-> op, id |-> b, mode |-> ledger[b].expiry_mode]
<1>1. /\ ledger[b] # NoBeacon /\ UNCHANGED <<ledger, downloads>>
      /\ DOMAIN lreq' = LRequests /\ lreq'[q] = r
      /\ \A p \in LRequests : p # q => lreq'[p] = lreq[p]
  BY DEF fetch_beacon, LReq, LedgerIInv
<1>2. r.id = b
  OBVIOUS
<1> HIDE DEF r
<1> QED
  BY <1>1, <1>2, SMT DEF LedgerIInv, LedgerTypeOK, LedgerKept

LEMMA UpdateBeaconKeeps ==
    ASSUME LedgerIInv, NEW q \in LRequests,
           NEW mode \in {{}} \cup {{m} : m \in Modes}, NEW dl \in BOOLEAN,
           NEW st \in {{}, {"Active"}, {"Expired"}}, update_beacon(q, mode, dl, st)
    PROVE  LedgerIInv'
<1>1. PICK b \in BeaconIds : b = lreq[q].id /\ ledger[b] \in Beacon /\ ledger[b] # NoBeacon
  BY DEF update_beacon, LedgerIInv, LedgerTypeOK, Ops
<1> DEFINE d == Patched(ledger[b], mode, dl, st)
<1>2. ledger' = [ledger EXCEPT ![b] = d] /\ LReq(q, Ready0) /\ downloads' = downloads
  BY <1>1 DEF update_beacon
<1>3. /\ mode # {} => \E m \in Modes : mode = {m} /\ (CHOOSE x \in mode : TRUE) = m
      /\ st # {} => \E s \in {"Active", "Expired"} : st = {s} /\ (CHOOSE x \in st : TRUE) = s
  OBVIOUS
<1>4. d \in Beacon /\ d.download_count = ledger[b].download_count
  BY <1>1, <1>3 DEF Beacon, Patched
<1>5. d.expiry_mode = "Custom" => d.expires_at
  <2>1. ledger[b].expiry_mode = "Custom" => ledger[b].expires_at
    BY <1>1 DEF LedgerIInv, LedgerKept
  <2>2. mode = {"Custom"} => dl
    BY DEF update_beacon, DeadlineFits
  <2> QED
    BY <1>1, <1>3, <2>1, <2>2 DEF Beacon, Patched
<1> HIDE DEF d
<1>6. /\ DOMAIN ledger' = BeaconIds /\ ledger'[b] = d
      /\ \A c \in BeaconIds : c # b => ledger'[c] = ledger[c]
      /\ ledger' \in [BeaconIds -> Beacon \cup {NoBeacon}]
  BY <1>2, <1>4 DEF LedgerIInv, LedgerTypeOK
<1>7. d.download_count = downloads[b]
  BY <1>1, <1>4 DEF LedgerIInv, LedgerKept
<1> QED
  BY <1>2, <1>4, <1>5, <1>6, <1>7, LedgerWrite, SMT DEF LedgerIInv

LEMMA SeenKeeps ==
    ASSUME LedgerIInv, NEW q \in LRequests, record_beacon_seen(q)
    PROVE  LedgerIInv'
<1>1. PICK b \in BeaconIds : b = lreq[q].id /\ ledger[b] \in Beacon /\ ledger[b] # NoBeacon
  BY DEF record_beacon_seen, LedgerIInv, LedgerTypeOK, Ops
<1> DEFINE d == [ledger[b] EXCEPT !.download_count = @ + 1]
<1>2. /\ ledger' = [ledger EXCEPT ![b] = d] /\ LReq(q, Ready0)
      /\ downloads' = [downloads EXCEPT ![b] = @ + 1] /\ downloads[b] < MaxDownloads
  BY <1>1 DEF record_beacon_seen, record_beacon_download
<1>3. /\ ledger[b].download_count = downloads[b]
      /\ ledger[b].expiry_mode = "Custom" => ledger[b].expires_at
  BY <1>1 DEF LedgerIInv, LedgerKept
<1>4. /\ d \in Beacon /\ d.download_count = downloads[b] + 1
      /\ d.expiry_mode = "Custom" => d.expires_at
  BY <1>1, <1>2, <1>3, LedgerAssumption, SMT DEF Beacon
<1> HIDE DEF d
<1>5. /\ DOMAIN ledger' = BeaconIds /\ ledger'[b] = d
      /\ \A c \in BeaconIds : c # b => ledger'[c] = ledger[c]
      /\ ledger' \in [BeaconIds -> Beacon \cup {NoBeacon}]
      /\ DOMAIN downloads' = BeaconIds /\ downloads'[b] = downloads[b] + 1
      /\ \A c \in BeaconIds : c # b => downloads'[c] = downloads[c]
  BY <1>2, <1>4 DEF LedgerIInv, LedgerTypeOK
<1> QED
  BY <1>2, <1>4, <1>5, LedgerWrite

LEMMA DeleteBeaconKeeps ==
    ASSUME LedgerIInv, NEW q \in LRequests, delete_beacon(q)
    PROVE  LedgerIInv'
<1>1. PICK b \in BeaconIds : b = lreq[q].id /\ ledger[b] \in Beacon /\ ledger[b] # NoBeacon
  BY DEF delete_beacon, LedgerIInv, LedgerTypeOK, Ops
<1> DEFINE d == [ledger[b] EXCEPT !.status = "Deleted"]
<1>2. ledger' = [ledger EXCEPT ![b] = d] /\ LReq(q, Ready0) /\ downloads' = downloads
  BY <1>1 DEF delete_beacon
<1>3. /\ ledger[b].download_count = downloads[b]
      /\ ledger[b].expiry_mode = "Custom" => ledger[b].expires_at
  BY <1>1 DEF LedgerIInv, LedgerKept
<1>4. /\ d \in Beacon /\ d.download_count = downloads[b]
      /\ d.expiry_mode = "Custom" => d.expires_at
  BY <1>1, <1>3 DEF Beacon
<1> HIDE DEF d
<1>5. /\ DOMAIN ledger' = BeaconIds /\ ledger'[b] = d
      /\ \A c \in BeaconIds : c # b => ledger'[c] = ledger[c]
      /\ ledger' \in [BeaconIds -> Beacon \cup {NoBeacon}]
  BY <1>2, <1>4 DEF LedgerIInv, LedgerTypeOK
<1> QED
  BY <1>2, <1>4, <1>5, LedgerWrite DEF LedgerIInv

LEMMA LedgerFailsKeeps ==
    ASSUME LedgerIInv, NEW q \in LRequests, LedgerFails(q)
    PROVE  LedgerIInv'
<1>1. /\ UNCHANGED <<ledger, downloads>>
      /\ DOMAIN lreq' = LRequests /\ lreq'[q] = Ready0
      /\ \A p \in LRequests : p # q => lreq'[p] = lreq[p]
  BY DEF LedgerFails, LReq, LedgerIInv
<1>2. Ready0.op \notin Ops
  BY DEF Ready0, Ops
<1> QED
  BY <1>1, <1>2 DEF LedgerIInv, LedgerTypeOK, LedgerKept

LEMMA LedgerInitOK == LedgerInit => LedgerIInv
<1>1. Ready0.op \notin Ops
  BY DEF Ready0, Ops
<1> QED
  BY <1>1 DEF LedgerInit, LedgerIInv, LedgerTypeOK, LedgerKept

LEMMA LedgerStepKeeps == LedgerIInv /\ [LedgerNext]_ledgerVars => LedgerIInv'
<1> SUFFICES ASSUME LedgerIInv, [LedgerNext]_ledgerVars PROVE LedgerIInv'
  OBVIOUS
<1>1. CASE UNCHANGED ledgerVars
  BY <1>1 DEF ledgerVars, LedgerIInv, LedgerTypeOK, LedgerKept
<1>2. CASE LedgerNext
  BY <1>2, RegisterKeeps, FetchKeeps, UpdateBeaconKeeps, SeenKeeps, DeleteBeaconKeeps,
     LedgerFailsKeeps DEF LedgerNext, Ops
<1> QED
  BY <1>1, <1>2

(* The counter of a beacon is what was downloaded of it, and the mode Custom
   has a deadline, whatever registrations, changes, deletions and reports of
   a download interleave (routes/beacons of delta, insert_beacon). *)
THEOREM LedgerAlwaysKept == LedgerSpec => []LedgerKept
<1>1. LedgerIInv => LedgerKept
  BY DEF LedgerIInv
<1> QED
  BY <1>1, LedgerInitOK, LedgerStepKeeps, PTL DEF LedgerSpec

-----------------------------------------------------------------------------
(***************************************************************************)
(* Pages of a channel.  A page that a limit cut off has everything on its  *)
(* side of its edge, and one that was not cut off has everything.          *)
(***************************************************************************)
LEMMA LeastOf ==
    ASSUME NEW T, T \subseteq Nat, T # {}
    PROVE  \E x \in T : \A y \in T : x <= y
<1> DEFINE R == {ss \in Nat \X Nat : ss[1] < ss[2]}
<1>1. IsWellFoundedOn(R, Nat)
  <2>1. R = OpToRel(<, Nat)
    BY DEF OpToRel
  <2> QED
    BY <2>1, NatLessThanWellFounded
<1> HIDE DEF R
<1>2. PICK x \in T : \A y \in T : ~(<<y, x>> \in R)
  BY <1>1, WFMin
<1>3. \A y \in T : ~(y < x)
  BY <1>2 DEF R
<1> QED
  BY <1>3, SMT

LEMMA GreatestOf ==
    ASSUME NEW d \in Nat, NEW T, T \subseteq 0 .. d, T # {}
    PROVE  \E x \in T : \A y \in T : x >= y
<1> DEFINE U == {d - x : x \in T}
<1>1. U \subseteq Nat /\ U # {}
  <2>1. \A x \in T : d - x \in Nat
    BY SMT
  <2> QED
    BY <2>1
<1>2. PICK z \in U : \A y \in U : z <= y
  BY <1>1, LeastOf
<1>3. PICK x \in T : z = d - x
  OBVIOUS
<1>4. \A y \in T : d - x <= d - y
  BY <1>2, <1>3
<1> QED
  BY <1>4, SMT

(* The messages that come before m in the order of a query. *)
Ahead(found, m, sort) == {n \in found : IF sort = "Latest" THEN n > m ELSE n < m}

LEMMA AheadFacts ==
    ASSUME NEW found, IsFiniteSet(found), found \subseteq Nat, NEW sort, NEW m \in found
    PROVE  /\ IsFiniteSet(Ahead(found, m, sort)) /\ Cardinality(Ahead(found, m, sort)) \in Nat
           /\ m \notin Ahead(found, m, sort)
           /\ \A n \in Ahead(found, m, sort) : Ahead(found, n, sort) \subseteq Ahead(found, m, sort)
<1>1. Ahead(found, m, sort) \in SUBSET found
  BY DEF Ahead
<1>2. IsFiniteSet(Ahead(found, m, sort))
  BY <1>1, FS_Subset
<1>3. Cardinality(Ahead(found, m, sort)) \in Nat
  BY <1>2, FS_CardinalityType
<1>4. \A x \in found : x \in Nat
  OBVIOUS
<1>5. m \notin Ahead(found, m, sort)
  BY <1>4, SMT DEF Ahead
<1>6. \A n \in Ahead(found, m, sort) : Ahead(found, n, sort) \subseteq Ahead(found, m, sort)
  <2> SUFFICES ASSUME NEW n \in Ahead(found, m, sort), NEW x \in Ahead(found, n, sort)
               PROVE  x \in Ahead(found, m, sort)
    OBVIOUS
  <2>1. m \in Nat /\ n \in Nat /\ x \in Nat /\ x \in found
    BY <1>4 DEF Ahead
  <2>2. CASE sort = "Latest"
    <3>1. n > m /\ x > n
      BY <2>2 DEF Ahead
    <3>2. x > m
      BY <2>1, <3>1, SMT
    <3> QED
      BY <2>1, <2>2, <3>2 DEF Ahead
  <2>3. CASE sort # "Latest"
    <3>1. n < m /\ x < n
      BY <2>3 DEF Ahead
    <3>2. x < m
      BY <2>1, <3>1, SMT
    <3> QED
      BY <2>1, <2>3, <3>2 DEF Ahead
  <2> QED
    BY <2>2, <2>3
<1> QED
  BY <1>2, <1>3, <1>5, <1>6

(* What is before a message of a page is in the page; a page that is not full
   has all there is. *)
LEMMA PageFacts ==
    ASSUME NEW found, IsFiniteSet(found), found \subseteq Nat, NEW sort, NEW size \in Nat,
           NEW page, page = find_with_options(found, size, sort)
    PROVE  /\ page \subseteq found
           /\ \A m \in page : Ahead(found, m, sort) \subseteq page
           /\ Cardinality(page) < size => page = found
<1>1. \A m : m \in page <=> m \in found /\ Cardinality(Ahead(found, m, sort)) < size
  BY DEF find_with_options, Ahead
<1>2. ASSUME NEW m \in page, NEW n \in Ahead(found, m, sort) PROVE n \in page
  <2>1. m \in found /\ n \in found
    BY <1>1 DEF Ahead
  <2>2. Ahead(found, n, sort) \subseteq Ahead(found, m, sort) /\ IsFiniteSet(Ahead(found, m, sort))
    BY <2>1, AheadFacts
  <2>3. Cardinality(Ahead(found, n, sort)) <= Cardinality(Ahead(found, m, sort))
    BY <2>2, FS_Subset
  <2>4. Cardinality(Ahead(found, n, sort)) \in Nat /\ Cardinality(Ahead(found, m, sort)) \in Nat
    BY <2>1, AheadFacts
  <2>5. Cardinality(Ahead(found, m, sort)) < size
    BY <1>1
  <2>6. Cardinality(Ahead(found, n, sort)) < size
    BY <2>3, <2>4, <2>5, SMT
  <2> QED
    BY <1>1, <2>1, <2>6
<1>3. ASSUME Cardinality(page) < size, page # found PROVE FALSE
  <2> DEFINE K == {Cardinality(Ahead(found, m, sort)) : m \in found \ page}
  <2>1. K # {} /\ K \subseteq Nat
    <3>1. \A m \in found : Cardinality(Ahead(found, m, sort)) \in Nat
      BY AheadFacts
    <3>2. \E m : m \in found \ page
      BY <1>1, <1>3
    <3> QED
      BY <3>1, <3>2
  <2>2. PICK k \in K : \A j \in K : k <= j
    BY <2>1, LeastOf
  <2>3. PICK m \in found \ page : k = Cardinality(Ahead(found, m, sort))
    OBVIOUS
  <2>4. ASSUME NEW n \in Ahead(found, m, sort) PROVE n \in page
    <3> SUFFICES ASSUME n \notin page PROVE FALSE
      OBVIOUS
    <3>1. n \in found
      BY <2>4 DEF Ahead
    <3>2. k <= Cardinality(Ahead(found, n, sort))
      BY <2>2, <3>1
    <3>3. /\ Ahead(found, n, sort) \subseteq Ahead(found, m, sort)
          /\ n \notin Ahead(found, n, sort)
          /\ IsFiniteSet(Ahead(found, m, sort))
          /\ Cardinality(Ahead(found, n, sort)) \in Nat /\ k \in Nat
      BY <2>3, <2>4, <3>1, AheadFacts
    <3>4. Ahead(found, n, sort) # Ahead(found, m, sort)
      BY <2>4, <3>3
    <3>5. /\ Cardinality(Ahead(found, n, sort)) <= Cardinality(Ahead(found, m, sort))
          /\ Cardinality(Ahead(found, m, sort)) # Cardinality(Ahead(found, n, sort))
      BY <3>3, <3>4, FS_Subset
    <3> QED
      BY <2>3, <3>2, <3>3, <3>5, SMT
  <2>5. Ahead(found, m, sort) \subseteq page
    BY <2>4
  <2>6. page \in SUBSET found
    BY <1>1
  <2>7. IsFiniteSet(page)
    BY <2>6, FS_Subset
  <2>8. Cardinality(Ahead(found, m, sort)) <= Cardinality(page)
    BY <2>5, <2>7, FS_Subset
  <2>9. Cardinality(page) \in Nat /\ Cardinality(Ahead(found, m, sort)) \in Nat
    BY <2>3, <2>7, FS_CardinalityType, AheadFacts
  <2>10. ~(Cardinality(Ahead(found, m, sort)) < size)
    BY <1>1, <2>3
  <2> QED
    BY <1>3, <2>8, <2>9, <2>10, SMT
<1> QED
  BY <1>1, <1>2, <1>3

LEMMA FoundFinite ==
    ASSUME NEW d \in Nat, NEW found, found \subseteq 1 .. d
    PROVE  IsFiniteSet(found) /\ found \subseteq Nat /\ found \subseteq 0 .. d
<1>1. IsFiniteSet(1 .. d)
  <2>1. 1 \in Int /\ d \in Int
    BY SMT
  <2> QED
    BY <2>1, FS_Interval
<1>2. IsFiniteSet(found)
  BY <1>1, FS_Subset
<1>3. found \subseteq Nat /\ found \subseteq 0 .. d
  BY SMT
<1> QED
  BY <1>2, <1>3

LEMMA FullPage ==
    ASSUME NEW page, NEW size \in Nat, size # 0, ~(Cardinality(page) < size)
    PROVE  page # {}
<1>1. Cardinality({}) = 0
  BY FS_EmptySet
<1> QED
  BY <1>1, SMT

(* The edge to which a page of the latest, or of the oldest messages reaches. *)
DownTo(found, page, edge) ==
    /\ page \subseteq found
    /\ edge \in page \/ edge = 0
    /\ \A m \in page : edge <= m
    /\ \A m \in found : edge <= m => m \in page

UpTo(found, page, edge) ==
    /\ page \subseteq found
    /\ edge \in page \/ edge = Top
    /\ \A m \in page : m <= edge
    /\ \A m \in found : m <= edge => m \in page

LEMMA OlderFacts ==
    ASSUME drawn \in Nat, NEW found, found \subseteq 1 .. drawn, NEW size \in Nat, size # 0,
           NEW page, page = find_with_options(found, size, "Latest"),
           NEW edge, edge = Older(page, size)
    PROVE  DownTo(found, page, edge)
<1> USE DEF DownTo
<1>1. IsFiniteSet(found) /\ found \subseteq Nat
  BY FoundFinite
<1>2. /\ page \subseteq found
      /\ \A m \in page : Ahead(found, m, "Latest") \subseteq page
      /\ Cardinality(page) < size => page = found
  <2>1. PICK sort : sort = "Latest"
    OBVIOUS
  <2>2. page = find_with_options(found, size, sort)
    BY <2>1
  <2>3. /\ page \subseteq found
        /\ \A m \in page : Ahead(found, m, sort) \subseteq page
        /\ Cardinality(page) < size => page = found
    BY <1>1, <2>2, PageFacts
  <2> QED
    BY <2>1, <2>3
<1>3. CASE Cardinality(page) < size
  <2>1. edge = 0 /\ page = found
    BY <1>2, <1>3 DEF Older, Bottom
  <2>2. \A m \in page : 0 <= m
    BY <1>1, <2>1, SMT
  <2> QED
    BY <2>1, <2>2
<1>4. CASE ~(Cardinality(page) < size)
  <2>1. page # {} /\ page \subseteq Nat
    BY <1>1, <1>2, <1>4, FullPage
  <2>2. \E x \in page : \A y \in page : x <= y
    BY <2>1, LeastOf
  <2>3. edge \in page /\ \A y \in page : edge <= y
    BY <1>4, <2>2 DEF Older, Min
  <2>4. ASSUME NEW m \in found, edge <= m PROVE m \in page
    <3>1. CASE m = edge
      BY <2>3, <3>1
    <3>2. CASE m # edge
      <4>1. m > edge
        BY <1>1, <2>1, <2>3, <2>4, <3>2, SMT
      <4>2. m \in Ahead(found, edge, "Latest")
        BY <4>1 DEF Ahead
      <4> QED
        BY <1>2, <2>3, <4>2
    <3> QED
      BY <3>1, <3>2
  <2> QED
    BY <1>2, <2>3, <2>4
<1> QED
  BY <1>3, <1>4

LEMMA NewerFacts ==
    ASSUME drawn \in Nat, drawn <= MaxPosts, NEW found, found \subseteq 1 .. drawn,
           NEW size \in Nat, size # 0,
           NEW page, page = find_with_options(found, size, "Oldest"),
           NEW edge, edge = Newer(page, size)
    PROVE  UpTo(found, page, edge)
<1> USE DEF UpTo
<1>1. IsFiniteSet(found) /\ found \subseteq Nat /\ found \subseteq 0 .. drawn
  BY FoundFinite
<1>2. /\ page \subseteq found
      /\ \A m \in page : Ahead(found, m, "Oldest") \subseteq page
      /\ Cardinality(page) < size => page = found
  <2>1. PICK sort : sort = "Oldest"
    OBVIOUS
  <2>2. page = find_with_options(found, size, sort)
    BY <2>1
  <2>3. /\ page \subseteq found
        /\ \A m \in page : Ahead(found, m, sort) \subseteq page
        /\ Cardinality(page) < size => page = found
    BY <1>1, <2>2, PageFacts
  <2> QED
    BY <2>1, <2>3
<1>3. CASE Cardinality(page) < size
  <2>1. edge = Top /\ page = found
    BY <1>2, <1>3 DEF Newer
  <2>2. \A m \in page : m <= Top
    BY <1>1, <2>1, PagesAssumption, SMT DEF Top
  <2> QED
    BY <2>1, <2>2
<1>4. CASE ~(Cardinality(page) < size)
  <2>1. page # {} /\ page \subseteq 0 .. drawn
    BY <1>1, <1>2, <1>4, FullPage
  <2>2. \E x \in page : \A y \in page : x >= y
    BY <2>1, GreatestOf
  <2>3. edge \in page /\ \A y \in page : edge >= y
    BY <1>4, <2>2 DEF Newer, Max
  <2>4. ASSUME NEW m \in found, m <= edge PROVE m \in page
    <3>1. CASE m = edge
      BY <2>3, <3>1
    <3>2. CASE m # edge
      <4>1. m < edge
        BY <1>1, <2>1, <2>3, <2>4, <3>2, SMT
      <4>2. m \in Ahead(found, edge, "Oldest")
        BY <4>1 DEF Ahead
      <4> QED
        BY <1>2, <2>3, <4>2
    <3> QED
      BY <3>1, <3>2
  <2>5. \A y \in page : y <= edge
    BY <2>1, <2>3, SMT
  <2> QED
    BY <1>2, <2>3, <2>4, <2>5
<1> QED
  BY <1>3, <1>4

-----------------------------------------------------------------------------
(* The inductive invariant: what the client has read lies in its span, and all
   that lies in the span was read or came late.  While the newer half of a jump
   is under way the message jumped to is not part of the span yet. *)
Readers == [filter : {"all", "pinned"}, lo : 0 .. Top, hi : 0 .. Top,
            view : SUBSET Nat, todo : SUBSET ({"older", "newer"} \X Limits)]

PagesShape ==
    /\ drawn \in Nat /\ drawn <= MaxPosts
    /\ sending \subseteq 1 .. drawn /\ posts \subseteq 1 .. drawn /\ pins \subseteq 1 .. drawn
    /\ reader \in Readers
    /\ reader.todo # {} => reader.filter = "all" /\ reader.lo <= reader.hi
    /\ \A k, l \in Limits :
          <<"newer", k>> \in reader.todo /\ <<"newer", l>> \in reader.todo => k = l

NewerDue == \E k \in Limits : <<"newer", k>> \in reader.todo

InSpan(m) == Read(m) /\ (NewerDue => m < reader.hi)

ReadInSpan == \A m \in reader.view : InSpan(m)

SpanRead == \A m \in Matching(reader.filter) : InSpan(m) => m \in reader.view \cup latePosts

PagesIInv == PagesShape /\ ReadInSpan /\ SpanRead /\ repeated = {}

LEMMA ReaderTyped ==
    ASSUME PagesShape
    PROVE  /\ reader.lo \in Nat /\ reader.hi \in Nat /\ reader.lo <= Top /\ reader.hi <= Top
           /\ Top \in Nat /\ MaxPosts \in Nat
           /\ \A m \in posts \cup pins : m \in Nat /\ 1 <= m /\ m <= drawn /\ m < Top
           /\ Matching(reader.filter) \subseteq 1 .. drawn
<1>1. reader.lo \in 0 .. Top /\ reader.hi \in 0 .. Top
  BY DEF PagesShape, Readers
<1>2. MaxPosts \in Nat /\ Top = MaxPosts + 1
  BY PagesAssumption DEF Top
<1>3. drawn \in Nat /\ drawn <= MaxPosts /\ posts \subseteq 1 .. drawn /\ pins \subseteq 1 .. drawn
  BY DEF PagesShape
<1>4. \A m \in posts \cup pins : m \in Nat /\ 1 <= m /\ m <= drawn /\ m < Top
  BY <1>2, <1>3, SMT
<1>5. Matching(reader.filter) \subseteq 1 .. drawn
  BY <1>3 DEF Matching
<1> QED
  BY <1>1, <1>2, <1>4, <1>5, SMT

(* Steps of others: what matches comes late if it comes to the span. *)
LEMMA ChannelKeeps ==
    ASSUME PagesIInv, reader' = reader, repeated' = repeated, PagesShape',
           latePosts \subseteq latePosts',
           \A m \in Matching(reader.filter)' :
              m \in Matching(reader.filter) \/ (Read(m) => m \in latePosts')
    PROVE  PagesIInv'
<1>1. \A m : InSpan(m)' <=> InSpan(m)
  BY DEF InSpan, NewerDue, Read
<1>2. ReadInSpan'
  BY <1>1 DEF PagesIInv, ReadInSpan
<1>3. SpanRead'
  <2> SUFFICES ASSUME NEW m \in Matching(reader.filter)', InSpan(m)
               PROVE  m \in reader.view \cup latePosts'
    BY <1>1 DEF SpanRead
  <2>1. CASE m \in Matching(reader.filter)
    BY <2>1 DEF PagesIInv, SpanRead
  <2>2. CASE Read(m) => m \in latePosts'
    BY <2>2 DEF InSpan
  <2> QED
    BY <2>1, <2>2
<1> QED
  BY <1>2, <1>3 DEF PagesIInv

LEMMA ChannelStepKeeps ==
    ASSUME PagesIInv, NEW m \in 1 .. MaxPosts,
           insert_message(m) \/ PinMessage(m) \/ UnpinMessage(m) \/ DeleteMessage(m)
    PROVE  PagesIInv'
<1>1. CASE insert_message(m)
  <2>1. PagesShape'
    BY <1>1 DEF insert_message, PagesIInv, PagesShape
  <2>2. Read(m) => m \in latePosts'
    BY <1>1 DEF insert_message
  <2>3. \A x \in Matching(reader.filter)' : x \in Matching(reader.filter) \/ x = m
    BY <1>1 DEF insert_message, Matching
  <2> QED
    BY <1>1, <2>1, <2>2, <2>3, ChannelKeeps DEF insert_message
<1>2. CASE PinMessage(m)
  <2>1. PagesShape'
    BY <1>2 DEF PinMessage, PagesIInv, PagesShape
  <2>2. Read(m) => m \in latePosts'
    BY <1>2 DEF PinMessage
  <2>3. \A x \in Matching(reader.filter)' : x \in Matching(reader.filter) \/ x = m
    BY <1>2 DEF PinMessage, Matching
  <2> QED
    BY <1>2, <2>1, <2>2, <2>3, ChannelKeeps DEF PinMessage
<1>3. CASE UnpinMessage(m)
  <2>1. PagesShape'
    BY <1>3 DEF UnpinMessage, PagesIInv, PagesShape
  <2>2. \A x \in Matching(reader.filter)' : x \in Matching(reader.filter)
    BY <1>3 DEF UnpinMessage, Matching
  <2> QED
    BY <1>3, <2>1, <2>2, ChannelKeeps DEF UnpinMessage
<1>4. CASE DeleteMessage(m)
  <2>1. PagesShape'
    BY <1>4 DEF DeleteMessage, PagesIInv, PagesShape
  <2>2. \A x \in Matching(reader.filter)' : x \in Matching(reader.filter)
    BY <1>4 DEF DeleteMessage, Matching
  <2> QED
    BY <1>4, <2>1, <2>2, ChannelKeeps DEF DeleteMessage
<1> QED
  BY <1>1, <1>2, <1>3, <1>4

LEMMA DrawKeeps ==
    ASSUME PagesIInv, DrawId
    PROVE  PagesIInv'
<1>1. drawn \in Nat /\ drawn < MaxPosts /\ MaxPosts \in Nat /\ drawn' = drawn + 1
  BY PagesAssumption DEF PagesIInv, PagesShape, DrawId
<1>2. 1 .. drawn \subseteq 1 .. drawn' /\ drawn + 1 \in 1 .. drawn'
      /\ drawn' \in Nat /\ drawn' <= MaxPosts
  BY <1>1, SMT
<1>3. PagesShape'
  BY <1>2 DEF DrawId, PagesIInv, PagesShape
<1>4. Matching(reader.filter)' = Matching(reader.filter)
  BY DEF DrawId, Matching
<1> QED
  BY <1>3, <1>4, ChannelKeeps DEF DrawId

(* A page that is read, below the span or above it. *)
LEMMA OpensKeeps ==
    ASSUME PagesIInv, NEW f \in {"all", "pinned"}, NEW k \in Limits, Opens(f, k)
    PROVE  PagesIInv'
<1>1. PICK found : found = {m \in Matching(f) : m < Top /\ m > Bottom}
  OBVIOUS
<1>2. PICK page : page = find_with_options(found, k, "Latest")
  OBVIOUS
<1>3. PICK edge : edge = Older(page, k)
  OBVIOUS
<1>4. page = Absolute(f, Top, Bottom, k, "Latest")
  BY <1>1, <1>2 DEF Absolute
<1>5. reader' = [filter |-> f, lo |-> edge, hi |-> Top, view |-> page, todo |-> {}]
  BY <1>3, <1>4 DEF Opens
<1>6. /\ reader'.filter = f /\ reader'.lo = edge /\ reader'.hi = Top
      /\ reader'.view = page /\ reader'.todo = {}
  BY <1>5, SMT
<1>7. k \in Nat /\ k # 0
  BY PagesAssumption, SMT
<1>8. Matching(f) \subseteq 1 .. drawn /\ drawn \in Nat /\ Matching(f)' = Matching(f)
  BY DEF PagesIInv, PagesShape, Matching, Opens
<1>9. found \subseteq 1 .. drawn
  BY <1>1, <1>8
<1>10. /\ page \subseteq found
       /\ edge \in page \/ edge = 0
       /\ \A m \in page : edge <= m
       /\ \A m \in found : edge <= m => m \in page
  <2>1. drawn \in Nat
    BY <1>8
  <2>2. DownTo(found, page, edge)
    BY <1>2, <1>3, <1>7, <1>9, <2>1, OlderFacts
  <2> QED
    BY <2>2 DEF DownTo
<1>11. \A m \in 1 .. drawn : m < Top /\ m > Bottom /\ m <= Top /\ m \in Nat /\ m \in 0 .. Top
  BY PagesAssumption, SMT DEF PagesIInv, PagesShape, Top, Bottom
<1>12. edge \in 0 .. Top /\ Top \in 0 .. Top
  <2>1. 0 \in 0 .. Top /\ Top \in 0 .. Top
    BY PagesAssumption, SMT DEF Top
  <2> QED
    BY <1>9, <1>10, <1>11, <2>1
<1>13. page \subseteq Nat
  BY <1>9, <1>10, <1>11
<1>14. PagesShape'
  <2>1. reader' \in Readers
    BY <1>5, <1>12, <1>13, SMT DEF Readers
  <2> QED
    BY <1>6, <2>1 DEF Opens, PagesIInv, PagesShape, Readers, Top
<1>15. \A m : InSpan(m)' <=> edge <= m /\ m <= Top
  BY <1>6 DEF InSpan, Read, NewerDue, Top
<1>16. ReadInSpan'
  BY <1>6, <1>9, <1>10, <1>11, <1>15 DEF ReadInSpan
<1>17. SpanRead'
  <2> SUFFICES ASSUME NEW m \in Matching(f), edge <= m PROVE m \in page
    BY <1>6, <1>8, <1>15 DEF SpanRead, Matching
  <2>1. m \in found
    BY <1>1, <1>8, <1>11
  <2> QED
    BY <1>10, <2>1
<1> QED
  BY <1>14, <1>16, <1>17 DEF PagesIInv, Opens

ChannelSame == UNCHANGED <<drawn, sending, posts, pins, latePosts>>

LEMMA GoesDown ==
    ASSUME PagesIInv, reader.lo <= reader.hi, NEW found, NEW page, NEW edge,
           found \subseteq Matching(reader.filter), \A m \in found : m < reader.lo,
           \A m \in Matching(reader.filter) : m < reader.lo => m \in found,
           DownTo(found, page, edge),
           reader' \in Readers, reader'.filter = reader.filter, reader'.lo = edge,
           reader'.hi = reader.hi, reader'.view = reader.view \cup page,
           reader'.todo \subseteq reader.todo, NewerDue' = NewerDue,
           ChannelSame, Takes(page)
    PROVE  PagesIInv'
<1>1. /\ reader.lo \in Nat /\ reader.hi \in Nat
      /\ \A m \in Matching(reader.filter) : m \in Nat
  BY ReaderTyped DEF PagesIInv, Matching
<1>2. edge \in Nat /\ edge <= reader.lo /\ edge <= reader.hi
  <2>1. CASE edge = 0
    BY <1>1, <2>1, SMT
  <2>2. CASE edge \in page
    <3>1. edge \in found
      BY <2>2 DEF DownTo
    <3>2. edge \in Nat /\ edge < reader.lo
      BY <1>1, <3>1
    <3> QED
      BY <1>1, <3>2, SMT
  <2> QED
    BY <2>1, <2>2 DEF DownTo
<1>3. \A m \in page : m \in Nat /\ m < reader.lo /\ edge <= m
  BY <1>1 DEF DownTo
<1>4. \A m \in page : m < reader.hi /\ m <= reader.hi
  BY <1>1, <1>3, SMT
<1>5. \A m \in reader.view : reader.lo <= m /\ m <= reader.hi /\ (NewerDue => m < reader.hi)
  BY DEF PagesIInv, ReadInSpan, InSpan, Read
<1>6. reader.view \subseteq Nat
  BY DEF PagesIInv, PagesShape, Readers
<1>7. \A m \in reader.view : edge <= m
  BY <1>1, <1>2, <1>5, <1>6, SMT
<1>8. PagesShape'
  BY <1>2 DEF ChannelSame, PagesIInv, PagesShape, Top
<1>9. \A m : InSpan(m)' <=> edge <= m /\ m <= reader.hi /\ (NewerDue => m < reader.hi)
  BY DEF InSpan, Read
<1>10. ReadInSpan'
  BY <1>3, <1>4, <1>5, <1>7, <1>9 DEF ReadInSpan
<1>11. SpanRead'
  <2> SUFFICES ASSUME NEW m \in Matching(reader.filter), edge <= m, m <= reader.hi,
                      NewerDue => m < reader.hi
               PROVE  m \in reader.view \cup page \cup latePosts
    BY <1>9 DEF SpanRead, Matching, ChannelSame
  <2>1. CASE m < reader.lo
    BY <2>1 DEF DownTo
  <2>2. CASE ~(m < reader.lo)
    <3>1. reader.lo <= m
      BY <1>1, <2>2, SMT
    <3>2. InSpan(m)
      BY <3>1 DEF InSpan, Read
    <3> QED
      BY <3>2 DEF PagesIInv, SpanRead
  <2> QED
    BY <2>1, <2>2
<1>12. \A m \in page : m \notin reader.view
  <2> SUFFICES ASSUME NEW m \in page, m \in reader.view PROVE FALSE
    OBVIOUS
  <2>1. m \in Nat /\ m < reader.lo /\ reader.lo <= m
    BY <1>3, <1>5
  <2> QED
    BY <1>1, <2>1, SMT
<1>13. repeated' = {}
  BY <1>12 DEF Takes, PagesIInv
<1> QED
  BY <1>8, <1>10, <1>11, <1>13 DEF PagesIInv

LEMMA GoesUp ==
    ASSUME PagesIInv, reader.lo <= reader.hi, NEW found, NEW page, NEW edge,
           found \subseteq Matching(reader.filter),
           \A m \in found : reader.hi <= m /\ (NewerDue \/ reader.hi < m),
           \A m \in Matching(reader.filter) :
              reader.hi < m \/ (NewerDue /\ reader.hi <= m) => m \in found,
           UpTo(found, page, edge),
           reader' \in Readers, reader'.filter = reader.filter, reader'.lo = reader.lo,
           reader'.hi = edge, reader'.view = reader.view \cup page,
           reader'.todo \subseteq reader.todo, ~NewerDue',
           ChannelSame, Takes(page)
    PROVE  PagesIInv'
<1>1. /\ reader.lo \in Nat /\ reader.hi \in Nat /\ reader.hi <= Top /\ Top \in Nat
      /\ \A m \in Matching(reader.filter) : m \in Nat
  BY ReaderTyped DEF PagesIInv, Matching
<1>2. edge \in Nat /\ reader.hi <= edge /\ reader.lo <= edge
  <2>1. CASE edge = Top
    BY <1>1, <2>1, SMT
  <2>2. CASE edge \in page
    <3>1. edge \in found
      BY <2>2 DEF UpTo
    <3>2. edge \in Nat /\ reader.hi <= edge
      BY <1>1, <3>1
    <3> QED
      BY <1>1, <3>2, SMT
  <2> QED
    BY <2>1, <2>2 DEF UpTo
<1>3. \A m \in page : m \in Nat /\ reader.hi <= m /\ m <= edge /\ (NewerDue \/ reader.hi < m)
  BY <1>1 DEF UpTo
<1>4. \A m \in page : reader.lo <= m
  BY <1>1, <1>3, SMT
<1>5. \A m \in reader.view : reader.lo <= m /\ m <= reader.hi /\ (NewerDue => m < reader.hi)
  BY DEF PagesIInv, ReadInSpan, InSpan, Read
<1>6. reader.view \subseteq Nat
  BY DEF PagesIInv, PagesShape, Readers
<1>7. \A m \in reader.view : m <= edge
  BY <1>1, <1>2, <1>5, <1>6, SMT
<1>8. PagesShape'
  BY <1>2 DEF ChannelSame, PagesIInv, PagesShape, Top
<1>9. \A m : InSpan(m)' <=> reader.lo <= m /\ m <= edge
  BY DEF InSpan, Read
<1>10. ReadInSpan'
  BY <1>3, <1>4, <1>5, <1>7, <1>9 DEF ReadInSpan
<1>11. SpanRead'
  <2> SUFFICES ASSUME NEW m \in Matching(reader.filter), reader.lo <= m, m <= edge
               PROVE  m \in reader.view \cup page \cup latePosts
    BY <1>9 DEF SpanRead, Matching, ChannelSame
  <2>1. CASE reader.hi < m \/ (NewerDue /\ reader.hi <= m)
    BY <2>1 DEF UpTo
  <2>2. CASE ~(reader.hi < m \/ (NewerDue /\ reader.hi <= m))
    <3>1. m <= reader.hi /\ (NewerDue => m < reader.hi)
      BY <1>1, <2>2, SMT
    <3>2. InSpan(m)
      BY <3>1 DEF InSpan, Read
    <3> QED
      BY <3>2 DEF PagesIInv, SpanRead
  <2> QED
    BY <2>1, <2>2
<1>12. \A m \in page : m \notin reader.view
  <2> SUFFICES ASSUME NEW m \in page, m \in reader.view PROVE FALSE
    OBVIOUS
  <2>1. /\ m \in Nat /\ reader.hi <= m /\ m <= reader.hi
        /\ (NewerDue \/ reader.hi < m) /\ (NewerDue => m < reader.hi)
    BY <1>3, <1>5
  <2> QED
    BY <1>1, <2>1, SMT
<1>13. repeated' = {}
  BY <1>12 DEF Takes, PagesIInv
<1> QED
  BY <1>8, <1>10, <1>11, <1>13 DEF PagesIInv

LEMMA ScrollUpKeeps ==
    ASSUME PagesIInv, NEW k \in Limits, ScrollUp(k)
    PROVE  PagesIInv'
<1>1. PICK found : found = {m \in Matching(reader.filter) : m < reader.lo /\ m > Bottom}
  OBVIOUS
<1>2. PICK page : page = find_with_options(found, k, "Latest")
  OBVIOUS
<1>3. PICK edge : edge = Older(page, k)
  OBVIOUS
<1>4. page = Absolute(reader.filter, reader.lo, Bottom, k, "Latest")
  BY <1>1, <1>2 DEF Absolute
<1>5. reader' = [reader EXCEPT !.lo = edge, !.view = @ \cup page] /\ Takes(page) /\ Opened
  BY <1>3, <1>4 DEF ScrollUp
<1>6. k \in Nat /\ k # 0
  BY PagesAssumption, SMT
<1>7. drawn \in Nat /\ reader \in Readers
  BY DEF PagesIInv, PagesShape
<1>8. Matching(reader.filter) \subseteq 1 .. drawn
  BY ReaderTyped DEF PagesIInv
<1>9. found \subseteq 1 .. drawn /\ found \subseteq Matching(reader.filter)
      /\ \A m \in found : m < reader.lo
  BY <1>1, <1>8
<1>10. \A m \in 1 .. drawn : m > Bottom /\ m \in Nat /\ m \in 0 .. Top
  BY PagesAssumption, SMT DEF PagesIInv, PagesShape, Bottom, Top
<1>11. \A m \in Matching(reader.filter) : m < reader.lo => m \in found
  BY <1>1, <1>8, <1>10
<1>12. DownTo(found, page, edge)
  BY <1>2, <1>3, <1>6, <1>7, <1>9, OlderFacts
<1>13. page \subseteq Nat /\ edge \in 0 .. Top
  <2>1. 0 \in 0 .. Top
    BY PagesAssumption, SMT DEF Top
  <2> QED
    BY <1>9, <1>10, <1>12, <2>1 DEF DownTo
<1>14. /\ reader' \in Readers /\ reader'.filter = reader.filter /\ reader'.lo = edge
       /\ reader'.hi = reader.hi /\ reader'.view = reader.view \cup page
       /\ reader'.todo = reader.todo
  <2>1. /\ reader'.filter = reader.filter /\ reader'.lo = edge
        /\ reader'.hi = reader.hi /\ reader'.view = reader.view \cup page
        /\ reader'.todo = reader.todo
    BY <1>5, <1>7, SMT DEF Readers
  <2>2. reader' \in Readers
    <3>1. reader'.view \in SUBSET Nat /\ reader'.todo \in SUBSET ({"older", "newer"} \X Limits)
      BY <1>7, <1>13, <2>1 DEF Readers
    <3> QED
      BY <1>5, <1>7, <1>13, <2>1, <3>1 DEF Readers
  <2> QED
    BY <2>1, <2>2
<1>15. NewerDue' = NewerDue
  BY <1>14 DEF NewerDue
<1>16. ChannelSame /\ reader.lo <= reader.hi
  BY <1>5 DEF ScrollUp, ChannelSame, Opened
<1> QED
  BY <1>5, <1>9, <1>11, <1>12, <1>14, <1>15, <1>16, GoesDown

LEMMA ScrollDownKeeps ==
    ASSUME PagesIInv, NEW k \in Limits, ScrollDown(k)
    PROVE  PagesIInv'
<1>1. PICK found : found = {m \in Matching(reader.filter) : m < Top /\ m > reader.hi}
  OBVIOUS
<1>2. PICK page : page = find_with_options(found, k, "Oldest")
  OBVIOUS
<1>3. PICK edge : edge = Newer(page, k)
  OBVIOUS
<1>4. page = Absolute(reader.filter, Top, reader.hi, k, "Oldest")
  BY <1>1, <1>2 DEF Absolute
<1>5. /\ reader' = [reader EXCEPT !.hi = edge, !.view = @ \cup page]
      /\ Takes(page) /\ Opened /\ reader.todo = {}
  BY <1>3, <1>4 DEF ScrollDown
<1>6. k \in Nat /\ k # 0
  BY PagesAssumption, SMT
<1>7. drawn \in Nat /\ drawn <= MaxPosts /\ reader \in Readers
  BY DEF PagesIInv, PagesShape
<1>8. Matching(reader.filter) \subseteq 1 .. drawn /\ reader.hi \in Nat
  BY ReaderTyped DEF PagesIInv
<1>9. found \subseteq 1 .. drawn /\ found \subseteq Matching(reader.filter)
      /\ \A m \in found : m > reader.hi
  BY <1>1, <1>8
<1>10. \A m \in 1 .. drawn : m < Top /\ m \in Nat /\ m \in 0 .. Top
  BY PagesAssumption, <1>7, SMT DEF Top
<1>11. \A m \in Matching(reader.filter) : reader.hi < m => m \in found
  <2>1. \A m \in 1 .. drawn : reader.hi < m => m > reader.hi
    BY <1>8, SMT
  <2> QED
    BY <1>1, <1>8, <1>10, <2>1
<1>12. UpTo(found, page, edge)
  BY <1>2, <1>3, <1>6, <1>7, <1>9, NewerFacts
<1>13. page \subseteq Nat /\ edge \in 0 .. Top
  <2>1. Top \in 0 .. Top
    BY PagesAssumption, SMT DEF Top
  <2> QED
    BY <1>9, <1>10, <1>12, <2>1 DEF UpTo
<1>14. /\ reader' \in Readers /\ reader'.filter = reader.filter /\ reader'.lo = reader.lo
       /\ reader'.hi = edge /\ reader'.view = reader.view \cup page
       /\ reader'.todo = reader.todo
  <2>1. /\ reader'.filter = reader.filter /\ reader'.lo = reader.lo
        /\ reader'.hi = edge /\ reader'.view = reader.view \cup page
        /\ reader'.todo = reader.todo
    BY <1>5, <1>7, SMT DEF Readers
  <2>2. reader' \in Readers
    <3>1. reader'.view \in SUBSET Nat /\ reader'.todo \in SUBSET ({"older", "newer"} \X Limits)
      BY <1>7, <1>13, <2>1 DEF Readers
    <3> QED
      BY <1>5, <1>7, <1>13, <2>1, <3>1 DEF Readers
  <2> QED
    BY <2>1, <2>2
<1>15. ~NewerDue /\ ~NewerDue'
  BY <1>5, <1>14 DEF NewerDue
<1>16. ChannelSame /\ reader.lo <= reader.hi
  BY <1>5 DEF ScrollDown, ChannelSame, Opened
<1>17. \A m \in found : reader.hi <= m /\ reader.hi < m
  BY <1>8, <1>9, SMT
<1> QED
  BY <1>5, <1>9, <1>11, <1>12, <1>14, <1>15, <1>16, <1>17, GoesUp

(* The two finds of a jump. *)
LEMMA Half ==
    ASSUME NEW k \in Limits
    PROVE  (k \div 2) + 1 \in Nat /\ (k \div 2) + 1 # 0
BY PagesAssumption, SMT

LEMMA FindOlderKeeps ==
    ASSUME PagesIInv, NEW k \in Limits, Find("older", k)
    PROVE  PagesIInv'
<1>1. PICK found : found = {m \in posts : m < reader.lo}
  OBVIOUS
<1>2. PICK full : full = (k \div 2) + 1
  OBVIOUS
<1>3. PICK page : page = find_with_options(found, full, "Latest")
  OBVIOUS
<1>4. PICK edge : edge = Older(page, full)
  OBVIOUS
<1>5. page = Relative(reader.lo, k, "older")
  BY <1>1, <1>2, <1>3, SMT DEF Relative
<1>6. /\ <<"older", k>> \in reader.todo /\ Takes(page)
      /\ reader' = [reader EXCEPT !.todo = @ \ {<<"older", k>>}, !.view = @ \cup page,
                                  !.lo = edge, !.hi = @]
  BY <1>2, <1>4, <1>5, SMT DEF Find
<1>7. full \in Nat /\ full # 0
  BY <1>2, Half
<1>8. /\ drawn \in Nat /\ reader \in Readers /\ posts \subseteq 1 .. drawn
      /\ reader.filter = "all" /\ reader.lo <= reader.hi
  BY <1>6 DEF PagesIInv, PagesShape
<1>9. Matching(reader.filter) = posts
  BY <1>8, SMT DEF Matching
<1>10. found \subseteq 1 .. drawn /\ found \subseteq Matching(reader.filter)
       /\ (\A m \in found : m < reader.lo)
       /\ \A m \in Matching(reader.filter) : m < reader.lo => m \in found
  BY <1>1, <1>8, <1>9
<1>11. \A m \in 1 .. drawn : m \in Nat /\ m \in 0 .. Top
  BY PagesAssumption, SMT DEF PagesIInv, PagesShape, Top
<1>12. DownTo(found, page, edge)
  BY <1>3, <1>4, <1>7, <1>8, <1>10, OlderFacts
<1>13. page \subseteq Nat /\ edge \in 0 .. Top
  <2>1. 0 \in 0 .. Top
    BY PagesAssumption, SMT DEF Top
  <2> QED
    BY <1>10, <1>11, <1>12, <2>1 DEF DownTo
<1>14. /\ reader' \in Readers /\ reader'.filter = reader.filter /\ reader'.lo = edge
       /\ reader'.hi = reader.hi /\ reader'.view = reader.view \cup page
       /\ reader'.todo = reader.todo \ {<<"older", k>>}
  <2>1. /\ reader'.filter = reader.filter /\ reader'.lo = edge
        /\ reader'.hi = reader.hi /\ reader'.view = reader.view \cup page
        /\ reader'.todo = reader.todo \ {<<"older", k>>}
    BY <1>6, <1>8, SMT DEF Readers
  <2>2. reader' \in Readers
    <3>1. reader'.view \in SUBSET Nat /\ reader'.todo \in SUBSET ({"older", "newer"} \X Limits)
      BY <1>8, <1>13, <2>1 DEF Readers
    <3> QED
      BY <1>6, <1>8, <1>13, <2>1, <3>1 DEF Readers
  <2> QED
    BY <2>1, <2>2
<1>15. NewerDue' = NewerDue
  <2>1. \A j : <<"newer", j>> # <<"older", k>>
    BY SMT
  <2> QED
    BY <1>14, <2>1 DEF NewerDue
<1>16. ChannelSame /\ reader'.todo \subseteq reader.todo
  BY <1>14 DEF Find, ChannelSame
<1> QED
  BY <1>6, <1>8, <1>10, <1>12, <1>14, <1>15, <1>16, GoesDown

LEMMA FindNewerKeeps ==
    ASSUME PagesIInv, NEW k \in Limits, Find("newer", k)
    PROVE  PagesIInv'
<1>1. PICK found : found = {m \in posts : m >= reader.hi}
  OBVIOUS
<1>2. PICK full : full = (k \div 2) + 1
  OBVIOUS
<1>3. PICK page : page = find_with_options(found, full, "Oldest")
  OBVIOUS
<1>4. PICK edge : edge = Newer(page, full)
  OBVIOUS
<1>5. page = Relative(reader.hi, k, "newer")
  BY <1>1, <1>2, <1>3, SMT DEF Relative
<1>6. /\ <<"newer", k>> \in reader.todo /\ Takes(page)
      /\ reader' = [reader EXCEPT !.todo = @ \ {<<"newer", k>>}, !.view = @ \cup page,
                                  !.lo = @, !.hi = edge]
  BY <1>2, <1>4, <1>5, SMT DEF Find
<1>7. full \in Nat /\ full # 0
  BY <1>2, Half
<1>8. /\ drawn \in Nat /\ drawn <= MaxPosts /\ reader \in Readers /\ posts \subseteq 1 .. drawn
      /\ reader.filter = "all" /\ reader.lo <= reader.hi
  BY <1>6 DEF PagesIInv, PagesShape
<1>9. Matching(reader.filter) = posts /\ reader.hi \in Nat
  BY <1>8, ReaderTyped, SMT DEF Matching, PagesIInv
<1>10. found \subseteq 1 .. drawn /\ found \subseteq Matching(reader.filter)
  BY <1>1, <1>8, <1>9
<1>11. \A m \in 1 .. drawn : m \in Nat /\ m \in 0 .. Top
  BY PagesAssumption, SMT DEF PagesIInv, PagesShape, Top
<1>12. UpTo(found, page, edge)
  BY <1>3, <1>4, <1>7, <1>8, <1>10, NewerFacts
<1>13. page \subseteq Nat /\ edge \in 0 .. Top
  <2>1. Top \in 0 .. Top
    BY PagesAssumption, SMT DEF Top
  <2> QED
    BY <1>10, <1>11, <1>12, <2>1 DEF UpTo
<1>14. /\ reader' \in Readers /\ reader'.filter = reader.filter /\ reader'.lo = reader.lo
       /\ reader'.hi = edge /\ reader'.view = reader.view \cup page
       /\ reader'.todo = reader.todo \ {<<"newer", k>>}
  <2>1. /\ reader'.filter = reader.filter /\ reader'.lo = reader.lo
        /\ reader'.hi = edge /\ reader'.view = reader.view \cup page
        /\ reader'.todo = reader.todo \ {<<"newer", k>>}
    BY <1>6, <1>8, SMT DEF Readers
  <2>2. reader' \in Readers
    <3>1. reader'.view \in SUBSET Nat /\ reader'.todo \in SUBSET ({"older", "newer"} \X Limits)
      BY <1>8, <1>13, <2>1 DEF Readers
    <3> QED
      BY <1>6, <1>8, <1>13, <2>1, <3>1 DEF Readers
  <2> QED
    BY <2>1, <2>2
<1>15. NewerDue /\ ~NewerDue'
  BY <1>6, <1>14 DEF NewerDue, PagesIInv, PagesShape
<1>16. ChannelSame /\ reader'.todo \subseteq reader.todo
  BY <1>14 DEF Find, ChannelSame
<1>17. /\ \A m \in found : reader.hi <= m
       /\ \A m \in Matching(reader.filter) : reader.hi < m \/ reader.hi <= m => m \in found
  <2>1. \A m \in 1 .. drawn : /\ m >= reader.hi => reader.hi <= m
                              /\ reader.hi < m \/ reader.hi <= m => m >= reader.hi
    BY <1>9, SMT
  <2> QED
    BY <1>1, <1>8, <1>9, <2>1
<1> QED
  BY <1>6, <1>8, <1>10, <1>12, <1>14, <1>15, <1>16, <1>17, GoesUp

LEMMA JumpKeeps ==
    ASSUME PagesIInv, NEW k \in Limits, NEW n \in 1 .. MaxPosts, Jump(n, k)
    PROVE  PagesIInv'
<1>1. /\ reader' = [filter |-> "all", lo |-> n, hi |-> n, view |-> {},
                    todo |-> {"older", "newer"} \X {k}]
      /\ repeated' = repeated
  BY DEF Jump
<1>2. n \in 0 .. Top /\ n \in Nat
  BY PagesAssumption, SMT DEF Top
<1>3. /\ reader' \in Readers /\ reader'.filter = "all" /\ reader'.lo = n /\ reader'.hi = n
      /\ reader'.view = {} /\ reader'.todo = {"older", "newer"} \X {k}
  BY <1>1, <1>2, SMT DEF Readers
<1>4. \A j : <<"newer", j>> \in reader'.todo <=> j = k
  BY <1>3, SMT
<1>5. n <= n
  BY <1>2, SMT
<1>6. PagesShape'
  BY <1>3, <1>4, <1>5 DEF Jump, PagesIInv, PagesShape, Top
<1>7. NewerDue'
  BY <1>4 DEF NewerDue
<1>8. ReadInSpan'
  BY <1>3 DEF ReadInSpan
<1>9. ASSUME NEW m \in Matching(reader.filter)' PROVE ~InSpan(m)'
  <2>1. m \in Nat
    <3>1. m \in (1 .. drawn)'
      BY <1>6, ReaderTyped, <1>9 DEF Matching, Jump, PagesIInv, PagesShape
    <3> QED
      BY <3>1, <1>6, SMT DEF PagesShape
  <2>2. ~(n <= m /\ m < n)
    BY <1>2, <2>1, SMT
  <2> QED
    BY <1>3, <1>7, <2>2 DEF InSpan, Read
<1>10. SpanRead'
  BY <1>9 DEF SpanRead
<1> QED
  BY <1>1, <1>6, <1>8, <1>10 DEF PagesIInv

LEMMA PagesStep == PagesIInv /\ [PagesNext]_pageVars => PagesIInv'
<1> SUFFICES ASSUME PagesIInv, [PagesNext]_pageVars PROVE PagesIInv'
  OBVIOUS
<1>1. CASE UNCHANGED pageVars
  BY <1>1 DEF pageVars, PagesIInv, PagesShape, Readers, Top, ReadInSpan, SpanRead, InSpan, Read,
              NewerDue, Matching
<1>2. ASSUME NEW k \in Limits, query(k) \/ search(k) PROVE PagesIInv'
  BY <1>2, OpensKeeps DEF query, search
<1>3. ASSUME NEW k \in Limits, NEW side \in {"older", "newer"}, Find(side, k) PROVE PagesIInv'
  BY <1>3, FindOlderKeeps, FindNewerKeeps
<1> QED
  BY <1>1, <1>2, <1>3, ChannelStepKeeps, DrawKeeps, ScrollUpKeeps, ScrollDownKeeps, JumpKeeps
     DEF PagesNext

(* However a client pages through a channel of any size, by pages of any limits, and
   whatever is sent, pinned and deleted meanwhile: between the edges it has reached it
   has what is stored, but for what came late, and nothing twice
   (MessageQuery, fetch_messages). *)
THEOREM PagesAlwaysComplete == PagesSpec => []PagesComplete
<1>1. PagesInit => PagesIInv
  <2> SUFFICES ASSUME PagesInit PROVE PagesIInv
    OBVIOUS
  <2>1. /\ reader = [filter |-> "all", lo |-> Top, hi |-> 0, view |-> {}, todo |-> {}]
        /\ MaxPosts \in Nat /\ Top \in 0 .. Top /\ 0 \in 0 .. Top
    BY PagesAssumption, SMT DEF PagesInit, Bottom, Top
  <2>2. reader \in Readers /\ reader.view = {} /\ reader.todo = {}
    BY <2>1, SMT DEF Readers
  <2>3. drawn \in Nat /\ drawn <= MaxPosts
    BY <2>1, SMT DEF PagesInit
  <2> QED
    BY <2>2, <2>3 DEF PagesInit, PagesIInv, PagesShape, ReadInSpan, SpanRead, Matching
<1>2. PagesIInv => PagesComplete
  BY DEF PagesIInv, SpanRead, InSpan, NewerDue, PagesComplete
<1> QED
  BY <1>1, <1>2, PagesStep, PTL DEF PagesSpec

=============================================================================
