------------------------------- MODULE DmRelay -------------------------------
(***************************************************************************)
(* The broker's device registry and the relay of direct messages over it.  *)
(* Each login session of a user is a device: bonfire registers it when it  *)
(* connects and refreshes it on each heartbeat, relay_dm_message lists the *)
(* recipient's devices, queues for those without a recent heartbeat and    *)
(* publishes to those connected.  One recipient; a device's offline queue  *)
(* is the set of messages in it (BrokerQueue has the commands of a push).  *)
(***************************************************************************)
EXTENDS Naturals, FiniteSets, Functions

CONSTANTS
    Sessions,                    \* the recipient's login sessions
    Messages,                    \* messages relayed to the recipient
    MAX_DEVICES_PER_USER,
    HEARTBEAT_TIMEOUT_SECONDS,
    DEVICE_TTL_SECONDS,
    MaxNow,                      \* bound: the clock
    MaxForgets                   \* bound: uses of "Forget device"

ASSUME RelayAssumptions ==
    /\ MAX_DEVICES_PER_USER \in Nat /\ MaxNow \in Nat /\ MaxForgets \in Nat
    /\ HEARTBEAT_TIMEOUT_SECONDS \in Nat /\ DEVICE_TTL_SECONDS \in Nat
    /\ HEARTBEAT_TIMEOUT_SECONDS < DEVICE_TTL_SECONDS

VARIABLES
    now,        \* now_unix
    devices,    \* the device hash: last_seen_unix of each entry
    conn,       \* where each session's connection task is
    victims,    \* sessions a registration has still to evict
    inbox,      \* the offline queue of each session
    reading,    \* what the drain of a session has read of its queue
    received,   \* messages each device has been sent
    relay,      \* where the relay of each message is
    listed,     \* devices a relay has still to go through, with last_seen_unix
    prune,      \* stale devices a relay has still to prune
    audience,   \* devices a relay listed, and whether it took them for online, but
                \* for those that were removed or lost the message since
    forgotten   \* devices forgotten and not registered since

registry == <<devices, conn, victims, reading, forgotten>>
relayVars == <<relay, listed, prune>>
mail == <<inbox, received>>
dmVars == <<now, registry, mail, relayVars, audience>>

Empty == [s \in {} |-> 0]

DmInit ==
    /\ now = 0
    /\ devices = Empty
    /\ conn = [s \in Sessions |-> "off"]
    /\ victims = [s \in Sessions |-> {}]
    /\ reading = [s \in Sessions |-> {}]
    /\ inbox = [s \in Sessions |-> {}]
    /\ received = [s \in Sessions |-> {}]
    /\ relay = [m \in Messages |-> "idle"]
    /\ listed = [m \in Messages |-> Empty]
    /\ prune = [m \in Messages |-> {}]
    /\ audience = [m \in Messages |-> Empty]
    /\ forgotten = {}

DmTypeOK ==
    /\ now \in 0..MaxNow /\ forgotten \subseteq Sessions
    /\ DOMAIN devices \subseteq Sessions /\ Range(devices) \subseteq 0..now
    /\ reading \in [Sessions -> SUBSET Messages]
    /\ inbox \in [Sessions -> SUBSET Messages] /\ received \in [Sessions -> SUBSET Messages]
    /\ victims \in [Sessions -> SUBSET Sessions] /\ prune \in [Messages -> SUBSET Sessions]
    /\ \A m \in Messages : DOMAIN listed[m] \cup DOMAIN audience[m] \subseteq Sessions

Known == DOMAIN devices
Put(d, s) == [t \in DOMAIN d \cup {s} |-> IF t = s THEN now ELSE d[t]]
Del(d, s) == Restrict(d, DOMAIN d \ {s})
ConnGoto(s, from, to) == conn[s] = from /\ conn' = [conn EXCEPT ![s] = to]

(* HDEL of the entry and DEL of the queue *)
Undock(s) ==
    /\ devices' = Del(devices, s)
    /\ inbox' = [inbox EXCEPT ![s] = {}]
    /\ audience' = [m \in Messages |-> Del(audience[m], s)]

IsOnline(last_seen) == now - last_seen <= HEARTBEAT_TIMEOUT_SECONDS
IsStale(last_seen) == now - last_seen > DEVICE_TTL_SECONDS

RelayTick ==
    /\ now < MaxNow
    /\ now' = now + 1
    /\ UNCHANGED <<registry, mail, relayVars, audience>>

-----------------------------------------------------------------------------
(* register_user: HSET and EXPIRE, ... *)
RegisterDevice(s) ==
    /\ ConnGoto(s, "off", "capping")
    /\ devices' = Put(devices, s)
    /\ forgotten' = forgotten \ {s}
    /\ UNCHANGED <<now, victims, reading, mail, relayVars, audience>>

(* ... HGETALL and the choice of the oldest entries over the cap (the sort
   leaves entries of equal age in any order), never the session itself, ... *)
OldestOver(V) ==
    /\ Cardinality(V) + MAX_DEVICES_PER_USER = Cardinality(Known)
    /\ \A v \in V, w \in Known \ V : devices[v] <= devices[w]

EnforceCap(s) ==
    /\ \/ /\ Cardinality(Known) <= MAX_DEVICES_PER_USER
          /\ ConnGoto(s, "capping", "drain")
          /\ UNCHANGED victims
       \/ \E V \in SUBSET Known :
             /\ Cardinality(Known) > MAX_DEVICES_PER_USER
             /\ OldestOver(V)
             /\ ConnGoto(s, "capping", "evicting")
             /\ victims' = [victims EXCEPT ![s] = V \ {s}]
    /\ UNCHANGED <<now, devices, reading, forgotten, mail, relayVars, audience>>

(* ... then HDEL of each with DEL of its queue. *)
Evict(s, v) ==
    /\ conn[s] = "evicting"
    /\ v \in victims[s]
    /\ victims' = [victims EXCEPT ![s] = @ \ {v}]
    /\ Undock(v)
    /\ UNCHANGED <<now, conn, reading, forgotten, received, relayVars>>

EvictDone(s) ==
    /\ victims[s] = {}
    /\ ConnGoto(s, "evicting", "drain")
    /\ UNCHANGED <<now, devices, victims, reading, forgotten, mail, relayVars, audience>>

(* The client ignores a register_user that fails, wherever it does. *)
RegisterFails(s) ==
    /\ \E from \in {"off", "capping", "evicting"} : ConnGoto(s, from, "drain")
    /\ victims' = [victims EXCEPT ![s] = {}]
    /\ UNCHANGED <<now, devices, reading, forgotten, mail, relayVars, audience>>

(* A device that has lost the messages ms is no longer owed them. *)
Loses(s, ms) ==
    audience' = [m \in Messages |-> IF m \in ms THEN Del(audience[m], s) ELSE audience[m]]

(* drain_offline_queue reads the queue, ... *)
DrainList(s) ==
    /\ ConnGoto(s, "drain", IF inbox[s] = {} THEN "joining" ELSE "draining")
    /\ reading' = [reading EXCEPT ![s] = inbox[s]]
    /\ UNCHANGED <<now, devices, victims, forgotten, mail, relayVars, audience>>

(* ... then deletes it with what has come since.  Of what was read the client
   sends what Filter leaves, up to the first send that fails (any part here),
   and starts its listener. *)
DrainDel(s) ==
    /\ ConnGoto(s, "draining", "joining")
    /\ inbox' = [inbox EXCEPT ![s] = {}]
    /\ reading' = [reading EXCEPT ![s] = {}]
    /\ \E sent \in SUBSET reading[s] :
          /\ received' = [received EXCEPT ![s] = @ \cup sent]
          /\ Loses(s, (inbox[s] \cup reading[s]) \ sent)
    /\ UNCHANGED <<now, devices, victims, forgotten, relayVars>>

(* A connection that is refused or a command that fails ends the drain; the
   client goes on without. *)
DrainGivesUp(s) ==
    /\ ConnGoto(s, "drain", "joining") \/ ConnGoto(s, "draining", "joining")
    /\ reading' = [reading EXCEPT ![s] = {}]
    /\ UNCHANGED <<now, devices, victims, forgotten, mail, relayVars, audience>>

(* OFFLINE_QUEUE_TTL_SECONDS after its first message a queue expires. *)
ExpireInbox(s) ==
    /\ inbox[s] # {}
    /\ inbox' = [inbox EXCEPT ![s] = {}]
    /\ Loses(s, inbox[s])
    /\ UNCHANGED <<now, registry, received, relayVars>>

Subscribe(s) ==
    /\ ConnGoto(s, "joining", "live")
    /\ UNCHANGED <<now, devices, victims, reading, forgotten, mail, relayVars, audience>>

(* refresh_user_ttl: HGET, and HSET of what was found with the time changed. *)
RefreshRead(s) ==
    /\ s \in Known
    /\ ConnGoto(s, "live", "refresh")
    /\ UNCHANGED <<now, devices, victims, reading, forgotten, mail, relayVars, audience>>

RefreshWrite(s) ==
    /\ ConnGoto(s, "refresh", "live")
    /\ devices' = Put(devices, s)
    /\ UNCHANGED <<now, victims, reading, forgotten, mail, relayVars, audience>>

(* A disconnect leaves the registry alone. *)
Disconnect(s) ==
    /\ ConnGoto(s, "live", "off")
    /\ UNCHANGED <<now, devices, victims, reading, forgotten, mail, relayVars, audience>>

(* forget_device *)
ForgetDevice(s) ==
    /\ Cardinality(forgotten) < MaxForgets
    /\ s \in Known
    /\ Undock(s)
    /\ forgotten' = forgotten \cup {s}
    /\ UNCHANGED <<now, conn, victims, reading, received, relayVars>>

-----------------------------------------------------------------------------
(* relay_dm_message, for the one recipient: list_known_sessions reads the
   hash, ... *)
RelayList(m) ==
    /\ relay[m] = "idle"
    /\ relay' = [relay EXCEPT ![m] = "listed"]
    /\ LET alive == {s \in Known : ~IsStale(devices[s])} IN
          /\ listed' = [listed EXCEPT ![m] = Restrict(devices, alive)]
          /\ prune' = [prune EXCEPT ![m] = Known \ alive]
          /\ audience' = [audience EXCEPT ![m] = [s \in alive |-> IsOnline(devices[s])]]
    /\ UNCHANGED <<now, registry, mail>>

(* ... prunes the stale entries, ... *)
Prune(m, s) ==
    /\ s \in prune[m]
    /\ prune' = [prune EXCEPT ![m] = @ \ {s}]
    /\ Undock(s)
    /\ UNCHANGED <<now, conn, victims, reading, forgotten, received, relay, listed>>

(* ... and each device it listed is counted as online, or has the message
   queued; an error of queue_offline_message is logged. *)
RelayTurn(m, s) ==
    /\ relay[m] = "listed" /\ prune[m] = {}
    /\ s \in DOMAIN listed[m]
    /\ listed' = [listed EXCEPT ![m] = Del(@, s)]
    /\ UNCHANGED <<now, registry, received, relay, prune>>

QueueIfStale(m, s) ==
    /\ RelayTurn(m, s)
    /\ inbox' = IF IsStale(listed[m][s]) THEN [inbox EXCEPT ![s] = @ \cup {m}] ELSE inbox
    /\ UNCHANGED audience

QueueIfSilent(m, s) ==
    /\ RelayTurn(m, s)
    /\ inbox' = IF IsOnline(listed[m][s]) THEN inbox ELSE [inbox EXCEPT ![s] = @ \cup {m}]
    /\ UNCHANGED audience

QueueRefused(m, s) ==
    /\ RelayTurn(m, s)
    /\ ~IsOnline(listed[m][s])
    /\ audience' = [audience EXCEPT ![m] = Del(@, s)]
    /\ UNCHANGED inbox

(* Then the event is published on the channel's topic. *)
RelayPublish(m) ==
    /\ relay[m] = "listed" /\ prune[m] = {} /\ DOMAIN listed[m] = {}
    /\ relay' = [relay EXCEPT ![m] = "done"]
    /\ received' = [s \in Sessions |->
           IF conn[s] \in {"live", "refresh"} THEN received[s] \cup {m} ELSE received[s]]
    /\ UNCHANGED <<now, registry, inbox, listed, prune, audience>>

DmNext ==
    \/ \E s \in Sessions :
          \/ RegisterDevice(s) \/ EnforceCap(s) \/ EvictDone(s) \/ RegisterFails(s)
          \/ DrainList(s) \/ DrainDel(s) \/ DrainGivesUp(s) \/ ExpireInbox(s)
          \/ Subscribe(s) \/ RefreshRead(s) \/ RefreshWrite(s) \/ Disconnect(s) \/ ForgetDevice(s)
          \/ \E v \in Sessions : Evict(s, v)
          \/ \E m \in Messages : Prune(m, s) \/ QueueIfSilent(m, s) \/ QueueRefused(m, s)
    \/ \E m \in Messages : RelayList(m) \/ RelayPublish(m)
    \/ RelayTick

DmSpec == DmInit /\ [][DmNext]_dmVars

-----------------------------------------------------------------------------
(* A message whose relay is done is in the queue of, or was sent to, every
   device that was known and past its heartbeat when the relay listed it,
   however the relay interleaves with that device's reconnects, drains and
   heartbeats.  Excepted are devices that were removed since, whose queue
   refused the message or expired with it, and those whose drain deleted the
   message unread (it came between LRANGE and DEL), filtered it out or failed
   to send it. *)
SilentDevicesReached ==
    \A m \in Messages : relay[m] = "done" =>
        \A s \in DOMAIN audience[m] : audience[m][s] \/ m \in inbox[s] \cup received[s]

-----------------------------------------------------------------------------
(***************************************************************************)
(* Purging a channel (DELETE /channels/<id>/messages/purge/<before>): the  *)
(* route deletes messages, increments the channel's epoch in MongoDB,      *)
(* mirrors it into the broker's Redis cache, and returns it in a signed    *)
(* token; drain_offline_queue drops envelopes older than the cached epoch. *)
(* One channel.                                                            *)
(***************************************************************************)
CONSTANTS
    Purges,       \* calls of the route by users who may purge
    MaxId,        \* bound: message ids are 1..MaxId, in the order of creation
    MaxFailures   \* bound: failing database calls

ASSUME EpochAssumptions == MaxId \in Nat /\ MaxFailures \in Nat

VARIABLES
    messages,     \* ids of the channel's messages in MongoDB
    created,      \* ids handed out so far
    epoch,        \* channel_epochs; 0 when there is no document
    cache,        \* broker:channel_epoch; 0 when there is no key
    announced,    \* ids published in BulkMessageDelete events
    pc,           \* where each purge is
    before_id,    \* its path parameter
    deleted_ids,  \* what it found to delete
    new_epoch,    \* what it returns
    dropped,      \* envelope epochs drain_offline_queue dropped, with the epoch then
    failures

store == <<messages, created, announced>>
epochVars == <<store, epoch, cache, pc, before_id, deleted_ids, new_epoch, dropped, failures>>

Epochs == 0..Cardinality(Purges)

EpochInit ==
    /\ messages = {} /\ created = 0 /\ announced = {}
    /\ epoch = 0 /\ cache = 0
    /\ pc = [p \in Purges |-> "idle"]
    /\ before_id = [p \in Purges |-> 0]
    /\ deleted_ids = [p \in Purges |-> {}]
    /\ new_epoch = [p \in Purges |-> 0]
    /\ dropped = {}
    /\ failures = 0

EpochTypeOK ==
    /\ created \in 0..MaxId /\ messages \subseteq 1..created /\ announced \subseteq 1..created
    /\ epoch \in Epochs /\ cache \in Epochs /\ failures \in 0..MaxFailures
    /\ before_id \in [Purges -> 0..MaxId] /\ new_epoch \in [Purges -> Epochs]
    /\ \A p \in Purges : deleted_ids[p] \subseteq 1..created

PurgeGoto(p, from, to) == pc[p] = from /\ pc' = [pc EXCEPT ![p] = to]
Fail == failures < MaxFailures /\ failures' = failures + 1

SendMessage ==
    /\ created < MaxId
    /\ created' = created + 1
    /\ messages' = messages \cup {created'}
    /\ UNCHANGED <<announced, epoch, cache, pc, before_id, deleted_ids, new_epoch, dropped, failures>>

-----------------------------------------------------------------------------
(* purge_before, once permitted: the ids at or before the watermark (an error
   is taken for none), ... *)
PurgeFind(p, b) ==
    /\ PurgeGoto(p, "idle", "found")
    /\ before_id' = [before_id EXCEPT ![p] = b]
    /\ \/ /\ deleted_ids' = [deleted_ids EXCEPT ![p] = {i \in messages : i <= b}]
          /\ UNCHANGED failures
       \/ Fail /\ UNCHANGED deleted_ids
    /\ UNCHANGED <<store, epoch, cache, new_epoch, dropped>>

(* ... their deletion by the same filter and the event, ... *)
PurgeDelete(p) ==
    /\ \/ /\ PurgeGoto(p, "found", "bump")
          /\ IF deleted_ids[p] = {}
                THEN UNCHANGED <<messages, announced>>
                ELSE /\ messages' = {i \in messages : i > before_id[p]}
                     /\ announced' = announced \cup deleted_ids[p]
          /\ UNCHANGED failures
       \/ /\ deleted_ids[p] # {}
          /\ PurgeGoto(p, "found", "err")
          /\ Fail /\ UNCHANGED <<messages, announced>>
    /\ UNCHANGED <<created, epoch, cache, before_id, deleted_ids, new_epoch, dropped>>

(* ... the $inc, for which an error reads as epoch 1, ... *)
PurgeBump(p) ==
    /\ PurgeGoto(p, "bump", "mirror")
    /\ \/ /\ epoch' = epoch + 1
          /\ new_epoch' = [new_epoch EXCEPT ![p] = epoch']
          /\ UNCHANGED failures
       \/ /\ Fail
          /\ new_epoch' = [new_epoch EXCEPT ![p] = 1]
          /\ UNCHANGED epoch
    /\ UNCHANGED <<store, cache, before_id, deleted_ids, dropped>>

(* ... and the mirroring into the cache, best effort. *)
PurgeMirrorNext(p) ==
    /\ PurgeGoto(p, "mirror", "done")
    /\ cache' = new_epoch[p] + 1
    /\ UNCHANGED <<failures, store, epoch, before_id, deleted_ids, new_epoch, dropped>>

PurgeMirror(p) ==
    /\ PurgeGoto(p, "mirror", "done")
    /\ \/ cache' = new_epoch[p] /\ UNCHANGED failures
       \/ Fail /\ UNCHANGED cache
    /\ UNCHANGED <<store, epoch, before_id, deleted_ids, new_epoch, dropped>>

(* drain_offline_queue on an envelope of epoch e: the sender had it from a
   token, so it is at most the channel's. *)
Filter(e) ==
    /\ e \in 0..epoch
    /\ e < cache
    /\ dropped' = dropped \cup {<<e, epoch>>}
    /\ UNCHANGED <<store, epoch, cache, pc, before_id, deleted_ids, new_epoch, failures>>

EpochNext ==
    \/ SendMessage
    \/ \E p \in Purges :
          \/ \E b \in 0..MaxId : PurgeFind(p, b)
          \/ PurgeDelete(p) \/ PurgeBump(p) \/ PurgeMirror(p)
    \/ \E e \in Epochs : Filter(e)

EpochSpec == EpochInit /\ [][EpochNext]_epochVars

-----------------------------------------------------------------------------
(* "nothing gets filtered, no false rejection of fresh traffic": while the
   database answers, the drain filter drops only envelopes older than the
   channel's epoch, whatever the order purges reach the cache in. *)
OnlyStaleDropped == failures = 0 => \A d \in dropped : d[1] < d[2]
=============================================================================
