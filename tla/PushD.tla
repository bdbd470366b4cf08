------------------------------- MODULE PushD --------------------------------
(***************************************************************************)
(* Push notifications: the events the API hands to RabbitMQ (amqp.rs), the *)
(* inbound consumers of pushd that turn an event into one payload per      *)
(* session, and the outbound consumers that hand payloads to Apple, Google *)
(* and the web push services.                                              *)
(*                                                                         *)
(* Queues are consumed without acknowledgement: what a consumer holds when *)
(* the daemon stops is gone.                                               *)
(***************************************************************************)
EXTENDS Integers, FiniteSets

CONSTANTS
    PUsers,            \* users
    Sessions,          \* sessions
    UserOf,            \* UserOf[s]: the user of session s
    Endpoints,         \* Endpoints[s]: "apn", "fcm" or a web push address
    PushEvents,        \* the events the API may publish, each at most once
    CallRecipients,    \* recipients of the channel that is called
    Pending,           \* mentions that are unread from the start: user and message
    Viewers,           \* members who can see the channel of a mass mention
    MaxTokens,         \* bound on the tokens of a device
    MaxPublished,      \* bound on the events of a behaviour
    mass_mention_chunk_size

ASSUME PushDAssumption ==
    /\ UserOf \in [Sessions -> PUsers]
    /\ Endpoints \in [Sessions -> {"apn", "fcm", "web"}]
    /\ CallRecipients \subseteq PUsers /\ Viewers \subseteq PUsers
    /\ MaxTokens \in Nat \ {0} /\ MaxPublished \in Nat
    /\ mass_mention_chunk_size \in Nat \ {0}
    /\ \A d, e \in PushEvents : d.id = e.id => d = e
    /\ \A e \in PushEvents : e.kind \in {"message", "fr_received", "fr_accepted", "generic",
                                         "dm_call", "ack"}

VARIABLES
    published,   \* events published so far
    inbound,     \* events in the inbound queues
    consumer,    \* consumer[q]: what the consumer of inbound queue q works on
    outbound,    \* payloads in the queues of the services
    refused,     \* payloads a service refused, to be unsubscribed
    notified,    \* payloads a service accepted
    push_token,  \* push_token[s]: the subscription of session s, 0 for none
    newest,      \* newest[s]: the token the service has given the device of s
    online,      \* users who are online
    recorded,    \* unread mentions: pairs of user and message
    replaced,    \* history: sessions that subscribed anew with a payload under way
    lost         \* history: sessions unsubscribed although their token was good

pushVars == <<published, inbound, consumer, outbound, refused, notified, push_token, newest,
              online, recorded, replaced, lost>>

Queues == {"message", "mass", "fr_received", "fr_accepted", "generic", "dm_call", "ack"}
Resting == [event |-> [queue |-> "none"], members |-> {}, sessions |-> {}]

PushInit ==
    /\ published = {} /\ inbound = {} /\ outbound = {} /\ refused = {} /\ notified = {}
    /\ consumer = [q \in Queues |-> Resting]
    /\ push_token = [s \in Sessions |-> 0] /\ newest = [s \in Sessions |-> 1]
    /\ online = {} /\ recorded = Pending /\ replaced = {} /\ lost = {}

PushTypeOK ==
    /\ published \subseteq PushEvents /\ online \subseteq PUsers
    /\ push_token \in [Sessions -> 0 .. MaxTokens] /\ newest \in [Sessions -> 1 .. MaxTokens]
    /\ \A p \in outbound \cup refused \cup notified : p.session \in Sessions
    /\ replaced \subseteq Sessions /\ lost \subseteq Sessions

------------------------------------------------------------------------------
(* AMQP: one publish operation per kind of event.  Only messages leave out  *)
(* who is online.                                                           *)
message_sent(e) == [queue |-> "message", id |-> e.id, users |-> e.mentions \ online]
mass_mention_message_sent(e) ==
    [queue |-> "mass", id |-> e.id, mentions |-> e.mentions, everyone |-> e.everyone,
     roles |-> e.roles]
friend_request_received(e) == [queue |-> "fr_received", id |-> e.id, user |-> e.user]
friend_request_accepted(e) == [queue |-> "fr_accepted", id |-> e.id, user |-> e.user]
generic_message(e) == [queue |-> "generic", id |-> e.id, user |-> e.user]
ack_message(e) == [queue |-> "ack", id |-> e.id, user |-> e.user]
dm_call_updated(e) ==
    [queue |-> "dm_call", id |-> e.id, initiator |-> e.initiator, users |-> e.recipients]

PublicationsOf(e) ==
    CASE e.kind = "message"     -> (IF e.mentions = {} THEN {} ELSE {message_sent(e)})
                                   \cup (IF e.everyone \/ e.roles # {}
                                         THEN {mass_mention_message_sent(e)} ELSE {})
      [] e.kind = "fr_received" -> {friend_request_received(e)}
      [] e.kind = "fr_accepted" -> {friend_request_accepted(e)}
      [] e.kind = "generic"     -> {generic_message(e)}
      [] e.kind = "dm_call"     -> {dm_call_updated(e)}
      [] e.kind = "ack"         -> {ack_message(e)}

(* The mentions of a message are unread before the event goes out, and what *)
(* is acknowledged is read, the channel's own id with it: it is older.      *)
RecordedBy(e) ==
    CASE e.kind = "message" -> recorded \cup (e.mentions \X {e.id})
      [] e.kind = "ack"     -> recorded \ {<<e.user, e.of>>, <<e.user, "channel">>}
      [] OTHER              -> recorded

PublishEvent(e) ==
    /\ e \notin published /\ Cardinality(published) < MaxPublished
    /\ published' = published \cup {e}
    /\ inbound' = inbound \cup PublicationsOf(e)
    /\ recorded' = RecordedBy(e)
    /\ UNCHANGED <<consumer, outbound, refused, notified, push_token, newest, online, replaced, lost>>

------------------------------------------------------------------------------
(* The subscriptions found for some users: session and token. *)
Subscribed(users) ==
    {<<s, push_token[s]>> : s \in {x \in Sessions : push_token[x] # 0 /\ UserOf[x] \in users}}

(* Who an event is for, by the consumer of its queue.  What is published as *)
(* generic does not parse as what its consumer expects, and is dropped.     *)
MessageConsumer(e) == e.users
FRReceivedConsumer(e) == {e.user}
FRAcceptedConsumer(e) == {e.user}
GenericConsumer(e) == {}
DmCallConsumer(e) ==
    (IF e.users = {} THEN CallRecipients ELSE e.users \cap CallRecipients) \ {e.initiator}
MassMessageConsumer(e) == IF e.everyone THEN PUsers ELSE e.roles

(* A badge is updated for Apple devices only, and only while the user has   *)
(* unread mentions.                                                         *)
AckConsumer(e) ==
    IF \A r \in recorded : r[1] # e.user THEN {}
    ELSE {x \in Subscribed({e.user}) : Endpoints[x[1]] = "apn"}

(* Callees and mass mentions are looked up as the consumer goes along. *)
Work(e) ==
    CASE e.queue = "message"     -> [members |-> {}, sessions |-> Subscribed(MessageConsumer(e))]
      [] e.queue = "fr_received" -> [members |-> {}, sessions |-> Subscribed(FRReceivedConsumer(e))]
      [] e.queue = "fr_accepted" -> [members |-> {}, sessions |-> Subscribed(FRAcceptedConsumer(e))]
      [] e.queue = "generic"     -> [members |-> {}, sessions |-> Subscribed(GenericConsumer(e))]
      [] e.queue = "ack"         -> [members |-> {}, sessions |-> AckConsumer(e)]
      [] e.queue = "dm_call"     -> [members |-> DmCallConsumer(e), sessions |-> {}]
      [] e.queue = "mass"        -> [members |-> MassMessageConsumer(e), sessions |-> {}]

consume_event(q, e) ==
    /\ consumer[q] = Resting
    /\ e \in inbound /\ e.queue = q
    /\ inbound' = inbound \ {e}
    /\ consumer' = [consumer EXCEPT ![q] =
          [event |-> e, members |-> Work(e).members, sessions |-> Work(e).sessions]]
    /\ UNCHANGED <<published, outbound, refused, notified, push_token, newest, online, recorded, replaced, lost>>

NextCallee(u) ==
    LET c == consumer["dm_call"] IN
    /\ u \in c.members /\ c.sessions = {}
    /\ consumer' = [consumer EXCEPT !["dm_call"] =
          [c EXCEPT !.members = @ \ {u}, !.sessions = Subscribed({u})]]
    /\ UNCHANGED <<published, inbound, outbound, refused, notified, push_token, newest, online,
                   recorded, replaced, lost>>

\* BUG VARIANT: those the message mentions by name are notified again.
ChunkTargetsAll(e, chunk) ==
    (IF e.everyone THEN chunk ELSE chunk \cap Viewers) \ online

(* Of a chunk of members, those who are offline and not mentioned by name   *)
(* are notified; of the members of a role only those who see the channel.   *)
ChunkTargets(e, chunk) ==
    (IF e.everyone THEN chunk ELSE chunk \cap Viewers) \ (online \cup e.mentions)

(* The next chunk of a mass mention.  Everyone gets an unread mention, of   *)
(* the channel's id and not the message's; the members of a role get none.  *)
MassMentionChunk(chunk) ==
    LET c == consumer["mass"] IN
    /\ c.members # {} /\ c.sessions = {}
    /\ chunk \subseteq c.members
    /\ Cardinality(chunk) = mass_mention_chunk_size \/ chunk = c.members
    /\ Cardinality(chunk) <= mass_mention_chunk_size
    /\ consumer' = [consumer EXCEPT !["mass"] =
          [c EXCEPT !.members = @ \ chunk,
                    !.sessions = Subscribed(ChunkTargets(c.event, chunk))]]
    /\ recorded' = IF c.event.everyone
                   THEN recorded \cup (chunk \X {"channel"}) ELSE recorded
    /\ UNCHANGED <<published, inbound, outbound, refused, notified, push_token, newest, online, replaced, lost>>

(* A web push payload carries more of the subscription. *)
PayloadToService(q, x) ==
    [session |-> x[1], token |-> x[2], id |-> consumer[q].event.id, via |-> q,
     extras |-> IF Endpoints[x[1]] = "web" THEN {"p265dh", "endpoint"} ELSE {}]

publish_message(q, x) ==
    /\ x \in consumer[q].sessions
    /\ outbound' = outbound \cup {PayloadToService(q, x)}
    /\ consumer' = [consumer EXCEPT ![q].sessions = @ \ {x}]
    /\ UNCHANGED <<published, inbound, refused, notified, push_token, newest, online, recorded, replaced, lost>>

Finish(q) ==
    /\ consumer[q] # Resting /\ consumer[q].members = {} /\ consumer[q].sessions = {}
    /\ consumer' = [consumer EXCEPT ![q] = Resting]
    /\ UNCHANGED <<published, inbound, outbound, refused, notified, push_token, newest, online,
                   recorded, replaced, lost>>

------------------------------------------------------------------------------
(* A service accepts the token it gave the device last, refuses others, and *)
(* may fail; only a refusal is answered by unsubscribing the session.       *)
Outcomes(p) ==
    {"failed", IF p.token = newest[p.session] THEN "accepted" ELSE "refused"}

ApnsOutboundConsumer(p) == Outcomes(p)
FcmOutboundConsumer(p) == IF p.via = "ack" THEN {"failed"} ELSE Outcomes(p)

(* Web push fails unless it finds the key of the subscription. *)
VapidOutboundConsumer(p) == IF "p256dh" \in p.extras THEN Outcomes(p) ELSE {"failed"}

DeliveryOutcomes(p) ==
    CASE Endpoints[p.session] = "apn" -> ApnsOutboundConsumer(p)
      [] Endpoints[p.session] = "fcm" -> FcmOutboundConsumer(p)
      [] OTHER                        -> VapidOutboundConsumer(p)

Unsubscribes(outcome) == outcome = "refused"

Deliver(p, outcome) ==
    /\ p \in outbound /\ outcome \in DeliveryOutcomes(p)
    /\ outbound' = outbound \ {p}
    /\ notified' = IF outcome = "accepted" THEN notified \cup {p} ELSE notified
    /\ refused' = IF Unsubscribes(outcome) THEN refused \cup {p} ELSE refused
    /\ UNCHANGED <<published, inbound, consumer, push_token, newest, online, recorded, replaced, lost>>

(* The subscription of the session is removed, whatever it is by now. *)
remove_push_subscription_by_session_id(p) ==
    /\ p \in refused
    /\ refused' = refused \ {p}
    /\ push_token' = [push_token EXCEPT ![p.session] = 0]
    /\ lost' = IF push_token[p.session] = newest[p.session] THEN lost \cup {p.session} ELSE lost
    /\ UNCHANGED <<published, inbound, consumer, outbound, notified, newest, online, recorded,
                   replaced>>

------------------------------------------------------------------------------
(* The device is given another token. *)
Rotate(s) ==
    /\ newest[s] < MaxTokens
    /\ newest' = [newest EXCEPT ![s] = @ + 1]
    /\ UNCHANGED <<published, inbound, consumer, outbound, refused, notified, push_token, online,
                   recorded, replaced, lost>>

UnderWay(s) ==
    \/ \E p \in outbound \cup refused : p.session = s
    \/ \E q \in Queues : \E x \in consumer[q].sessions : x[1] = s

subscribe(s) ==
    /\ push_token[s] # newest[s]
    /\ push_token' = [push_token EXCEPT ![s] = newest[s]]
    /\ replaced' = IF UnderWay(s) THEN replaced \cup {s} ELSE replaced
    /\ UNCHANGED <<published, inbound, consumer, outbound, refused, notified, newest, online,
                   recorded, lost>>

unsubscribe(s) ==
    /\ push_token[s] # 0
    /\ push_token' = [push_token EXCEPT ![s] = 0]
    /\ UNCHANGED <<published, inbound, consumer, outbound, refused, notified, newest, online,
                   recorded, replaced, lost>>

ComesOnline(u) ==
    /\ u \notin online
    /\ online' = online \cup {u}
    /\ UNCHANGED <<published, inbound, consumer, outbound, refused, notified, push_token, newest,
                   recorded, replaced, lost>>

(* The daemon stops and starts again. *)
RestartPushD ==
    /\ \E q \in Queues : consumer[q] # Resting
    /\ consumer' = [q \in Queues |-> Resting]
    /\ refused' = {}
    /\ UNCHANGED <<published, inbound, outbound, notified, push_token, newest, online, recorded, replaced, lost>>

PushNext ==
    \/ \E e \in PushEvents : PublishEvent(e)
    \/ \E q \in Queues : \/ \E e \in inbound : consume_event(q, e)
                         \/ \E x \in consumer[q].sessions : publish_message(q, x)
                         \/ Finish(q)
    \/ \E chunk \in SUBSET PUsers : MassMentionChunk(chunk)
    \/ \E p \in outbound, o \in {"accepted", "refused", "failed"} : Deliver(p, o)
    \/ \E p \in refused : remove_push_subscription_by_session_id(p)
    \/ \E s \in Sessions : Rotate(s) \/ subscribe(s) \/ unsubscribe(s)
    \/ \E u \in PUsers : ComesOnline(u) \/ NextCallee(u)
    \/ RestartPushD

PushSpec == PushInit /\ [][PushNext]_pushVars

------------------------------------------------------------------------------
(* No session is notified twice of one event, although a message that also  *)
(* mentions everyone goes through two queues (the mass mention consumer     *)
(* leaves out those the message mentions by name).                          *)
NotifiedOnce ==
    \A p, q \in notified : (p.session = q.session /\ p.id = q.id) => p = q

(* A session loses a subscription its service would still accept only when  *)
(* it subscribed anew with a payload for the former token under way: the    *)
(* outbound consumers remove the subscription by session, not by token.     *)
GoodTokensKept == lost \subseteq replaced

\* Refuted by TLC (see the known divergences in README.md):
(* A mass mention leaves an unread mention with every user it notifies (the *)
(* mass mention consumer handles adding mentions for all the users          *)
(* affected).                                                               *)
NotifiedIsRecorded ==
    \A p \in notified : p.via = "mass" => <<UserOf[p.session], p.id>> \in recorded
=============================================================================
