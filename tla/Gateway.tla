------------------------------ MODULE Gateway ------------------------------
(***************************************************************************)
(* One websocket connection of bonfire: the cache it keeps of a server, its *)
(* channels, a group and its own user, the topics it is subscribed to, and *)
(* what it tells its client.                                               *)
(*                                                                         *)
(* Other processes change the database and publish events; a change and    *)
(* its publication are two steps, so publications may cross.  Some         *)
(* deletions publish first and write afterwards.  An event reaches the     *)
(* connection when its topic is subscribed in Redis at that moment; the    *)
(* listener takes one event at a time, updates cache and subscriptions,    *)
(* and then carries the subscription changes to Redis one by one.          *)
(*                                                                         *)
(* Permissions are cut down to ViewChannel: the server's owner sees every  *)
(* channel; a member sees one if they hold the role, for which each        *)
(* channel has an override, or if the server's default permissions allow   *)
(* it and the channel's default override does not deny it ("hidden").      *)
(***************************************************************************)
EXTENDS Naturals, FiniteSets, SequencesExt

CONSTANTS Me, Other,        \* the user of the connection, and another one
          ServerId, GroupId,
          TextChannels,     \* ids of the server's channels, none used twice
          Private,          \* the topic "{Me}!"
          Watchable,        \* server ids that the client sends Subscribe for
          Nil,              \* None
          seen_capacity,    \* of the LRU of event ids
          watch_capacity,   \* of active_servers
          queue_capacity,   \* of the subscriber's broadcast channel
          InitialStates,    \* owner, member, open, channel, group, bot: what the connection starts from
          MaxChanges,       \* bound: changes made by others and Subscribe messages
          MaxOutstanding    \* bound: changes whose events are not published yet

ASSUME GatewayAssumption ==
    /\ seen_capacity \in Nat \ {0} /\ watch_capacity \in Nat \ {0}
    /\ queue_capacity \in Nat \ {0} /\ MaxChanges \in Nat /\ MaxOutstanding \in Nat
    /\ ServerId \in Watchable

VARIABLES base,        \* the database
          outbox,      \* per handler: the events it has yet to publish, what it then erases
          changes,     \* how many there were
          phase,       \* of the connection: what it does next
          bot,         \* cache.is_bot
          cache,
          subscribed,  \* state.subscribed
          ops,         \* the changes that the listener is carrying to Redis
          listening,   \* the topics subscribed in Redis
          inbox,       \* the subscriber's message_rx
          watching,    \* active_servers
          lapsed,      \* those of them that have expired
          poked,       \* the topic signal
          told,        \* the channels the client knows of, by what it was sent
          sent,        \* how often each UserUpdate was sent to it
          missed,      \* (history) an event was published while its topic was not yet subscribed
          reordered    \* (history) an event overtook one of an earlier change

world == <<base, outbox, changes>>
socket == <<phase, bot, cache, subscribed, ops, listening, watching, lapsed, poked>>
client == <<told, sent>>
gvars == <<world, socket, client, inbox, missed, reordered>>

-----------------------------------------------------------------------------
(* the topic "{server}u" *)
Watched(s) == <<s, "u">>

(* A channel document is "shown" or "hidden"; Nil if there is none. *)
ServerDoc == [list : SUBSET TextChannels, open : BOOLEAN, role : BOOLEAN]
MemberDoc == [who : {Me, Other}, role : BOOLEAN]
ChannelDocs == [TextChannels -> {Nil, "shown", "hidden"}]

NoOps == [add |-> {}, remove |-> {}]
EmptyCache == [server |-> Nil, member |-> Nil, chan |-> [c \in TextChannels |-> Nil],
               group |-> Nil, self |-> [id |-> Me, friend |-> FALSE], seen |-> <<>>]

Topics == {Me, Other, ServerId, GroupId, Private}
            \cup TextChannels \cup {Watched(s) : s \in Watchable}

(* the reads before Ready *)
Reading == {"members", "servers", "groups", "channels", "filter", "users"}

GatewayTypeOK ==
    /\ base \in [owner : {Me, Other}, server : {Nil} \cup ServerDoc, member : {Nil} \cup MemberDoc,
                 chan : ChannelDocs, born : SUBSET TextChannels,
                 group : SUBSET {Me, Other}, friend : BOOLEAN]
    /\ changes \in 0..MaxChanges /\ phase \in Reading \cup {"auth", "ready", "run", "closed"}
    /\ cache.server \in {Nil} \cup ServerDoc /\ cache.member \in {Nil} \cup MemberDoc
    /\ cache.chan \in ChannelDocs /\ cache.group \in {Nil} \cup SUBSET {Me, Other}
    /\ Len(cache.seen) <= seen_capacity
    /\ subscribed \subseteq Topics /\ listening \subseteq Topics
    /\ ops.add \subseteq Topics /\ ops.remove \subseteq Topics
    /\ Len(inbox) <= queue_capacity /\ Len(outbox) <= MaxOutstanding
    /\ lapsed \subseteq watching /\ Cardinality(watching) <= watch_capacity
    /\ told \subseteq TextChannels \cup {GroupId}

GatewayInit ==
    /\ \E i \in InitialStates :
          /\ base = [owner |-> i.owner, server |-> [list |-> {i.channel}, open |-> i.open, role |-> TRUE],
                     member |-> i.member, chan |-> [d \in TextChannels |-> IF d = i.channel THEN "shown" ELSE Nil],
                     born |-> {i.channel}, group |-> i.group, friend |-> FALSE]
          /\ bot = i.bot
    /\ outbox = <<>> /\ changes = 0 /\ phase = "auth"
    /\ cache = EmptyCache /\ subscribed = {} /\ ops = NoOps /\ listening = {} /\ inbox = <<>>
    /\ watching = {} /\ lapsed = {} /\ poked = FALSE
    /\ told = {} /\ sent = [u \in 1..MaxChanges |-> 0] /\ missed = FALSE /\ reordered = FALSE

-----------------------------------------------------------------------------
(* calculate_channel_permissions, as far as ViewChannel goes *)
Sees(who, server, member, doc) ==
    /\ server # Nil
    /\ \/ who = base.owner
       \/ member # Nil /\ ((member.role /\ server.role) \/ (server.open /\ doc = "shown"))

(* fetch_member; the other user is a member without the role *)
fetch_member(who) == IF who = Me THEN base.member ELSE [who |-> Other, role |-> FALSE]

(* What the cache lacks is read from the database, for the user the cache has as ours. *)
can_view_channel(c, doc) ==
    Sees(c.self.id, IF c.server # Nil THEN c.server ELSE base.server,
         IF c.member # Nil THEN c.member ELSE fetch_member(c.self.id), doc)

can_subscribe_to_user(c, u) ==
    u = c.self.id \/ (u = Other /\ c.self.friend) \/ (c.group # Nil /\ u \in c.group)

(* The channels of the server that Me may view *)
Viewable == {c \in TextChannels : base.chan[c] # Nil /\ Sees(Me, base.server, base.member, base.chan[c])}

-----------------------------------------------------------------------------
(* What others do: a change of the database, then its events.              *)

Item(events, erase) == [events |-> events, erase |-> erase]
Keep == <<"none">>

Change(newBase, item) ==
    /\ phase # "closed" /\ changes < MaxChanges /\ Len(outbox) < MaxOutstanding
    /\ ~ missed /\ ~ reordered   \* bound: what comes after is of no interest
    /\ changes' = changes + 1 /\ base' = newBase /\ outbox' = Append(outbox, item)
    /\ UNCHANGED <<socket, client, inbox, missed, reordered>>

(* Member::create; the event carries the server and the channels that it may view *)
member_create ==
    LET joined == [base EXCEPT !.member = [who |-> Me, role |-> FALSE]] IN
    /\ base.server # Nil /\ base.member = Nil
    /\ Change(joined, Item(<<[topic |-> Private, type |-> "ServerCreate", server |-> base.server,
            docs |-> [c \in TextChannels |->
                IF base.chan[c] # Nil /\ Sees(Me, base.server, joined.member, base.chan[c])
                THEN base.chan[c] ELSE Nil]]>>, Keep))

member_remove ==
    /\ base.member # Nil /\ base.owner # Me
    /\ Change([base EXCEPT !.member = Nil],
              Item(<<[topic |-> ServerId, type |-> "ServerMemberLeave", user |-> Me]>>, Keep))

member_update(held) ==
    /\ base.member # Nil /\ base.server.role
    /\ Change([base EXCEPT !.member.role = held],
              Item(<<[topic |-> ServerId, type |-> "ServerMemberUpdate", role |-> held]>>, Keep))

server_update(open) ==
    /\ base.server # Nil
    /\ Change([base EXCEPT !.server.open = open],
              Item(<<[topic |-> ServerId, type |-> "ServerUpdate", open |-> open, list |-> Nil]>>, Keep))

role_update ==
    /\ base.server # Nil /\ base.server.role
    /\ Change(base, Item(<<[topic |-> ServerId, type |-> "ServerRoleUpdate"]>>, Keep))

(* Role::delete, Channel::delete and Server::delete publish before they write. *)
role_delete ==
    /\ base.server # Nil /\ base.server.role
    /\ Change(base, Item(<<[topic |-> ServerId, type |-> "ServerRoleDelete"]>>, <<"role">>))

create_server_channel(c) ==
    /\ base.server # Nil /\ c \notin base.born
    /\ Change([base EXCEPT !.server.list = @ \cup {c}, !.chan[c] = "shown", !.born = @ \cup {c}],
              Item(<<[topic |-> ServerId, type |-> "ServerUpdate", open |-> Nil,
                      list |-> base.server.list \cup {c}],
                     [topic |-> ServerId, type |-> "ChannelCreate", id |-> c, doc |-> "shown"]>>, Keep))

channel_update(c, doc) ==
    /\ base.chan[c] # Nil
    /\ Change([base EXCEPT !.chan[c] = doc],
              Item(<<[topic |-> ServerId, type |-> "ChannelUpdate", id |-> c, doc |-> doc]>>, Keep))

channel_delete(c) ==
    /\ base.chan[c] # Nil
    /\ Change(base, Item(<<[topic |-> c, type |-> "ChannelDelete", id |-> c]>>, <<"channel", c>>))

server_delete ==
    /\ base.server # Nil
    /\ Change(base, Item(<<[topic |-> ServerId, type |-> "ServerDelete"]>>, <<"server">>))

(* Channel::add_user_to_group; the new member's connections get the channel itself. *)
add_user_to_group(u) ==
    /\ u \notin base.group
    /\ Change([base EXCEPT !.group = @ \cup {u}],
              Item(<<[topic |-> GroupId, type |-> "ChannelGroupJoin", user |-> u]>>
                   \o (IF u = Me THEN <<[topic |-> Private, type |-> "ChannelCreate", id |-> GroupId,
                                         doc |-> base.group \cup {Me}]>> ELSE <<>>), Keep))

remove_user_from_group(u) ==
    /\ u \in base.group
    /\ Change([base EXCEPT !.group = @ \ {u}],
              Item(<<[topic |-> GroupId, type |-> "ChannelGroupLeave", user |-> u]>>, Keep))

(* User::apply_relationship.  The event to Me has Me as its id, and the other user. *)
apply_relationship(friend) ==
    Change([base EXCEPT !.friend = friend],
           Item(<<[topic |-> Private, type |-> "UserRelationship", id |-> Me, user |-> Other]>>, Keep))

(* User::update goes to the user and to the members' topic of their servers,
   broadcast_presence_change to the servers and to the user. *)
user_update(topics) ==
    Change(base, Item([i \in 1..2 |-> [topic |-> topics[i], type |-> "UserUpdate",
                                       event_id |-> changes + 1]], Keep))

(* a deleted session, relayed by authifier_relay *)
auth_delete_session(mine) ==
    Change(base, Item(<<[topic |-> Private, type |-> "Auth", mine |-> mine]>>, Keep))

(* Redis hands a message to the subscribers its topic has at that moment.  A
   subscriber that falls behind by more than its buffer gets an error instead. *)
Lagged == [type |-> "Lagged", topic |-> Private]
Deliver(e) ==
    inbox' = IF e.topic \notin listening THEN inbox
             ELSE IF Len(inbox) = queue_capacity THEN <<Lagged>> ELSE Append(inbox, e)

(* the topics that Me's connections should be subscribed to *)
Due == {Private} \cup (IF base.member # Nil THEN {ServerId} ELSE {})
                 \cup (IF Me \in base.group THEN {GroupId} ELSE {})

publish(i) ==
    LET item == outbox[i]
        e == Head(item.events) IN
    /\ item.events # <<>> /\ phase # "closed"
    /\ Deliver(e)
    /\ outbox' = IF Len(item.events) = 1 /\ item.erase = Keep THEN RemoveAt(outbox, i)
                 ELSE [outbox EXCEPT ![i].events = Tail(@)]
    /\ missed' = (missed \/ (phase # "auth" /\ e.topic \in Due \ listening))
    /\ reordered' = (reordered \/ \E j \in 1..(i - 1) : outbox[j].events # <<>>)
    /\ UNCHANGED <<base, changes, socket, client>>

Erased(what) ==
    CASE what[1] = "role" ->
            [base EXCEPT !.server = IF @ = Nil THEN Nil ELSE [@ EXCEPT !.role = FALSE],
                         !.member = IF @ = Nil THEN Nil ELSE [@ EXCEPT !.role = FALSE]]
      [] what[1] = "channel" ->
            [base EXCEPT !.server = IF @ = Nil THEN Nil ELSE [@ EXCEPT !.list = @ \ {what[2]}],
                         !.chan[what[2]] = Nil]
      [] what[1] = "server" ->
            [base EXCEPT !.server = Nil, !.member = Nil, !.chan = [c \in TextChannels |-> Nil]]

erase(i) ==
    /\ outbox[i].events = <<>> /\ phase # "closed"
    /\ base' = Erased(outbox[i].erase)
    /\ outbox' = RemoveAt(outbox, i)
    /\ UNCHANGED <<changes, socket, client, inbox, missed, reordered>>

-----------------------------------------------------------------------------
(* Subscription changes.  A call that changes nothing leaves no trace.     *)

Unchanged == [set |-> subscribed, add |-> {}, remove |-> {}]

insert_subscription(st, topics) ==
    [st EXCEPT !.set = @ \cup topics, !.add = @ \cup (topics \ st.set)]

remove_subscription(st, topics) ==
    [st EXCEPT !.set = @ \ topics, !.remove = @ \cup (topics \cap st.set)]

(* State::apply_state, at the head of the listener's loop *)
apply_state(st) ==
    LET topics(servers) == {Watched(s) : s \in servers}
        new == IF bot THEN st
               ELSE remove_subscription(insert_subscription(st, topics(watching \ lapsed)), topics(lapsed))
    IN  /\ subscribed' = (new.set \cup new.add) \ new.remove
        /\ ops' = [add |-> new.add, remove |-> new.remove]
        /\ watching' = (IF bot THEN watching ELSE watching \ lapsed)
        /\ lapsed' = (IF bot THEN lapsed ELSE {})

(***************************************************************************)
(* client(): State::from with the user that authenticated, then the reads  *)
(* of generate_ready_payload, each a query of its own; the model keeps     *)
(* what has been read in the cache.  The members are not in the code's     *)
(* cache yet when the channels are filtered, so that reads ours again.     *)
(***************************************************************************)
Reads(from, to, newCache) ==
    /\ phase = from /\ phase' = to /\ cache' = newCache
    /\ UNCHANGED <<world, bot, subscribed, ops, listening, inbox, watching, lapsed, poked>>
    /\ UNCHANGED <<client, missed, reordered>>

state_from == Reads("auth", "members", [EmptyCache EXCEPT !.self.friend = base.friend])
fetch_all_memberships == Reads("members", "servers", [cache EXCEPT !.member = base.member])
fetch_servers ==
    Reads("servers", "groups", [cache EXCEPT !.server = IF cache.member = Nil THEN Nil ELSE base.server])
find_direct_messages ==
    Reads("groups", "channels", [cache EXCEPT !.group = IF Me \in base.group THEN base.group ELSE Nil])
fetch_channels ==
    LET listed == IF cache.server = Nil THEN {} ELSE cache.server.list IN
    Reads("channels", "filter",
          [cache EXCEPT !.chan = [c \in TextChannels |-> IF c \in listed THEN base.chan[c] ELSE Nil]])
filter_accessible_channels ==
    Reads("filter", "users",
          [cache EXCEPT !.chan = [c \in TextChannels |->
              IF cache.chan[c] # Nil /\ Sees(Me, cache.server, base.member, cache.chan[c])
              THEN cache.chan[c] ELSE Nil]])

(* Members of the server who are in a call are fetched too, and all members are filed
   by their server only: the last one wins. *)
generate_ready_payload(inCall) ==
    LET mine == cache.server # Nil
        visible == {c \in TextChannels : cache.chan[c] # Nil}
        grouped == cache.group # Nil
        users == {Me} \cup (IF cache.self.friend \/ inCall \/ (grouped /\ Other \in cache.group)
                            THEN {Other} ELSE {})
    IN
    /\ phase = "users" /\ phase' = "ready"
    /\ inCall => visible # {}
    /\ cache' = IF inCall THEN [cache EXCEPT !.member = fetch_member(Other)] ELSE cache
    /\ subscribed' = {Private} \cup users \cup visible
                        \cup (IF mine THEN {ServerId} ELSE {})
                        \cup (IF mine /\ bot THEN {Watched(ServerId)} ELSE {})
                        \cup (IF grouped THEN {GroupId} ELSE {})
    /\ told' = visible \cup (IF grouped THEN {GroupId} ELSE {})
    /\ UNCHANGED <<world, bot, ops, listening, inbox, watching, lapsed, poked, sent, missed, reordered>>

(* The listener's first turn: the queued change is a reset.  Its subscriptions are
   one step; an event that comes between two of them is missed or comes after. *)
start_listener ==
    LET topics == subscribed \cup (IF bot THEN {} ELSE {Watched(s) : s \in watching}) IN
    /\ phase = "ready" /\ phase' = "run"
    /\ subscribed' = topics /\ listening' = topics
    /\ UNCHANGED <<world, bot, cache, ops, inbox, watching, lapsed, poked, client, missed, reordered>>

(* listener: unsubscribe what was removed, then subscribe what was added *)
redis_unsubscribe(t) ==
    /\ phase = "run" /\ t \in ops.remove
    /\ listening' = listening \ {t} /\ ops' = [ops EXCEPT !.remove = @ \ {t}]
    /\ UNCHANGED <<world, phase, bot, cache, subscribed, watching, lapsed, poked, client, inbox, missed, reordered>>

redis_subscribe(t) ==
    /\ phase = "run" /\ ops.remove = {} /\ t \in ops.add
    /\ listening' = listening \cup {t} /\ ops' = [ops EXCEPT !.add = @ \ {t}]
    /\ UNCHANGED <<world, phase, bot, cache, subscribed, watching, lapsed, poked, client, inbox, missed, reordered>>

(* Any end of the connection: the client goes away, a send, a read or Redis fails. *)
Closed ==
    /\ phase' = "closed" /\ listening' = {} /\ inbox' = <<>> /\ ops' = NoOps
    /\ cache' = EmptyCache /\ subscribed' = {} /\ watching' = {} /\ lapsed' = {} /\ poked' = FALSE
    /\ told' = {} /\ UNCHANGED <<world, bot, sent, missed, reordered>>

close == phase \in Reading \cup {"ready", "run"} /\ Closed

-----------------------------------------------------------------------------
(* The worker: ClientMessage::Subscribe.  active_servers drops what has expired, *)
(* or its oldest entry when it is full, without a notice.                  *)
subscribe_server(s) ==
    LET valid == watching \ lapsed
        full == s \notin valid /\ Cardinality(valid) = watch_capacity IN
    /\ phase \in {"ready", "run"} /\ changes < MaxChanges /\ changes' = changes + 1
    /\ watching' \in IF full THEN {(valid \ {x}) \cup {s} : x \in valid} ELSE {valid \cup {s}}
    /\ lapsed' = {} /\ poked' = (poked \/ s \notin valid)
    /\ UNCHANGED <<base, outbox, phase, bot, cache, subscribed, ops, listening, client, inbox, missed, reordered>>

(* fifteen minutes after the last use *)
lapse(s) ==
    /\ phase = "run" /\ s \in watching \ lapsed /\ Watched(s) \in listening
    /\ lapsed' = lapsed \cup {s}
    /\ UNCHANGED <<world, phase, bot, cache, subscribed, ops, listening, watching, poked, client, inbox, missed, reordered>>

(* the listener wakes up without an event *)
wake ==
    /\ phase = "run" /\ ops = NoOps /\ poked
    /\ poked' = FALSE /\ apply_state(Unchanged)
    /\ UNCHANGED <<world, phase, bot, cache, listening, client, inbox, missed, reordered>>

-----------------------------------------------------------------------------
(* The listener: handle_incoming_event_v1 for the event at the head of the *)
(* inbox, the send to the client, and apply_state at the next turn.        *)

Takes(type) ==
    phase = "run" /\ ops = NoOps /\ inbox # <<>> /\ Head(inbox).type = type

(* the event is handled: the cache, the subscriptions, the channels the client knows *)
Handled(newCache, st, newTold) ==
    /\ cache' = newCache /\ apply_state(st) /\ told' = newTold
    /\ inbox' = Tail(inbox)
    /\ UNCHANGED <<world, phase, bot, listening, poked, missed, reordered>>

Quietly(newCache, st) == Handled(newCache, st, told) /\ UNCHANGED sent

(* BUG VARIANT: relies on all channels of the server being cached *)
RecalculateCached(c, st) ==
    LET cached == {x \in TextChannels : c.chan[x] # Nil}
        seen == {x \in cached : can_view_channel(c, c.chan[x])} IN
    IF c.server = Nil THEN [cache |-> c, st |-> st, gone |-> {}, found |-> {}]
    ELSE [cache |-> [c EXCEPT !.chan = [x \in TextChannels |-> IF x \in seen THEN c.chan[x] ELSE Nil]],
          st |-> remove_subscription(insert_subscription(st, seen), cached \ seen),
          gone |-> cached \ seen, found |-> {}]

(***************************************************************************)
(* recalculate_server: channels in the cache are looked at again, those of *)
(* the server's list that are not in it are fetched.  The client is told   *)
(* ChannelDelete and ChannelCreate, but no ChannelCreate for a channel     *)
(* that stayed in the cache while it could not be viewed.                  *)
(***************************************************************************)
recalculate_server(c, st) ==
    LET cached == {x \in TextChannels : c.chan[x] # Nil}
        seen == {x \in cached : can_view_channel(c, c.chan[x])}
        found == {x \in c.server.list \ cached :
                    base.chan[x] # Nil /\ can_view_channel(c, base.chan[x])} IN
    IF c.server = Nil THEN [cache |-> c, st |-> st, gone |-> {}, found |-> {}]
    ELSE [cache |-> [c EXCEPT !.chan = [x \in TextChannels |->
                        IF x \in seen THEN c.chan[x] ELSE IF x \in found THEN base.chan[x] ELSE Nil]],
          st |-> insert_subscription(remove_subscription(insert_subscription(st, seen), cached \ seen), found),
          gone |-> cached \ seen, found |-> found]

(* The bulk event puts the event itself last, with the channels it brings. *)
Recalculated(c, st, brings) ==
    LET r == recalculate_server(c, st) IN
    Handled(r.cache, r.st, (told \ r.gone) \cup r.found \cup brings) /\ UNCHANGED sent

on_channel_create ==
    LET e == Head(inbox) IN
    /\ Takes("ChannelCreate")
    /\ Handled(IF e.id = GroupId THEN [cache EXCEPT !.group = e.doc] ELSE [cache EXCEPT !.chan[e.id] = e.doc],
               insert_subscription(Unchanged, {e.id}), told \cup {e.id})
    /\ UNCHANGED sent

(* A channel that is not cached is fetched, and stays cached if it cannot be viewed. *)
on_channel_update ==
    LET e == Head(inbox)
        could == cache.chan[e.id] # Nil /\ can_view_channel(cache, cache.chan[e.id])
        doc == IF cache.chan[e.id] # Nil THEN e.doc ELSE base.chan[e.id]
        can == doc # Nil /\ can_view_channel(cache, doc)
        new == [cache EXCEPT !.chan[e.id] = doc] IN
    /\ Takes("ChannelUpdate")
    /\ \/ could = can /\ Quietly(new, Unchanged)
       \/ /\ can /\ ~ could
          /\ Handled(new, insert_subscription(Unchanged, {e.id}), told \cup {e.id}) /\ UNCHANGED sent
       \/ /\ could /\ ~ can
          /\ Handled(new, remove_subscription(Unchanged, {e.id}), told \ {e.id}) /\ UNCHANGED sent

on_channel_delete ==
    LET e == Head(inbox) IN
    /\ Takes("ChannelDelete")
    /\ Handled([cache EXCEPT !.chan[e.id] = Nil], remove_subscription(Unchanged, {e.id}), told \ {e.id})
    /\ UNCHANGED sent

on_channel_group_join ==
    /\ Takes("ChannelGroupJoin")
    /\ Quietly(cache, insert_subscription(Unchanged, {Head(inbox).user}))

(* The cached group keeps its recipients, and stays cached when Me has left. *)
on_channel_group_leave ==
    LET u == Head(inbox).user IN
    /\ Takes("ChannelGroupLeave")
    /\ \/ /\ u = Me
          /\ Handled(cache, remove_subscription(Unchanged, {GroupId}), told \ {GroupId}) /\ UNCHANGED sent
       \/ /\ u # Me
          /\ Quietly(cache, IF can_subscribe_to_user(cache, u) THEN Unchanged
                            ELSE remove_subscription(Unchanged, {u}))

on_server_create ==
    LET e == Head(inbox)
        brings == {x \in TextChannels : e.docs[x] # Nil} IN
    /\ Takes("ServerCreate")
    /\ Recalculated([cache EXCEPT !.server = e.server, !.member = [who |-> Me, role |-> FALSE],
                                  !.chan = [x \in TextChannels |->
                                              IF x \in brings THEN e.docs[x] ELSE cache.chan[x]]],
                    insert_subscription(Unchanged, {ServerId} \cup (IF bot THEN {Watched(ServerId)} ELSE {})),
                    brings)

on_server_update ==
    LET e == Head(inbox)
        new == IF cache.server = Nil THEN cache
               ELSE [cache EXCEPT !.server.open = IF e.open # Nil THEN e.open ELSE @,
                                  !.server.list = IF e.list # Nil THEN e.list ELSE @] IN
    /\ Takes("ServerUpdate")
    /\ IF e.open # Nil THEN Recalculated(new, Unchanged, {}) ELSE Quietly(new, Unchanged)

(* the server and its listed channels are forgotten *)
Forget ==
    LET listed == IF cache.server = Nil THEN {} ELSE cache.server.list IN
    /\ Handled([cache EXCEPT !.server = Nil, !.member = Nil,
                             !.chan = [x \in TextChannels |-> IF x \in listed THEN Nil ELSE @[x]]],
               remove_subscription(Unchanged, {ServerId} \cup listed), told \ TextChannels)
    /\ UNCHANGED sent

on_server_member_leave == Takes("ServerMemberLeave") /\ Forget

on_server_delete == Takes("ServerDelete") /\ Forget

on_server_member_update ==
    LET new == IF cache.member = Nil THEN cache ELSE [cache EXCEPT !.member.role = Head(inbox).role] IN
    /\ Takes("ServerMemberUpdate") /\ Recalculated(new, Unchanged, {})

on_server_role_update ==
    /\ Takes("ServerRoleUpdate")
    /\ IF cache.member # Nil /\ cache.member.role
       THEN Recalculated(cache, Unchanged, {}) ELSE Quietly(cache, Unchanged)

on_server_role_delete ==
    LET new == IF cache.server = Nil THEN cache ELSE [cache EXCEPT !.server.role = FALSE] IN
    /\ Takes("ServerRoleDelete")
    /\ IF cache.member # Nil /\ cache.member.role
       THEN Recalculated(new, Unchanged, {}) ELSE Quietly(new, Unchanged)

(* Copies that come by several topics are recognised by their event id. *)
on_user_update ==
    LET id == Head(inbox).event_id
        room == IF Len(cache.seen) = seen_capacity THEN Tail(cache.seen) ELSE cache.seen IN
    /\ Takes("UserUpdate")
    /\ IF Contains(cache.seen, id)
       THEN Quietly(cache, Unchanged)
       ELSE /\ Handled([cache EXCEPT !.seen = Append(room, id)], Unchanged, told)
            /\ sent' = [sent EXCEPT ![id] = @ + 1]

(* The user of the event, with no relations, is filed under the id of the event. *)
on_user_relationship ==
    LET e == Head(inbox)
        new == [cache EXCEPT !.self = [id |-> e.user, friend |-> FALSE]] IN
    /\ Takes("UserRelationship")
    /\ Quietly(new, IF can_subscribe_to_user(new, e.id) THEN insert_subscription(Unchanged, {e.id})
                    ELSE remove_subscription(Unchanged, {e.id}))

(* A deleted session ends the connection that belongs to it. *)
on_auth ==
    /\ Takes("Auth")
    /\ IF Head(inbox).mine THEN Closed ELSE Quietly(cache, Unchanged)

on_lag == Takes("Lagged") /\ Closed

-----------------------------------------------------------------------------
WorldChanges ==
    \/ member_create \/ member_remove \/ role_update \/ role_delete \/ server_delete
    \/ \E b \in BOOLEAN : member_update(b) \/ server_update(b) \/ apply_relationship(b)
                          \/ auth_delete_session(b)
    \/ \E c \in TextChannels : create_server_channel(c) \/ channel_delete(c)
                               \/ channel_update(c, "shown") \/ channel_update(c, "hidden")
    \/ \E u \in {Me, Other} : add_user_to_group(u) \/ remove_user_from_group(u)
    \/ user_update(<<Other, Watched(ServerId)>>) \/ user_update(<<ServerId, Other>>)
    \/ \E i \in 1..Len(outbox) : publish(i) \/ erase(i)

HandleEvent ==
    \/ on_channel_create \/ on_channel_update \/ on_channel_delete
    \/ on_channel_group_join \/ on_channel_group_leave
    \/ on_server_create \/ on_server_update \/ on_server_delete
    \/ on_server_member_leave \/ on_server_member_update
    \/ on_server_role_update \/ on_server_role_delete
    \/ on_user_update \/ on_user_relationship \/ on_auth \/ on_lag

GatewayNext ==
    \/ WorldChanges \/ HandleEvent
    \/ state_from \/ fetch_all_memberships \/ fetch_servers \/ find_direct_messages
    \/ fetch_channels \/ filter_accessible_channels
    \/ \E b \in BOOLEAN : generate_ready_payload(b)
    \/ start_listener \/ wake \/ close
    \/ \E t \in Topics : redis_unsubscribe(t) \/ redis_subscribe(t)
    \/ \E s \in Watchable : subscribe_server(s) \/ lapse(s)

GatewaySpec == GatewayInit /\ [][GatewayNext]_gvars

-----------------------------------------------------------------------------
(* Nothing is on its way to the connection, and it has nothing left to do. *)
Settled == phase = "run" /\ ops = NoOps /\ inbox = <<>> /\ outbox = <<>> /\ ~ poked

(* Every event came, in the order of the changes. *)
InOrder == ~ missed /\ ~ reordered

(* A connection that got every event in order is subscribed to each channel that
   its user may view, however the cache came to know of it: the ready payload,
   the events, or a recalculation (recalculate_server, handle_incoming_event_v1).
   Where the cache has somebody else as our user or our member it need not be. *)
ViewableIsSubscribed ==
    Settled /\ InOrder /\ cache.self.id = Me /\ (cache.member # Nil => cache.member.who = Me)
      => (IF base.server = Nil THEN {} ELSE Viewable \cap base.server.list) \subseteq listening

(* The client is sent the messages of every channel it was told of. *)
ToldIsSubscribed == Settled /\ InOrder => told \subseteq listening

(* A UserUpdate published to several topics is sent to the client once, unless
   as many others as the LRU holds came between its copies (seen_events). *)
UpdatesOnce ==
    \A id \in DOMAIN sent :
        sent[id] > 1 => Cardinality({o \in DOMAIN sent \ {id} : sent[o] > 0}) >= seen_capacity

(* State::clone_user: "Clone the active user".  The user cached under the
   connection's user id is the connection's user. *)
ActiveUserCached == phase = "run" => cache.self.id = Me
=============================================================================
