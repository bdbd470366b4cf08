--------------------------- MODULE ServerChannels ---------------------------
(***************************************************************************)
(* The channels of one server, from its creation to its deletion: the list  *)
(* in the document of the server, the documents of the channels, and what   *)
(* belongs to a channel (invites, unreads, webhooks, messages).             *)
(*                                                                         *)
(* A request is a sequence of database calls; others run between them, and  *)
(* each call may fail.  Whoever asks may do it: permissions are ServerRoles'. *)
(***************************************************************************)
EXTENDS Integers, Sequences, FiniteSets

CONSTANTS
    ChannelIds,      \* ids channels may get, each once
    CRequests,       \* requests that are under way at a time
    server_channels, \* config: the number of channels a server may have
    MaxDocuments,    \* bound on the documents that belong to channels
    NoServer,        \* stands for the missing document of the server
    NoChannel        \* no channel for system messages

ASSUME ServerChannelsAssumption == server_channels \in Nat /\ MaxDocuments \in Nat

VARIABLES
    server,  \* the document: channels and system_messages
    stored,  \* the documents in channels
    held,    \* held[k]: channels with a document in collection k
    creq,     \* what each request is at
    used,    \* ids given so far
    unsure,  \* history: channels whose writers overlapped or failed
    late     \* history: documents there, added while or after their channel was deleted

channelVars == <<server, stored, held, creq, used, unsure, late>>

(* What delete_associated_channel_objects looks through, in its order. *)
Associated == <<"invites", "unreads", "webhooks">>

(* Webhooks are kept in channel_webhooks; nothing is kept in webhooks. *)
Collections == {"invites", "unreads", "webhooks", "channel_webhooks", "messages"}

Quiet == [op |-> "none"]

ChannelsInit ==
    /\ server = NoServer /\ stored = {} /\ used = {}
    /\ held = [k \in Collections |-> {}]
    /\ creq = [q \in CRequests |-> Quiet]
    /\ unsure = {} /\ late = {}

ChannelsTypeOK ==
    /\ stored \subseteq used /\ used \subseteq ChannelIds
    /\ held \in [Collections -> SUBSET ChannelIds]
    /\ server # NoServer => server.channels \subseteq used
    /\ unsure \subseteq ChannelIds /\ late \subseteq Collections \X ChannelIds

Becomes(q, r) == creq' = [creq EXCEPT ![q] = r]

(* The channels a request writes to the list, or takes from it. *)
Touches(r) ==
    CASE r.op \in {"insert", "list"} -> {r.c}
      [] r.op \in {"associated", "messages", "server", "pull", "document", "channels"} -> r.targets
      [] OTHER -> {}
Writes(r) == r.op \in {"insert", "list", "edit", "associated", "messages", "server", "pull",
                       "document", "channels"}

(* A writer of c begins: whom it meets is recorded. *)
Meets(cs) ==
    LET met == {q \in CRequests : Writes(creq[q])} IN
    unsure' = IF met = {} THEN unsure
              ELSE unsure \cup cs \cup UNION {Touches(creq[q]) : q \in met}

BeingDeleted(c) ==
    \/ c \notin stored
    \/ \E q \in CRequests : Writes(creq[q]) /\ creq[q].op \notin {"insert", "list", "edit"}
                            /\ (creq[q].of = "server" \/ c \in creq[q].targets)

LateOf(h) == {p \in late : p[2] \in h[p[1]]}

------------------------------------------------------------------------------
(* Creation. *)

(* Server::create: the default channel is inserted before the server is. *)
create_server(q, c) ==
    /\ server = NoServer /\ used = {} /\ creq[q] = Quiet
    /\ Becomes(q, [op |-> "insert", c |-> c, list |-> {}, update |-> FALSE])
    /\ used' = {c}
    /\ UNCHANGED <<server, stored, held, unsure, late>>

(* POST servers/<id>/channels. *)
CreateServerChannel(q, c) ==
    /\ server # NoServer /\ creq[q] = Quiet /\ c \notin used
    /\ Cardinality(server.channels) <= server_channels
    /\ Becomes(q, [op |-> "insert", c |-> c, list |-> server.channels, update |-> TRUE])
    /\ used' = used \cup {c}
    /\ Meets({c})
    /\ UNCHANGED <<server, stored, held, late>>

insert_channel(q) ==
    /\ creq[q].op = "insert"
    /\ stored' = stored \cup {creq[q].c}
    /\ Becomes(q, [creq[q] EXCEPT !.op = "list"])
    /\ UNCHANGED <<server, held, used, unsure, late>>

\* BUG VARIANT: the new channel replaces the others in the list.
ListedAlone(list, c) == {c}

(* The list a creation writes: the one it read, and the new channel. *)
Listed(list, c) == list \cup {c}

(* A new server is inserted with its channel, an old one updated if it is   *)
(* still there.                                                             *)
update_server(q) ==
    LET r == creq[q]
        list == Listed(r.list, r.c)
    IN
    /\ r.op = "list"
    /\ server' = IF ~r.update
                 THEN [channels |-> list, system_messages |-> NoChannel]
                 ELSE IF server = NoServer THEN NoServer ELSE [server EXCEPT !.channels = list]
    /\ Becomes(q, Quiet)
    /\ UNCHANGED <<stored, held, used, unsure, late>>

------------------------------------------------------------------------------
(* PATCH servers/<id>: the channel for system messages must be in the list   *)
(* the request read (categories, which only sort the channels, are cut down *)
(* to that list, and left out here).                                        *)
edit(q, c) ==
    /\ server # NoServer /\ creq[q] = Quiet
    /\ c \in server.channels \cup {NoChannel}
    /\ Becomes(q, [op |-> "edit", c |-> c])
    /\ Meets({})
    /\ UNCHANGED <<server, stored, held, used, late>>

WriteChannelEdit(q) ==
    /\ creq[q].op = "edit"
    /\ server' = IF server = NoServer THEN NoServer
                 ELSE [server EXCEPT !.system_messages = creq[q].c]
    /\ Becomes(q, Quiet)
    /\ UNCHANGED <<stored, held, used, unsure, late>>

------------------------------------------------------------------------------
Held == {p \in Collections \X ChannelIds : p[2] \in held[p[1]]}

(* What belongs to a channel: the channel is fetched first and the document  *)
(* inserted later.                                                          *)
Attach(q, k, c, others) ==
    /\ c \in stored /\ creq[q] = Quiet
    /\ Cardinality(others) < MaxDocuments
    /\ Becomes(q, [op |-> "attach", k |-> k, c |-> c])
    /\ UNCHANGED <<server, stored, held, used, unsure, late>>

create_invite(q, c) == Attach(q, "invites", c, Held)
create_webhook(q, c) == Attach(q, "channel_webhooks", c, Held)
message_send(q, c) == Attach(q, "messages", c, Held)
channel_ack(q, c) == Attach(q, "unreads", c, Held)

(* A webhook sends while it has its channel. *)
webhook_execute(q, c) ==
    /\ c \in held["channel_webhooks"]
    /\ Attach(q, "messages", c, Held \ {<<"channel_webhooks", c>>})

InsertAttached(q, k) ==
    LET r == creq[q] IN
    /\ r.op = "attach" /\ r.k = k
    /\ held' = [held EXCEPT ![r.k] = @ \cup {r.c}]
    /\ late' = IF BeingDeleted(r.c) THEN late \cup {<<r.k, r.c>>} ELSE late
    /\ Becomes(q, Quiet)
    /\ UNCHANGED <<server, stored, used, unsure>>

create_channel_invite(q) == InsertAttached(q, "invites")
insert_webhook(q) == InsertAttached(q, "channel_webhooks")

Detach(k, c) ==
    /\ c \in held[k]
    /\ held' = [held EXCEPT ![k] = @ \ {c}]
    /\ late' = LateOf(held')
    /\ UNCHANGED <<server, stored, creq, used, unsure>>

delete_invite(c) == Detach("invites", c)

(* By a user the channel is fetched for its permissions; with the token of   *)
(* the webhook it is not.                                                   *)
webhook_delete(c) == c \in stored /\ Detach("channel_webhooks", c)
webhook_delete_token(c) == Detach("channel_webhooks", c)

------------------------------------------------------------------------------
(* Deletion of a channel: what belongs to it, its place in the server, and   *)
(* its document at last.                                                    *)
delete_channel(q, c) ==
    /\ c \in stored /\ creq[q] = Quiet
    /\ Becomes(q, [op |-> "associated", of |-> "channel", targets |-> {c}, left |-> Associated])
    /\ Meets({c})
    /\ UNCHANGED <<server, stored, held, used, late>>

(* DELETE servers/<id>, by its owner. *)
delete_server(q) ==
    /\ server # NoServer /\ creq[q] = Quiet
    /\ Becomes(q, [op |-> "messages", of |-> "server", targets |-> stored])
    /\ unsure' = ChannelIds
    /\ UNCHANGED <<server, stored, held, used, late>>

(* The collection the next call clears. *)
NextCollection(left) == {Head(left)}

delete_associated_channel_objects(q) ==
    LET r == creq[q] IN
    /\ r.op = "associated"
    /\ held' = [k \in Collections |->
                  IF k \in NextCollection(r.left) THEN held[k] \ r.targets ELSE held[k]]
    /\ late' = LateOf(held')
    /\ Becomes(q, IF Len(r.left) > 1 THEN [r EXCEPT !.left = Tail(@)]
                  ELSE [op |-> IF r.of = "channel" THEN "messages" ELSE "document",
                        of |-> r.of, targets |-> r.targets])
    /\ UNCHANGED <<server, stored, used, unsure>>

(* The messages; the attachments marked before are those with a message_id,  *)
(* which none has.                                                          *)
delete_bulk_messages(q) ==
    LET r == creq[q] IN
    /\ r.op = "messages"
    /\ held' = [held EXCEPT !["messages"] = @ \ r.targets]
    /\ late' = LateOf(held')
    /\ Becomes(q, [r EXCEPT !.op = IF r.of = "channel" THEN "server" ELSE "channels"])
    /\ UNCHANGED <<server, stored, used, unsure>>

(* delete_channel reads the server; without one it ends in an error. *)
FetchServer(q) ==
    LET r == creq[q] IN
    /\ r.op = "server"
    /\ Becomes(q, IF server = NoServer THEN Quiet
                  ELSE [op |-> "pull", of |-> "channel", targets |-> r.targets,
                        unset |-> server.system_messages \in r.targets])
    /\ UNCHANGED <<server, stored, held, used, unsure, late>>

(* It is pulled from the list, and from the system messages if it was read   *)
(* there; a category that names it still does.                              *)
PullChannel(q) ==
    LET r == creq[q] IN
    /\ r.op = "pull"
    /\ server' = IF server = NoServer THEN NoServer
                 ELSE [server EXCEPT !.channels = @ \ r.targets,
                                     !.system_messages = IF r.unset THEN NoChannel ELSE @]
    /\ Becomes(q, [op |-> "document", of |-> "channel", targets |-> r.targets])
    /\ UNCHANGED <<stored, held, used, unsure, late>>

(* delete_associated_server_objects: all channels of the server, also those  *)
(* that were not there when they were listed.                               *)
DeleteChannels(q) ==
    /\ creq[q].op = "channels"
    /\ stored' = {}
    /\ Becomes(q, [op |-> "associated", of |-> "server", targets |-> creq[q].targets,
                   left |-> Associated])
    /\ UNCHANGED <<server, held, used, unsure, late>>

DeleteDocument(q) ==
    LET r == creq[q] IN
    /\ r.op = "document"
    /\ IF r.of = "channel" THEN stored' = stored \ r.targets /\ UNCHANGED server
       ELSE server' = NoServer /\ UNCHANGED stored
    /\ Becomes(q, Quiet)
    /\ UNCHANGED <<held, used, unsure, late>>

(* A call fails and the request ends where it is.  A deletion of the server  *)
(* that ends without the channels is never taken up for what they left.     *)
CallFails(q) ==
    LET r == creq[q] IN
    /\ r.op # "none"
    /\ unsure' = unsure \cup Touches(r)
    /\ late' = IF r.op = "associated" /\ r.of = "server"
               THEN late \cup {p \in {r.left[i] : i \in 1..Len(r.left)} \X r.targets :
                                  p[2] \in held[p[1]]}
               ELSE late
    /\ Becomes(q, Quiet)
    /\ UNCHANGED <<server, stored, held, used>>

ChannelsNext ==
    \/ \E q \in CRequests :
          \/ \E c \in ChannelIds : \/ create_server(q, c) \/ CreateServerChannel(q, c)
                                   \/ delete_channel(q, c)
                                   \/ create_invite(q, c) \/ create_webhook(q, c)
                                   \/ message_send(q, c) \/ channel_ack(q, c)
                                   \/ webhook_execute(q, c)
          \/ \E c \in ChannelIds \cup {NoChannel} : edit(q, c)
          \/ insert_channel(q) \/ update_server(q) \/ WriteChannelEdit(q)
          \/ create_channel_invite(q) \/ insert_webhook(q)
          \/ InsertAttached(q, "messages") \/ InsertAttached(q, "unreads")
          \/ delete_server(q)
          \/ delete_associated_channel_objects(q) \/ delete_bulk_messages(q) \/ FetchServer(q)
          \/ PullChannel(q) \/ DeleteChannels(q) \/ DeleteDocument(q)
          \/ CallFails(q)
    \/ \E c \in ChannelIds : delete_invite(c) \/ webhook_delete(c) \/ webhook_delete_token(c)

------------------------------------------------------------------------------
(* A server lists exactly the channels that are stored, and sends its system *)
(* messages to one of them, except for channels that are being created or   *)
(* deleted, whose creation or deletion overlapped another change of the     *)
(* server or was cut short (the list is written as it was read).            *)
ListAgrees ==
    server # NoServer =>
        /\ \A c \in ChannelIds \ unsure :
              (\A q \in CRequests : c \notin Touches(creq[q])) => (c \in stored <=> c \in server.channels)
        /\ server.system_messages \in stored \cup unsure \cup {NoChannel}

(* However often deletions fail and are repeated: a channel that is gone has *)
(* left no invite, unread or message but those added while it was being     *)
(* deleted, and those its server's deletion has not reached (the document   *)
(* of a channel is deleted last, so that a deletion can be repeated; a      *)
(* server deletes the documents first).                                     *)
DeletedLeavesNothing ==
    \A k \in {"invites", "unreads", "messages"}, c \in used \ stored :
        c \in held[k] => \/ <<k, c>> \in late
                         \/ \E q \in CRequests : creq[q].op = "associated" /\ creq[q].of = "server"
                                                 /\ c \in creq[q].targets

(* What is stored for a server fits together: its list and its channels, and *)
(* the channels and what belongs to them (delete_associated_server_objects, *)
(* delete_associated_channel_objects).                                      *)
ChannelsAccounted == ListAgrees /\ DeletedLeavesNothing
=============================================================================
