------------------------------- MODULE Voice -------------------------------
(***************************************************************************)
(* Calls: the voice state kept in Redis (core/database/src/voice), the     *)
(* routes of delta that join, leave and evict, the webhooks that LiveKit   *)
(* sends to voice-ingress, and bonfire's cleanup after a disconnect.       *)
(*                                                                         *)
(* Every Redis pipeline or command that changes a key others read is a     *)
(* step of its own; requests and webhooks interleave between them.         *)
(* No code path ever stores a node for a channel: set_channel_node is only *)
(* called with the node get_channel_node returned for another channel, and *)
(* unwraps it.  So get_channel_node answers None throughout: nobody is     *)
(* evicted from LiveKit by delta, and delete_voice_channel panics whenever *)
(* the channel has members.                                                *)
(***************************************************************************)
EXTENDS Naturals, FiniteSets

CONSTANTS Callers,       \* the accounts
          Bots,          \* those that are bots
          Channels,      \* channels with voice enabled
          Server,        \* the server that the channels of InServer are in
          InServer,      \* the others are direct messages and groups
          Public,        \* channels with is_stream_public
          UsesLiveKit,   \* those whose owner's tier has LiveKit
          Managers,      \* users with ManageChannel
          MaxUsers,      \* max_users of the channels
          MaxViewers,    \* stream_viewer_limit, 0 for none
          Requests,      \* requests, webhooks and cleanups in progress at once
          Idle,          \* no request
          NoKey,         \* a key that is not set
          MaxMoves       \* bound: joins, connections, tracks and deletions of a behaviour

ASSUME VoiceAssumption ==
  /\ Bots \subseteq Callers /\ InServer \subseteq Channels
  /\ UsesLiveKit \subseteq Public /\ Public \subseteq Channels
  /\ Server \notin Channels /\ NoKey \notin Channels
  /\ MaxUsers \in Nat /\ MaxViewers \in Nat /\ MaxMoves \in Nat

VARIABLES docs,        \* the channels whose document exists
          vc_members,  \* vc_members:{channel}
          vc,          \* vc:{user}
          unique_key,  \* {user}:{server or channel}, set and deleted with joined_at:.. and the flags
          conn_type,   \* vc_connection_type:{user}:{channel}
          viewers,     \* vc_viewers:{channel}
          tokens,      \* LiveKit tokens issued and not expired
          sfu,         \* LiveKit: who is connected to which room
          hooks,       \* webhooks not handled yet
          req,         \* what each request has still to do
          moves,       \* how many of them there were
          overlap      \* (history) users given a second admission while one was outstanding

voiceKeys == <<vc_members, vc, unique_key, conn_type, viewers>>
livekit == <<tokens, sfu, hooks>>
vvars == <<docs, voiceKeys, livekit, req, moves, overlap>>

KeyOwners == Channels \cup {Server}
Events == [event: {"participant_joined", "participant_left", "track_published"},
           user: Callers, channel: Channels]
Kinds == {"join", "leave", "cleanup", "force", "quiet"}

VoiceTypeOK ==
  /\ docs \subseteq Channels
  /\ vc_members \in [Channels -> SUBSET Callers] /\ vc \in [Callers -> SUBSET Channels]
  /\ unique_key \in [Callers \X KeyOwners -> Channels \cup {NoKey}]
  /\ conn_type \in [Callers \X Channels -> {NoKey, "viewer", "participant"}]
  /\ viewers \in [Channels -> SUBSET Callers]
  /\ tokens \subseteq Callers \X Channels /\ sfu \subseteq Callers \X Channels
  /\ hooks \subseteq Events
  /\ req \in [Requests -> {Idle} \cup
        [pc: {"create", "delete", "finish"}, kind: Kinds, user: Callers,
         channel: Channels, rest: SUBSET Channels, to: Channels, viewer: BOOLEAN]]
  /\ moves \in 0..MaxMoves
  /\ overlap \subseteq Callers

VoiceInit ==
  /\ docs = Channels
  /\ vc_members = [c \in Channels |-> {}] /\ vc = [u \in Callers |-> {}]
  /\ unique_key = [k \in Callers \X KeyOwners |-> NoKey]
  /\ conn_type = [k \in Callers \X Channels |-> NoKey]
  /\ viewers = [c \in Channels |-> {}]
  /\ tokens = {} /\ sfu = {} /\ hooks = {}
  /\ req = [r \in Requests |-> Idle] /\ moves = 0 /\ overlap = {}

(* channel.server().unwrap_or(channel_id); the channel itself when it cannot be read *)
Parent(c) == IF c \in InServer THEN Server ELSE c
ParentAsRead(c) == IF c \in docs THEN Parent(c) ELSE c

get_voice_state(c, u) == unique_key[<<u, Parent(c)>>] # NoKey
(* BUG VARIANT: the route joins without looking for another call *)
NeverInVoice(u, c) == FALSE
(* the second condition holds for bots as well, and whenever the first does *)
raise_if_in_voice(u, c) == (u \in Bots /\ c \in vc[u]) \/ vc[u] # {}

Busy(r, pc) == req[r] # Idle /\ req[r].pc = pc
Work(pc, kind, u, c) ==
  [pc |-> pc, kind |-> kind, user |-> u, channel |-> c, rest |-> {}, to |-> c,
   viewer |-> FALSE]
Move == moves < MaxMoves /\ moves' = moves + 1
Start(r, work) == req[r] = Idle /\ req' = [req EXCEPT ![r] = work]

(* what may yet put u into a call without asking again: a token, a webhook, a request *)
Outstanding(u) ==
  {c \in Channels : <<u, c>> \in tokens}
    \cup {h.channel : h \in {x \in hooks : x.user = u /\ x.event = "participant_joined"}}
    \cup {req[r].to : r \in {s \in Requests : req[s] # Idle /\ req[s].user = u
                                    /\ (req[s].pc = "create" \/ req[s].kind = "force")}}
Admit(u, c) == overlap' = IF Outstanding(u) \ {c} # {} THEN overlap \cup {u} ELSE overlap

(* create_voice_state: one pipeline; a request that fails after it has joined all the same *)
create_voice_state(r) ==
  LET u == req[r].user
      c == req[r].channel IN
  /\ Busy(r, "create")
  /\ vc_members' = [vc_members EXCEPT ![c] = @ \cup {u}]
  /\ vc' = [vc EXCEPT ![u] = @ \cup {c}]
  /\ unique_key' = [unique_key EXCEPT ![<<u, Parent(c)>>] = c]
  /\ req' = [req EXCEPT ![r] = Idle]
  /\ UNCHANGED <<docs, moves, conn_type, viewers, livekit, overlap>>

(***************************************************************************)
(* delete_voice_state: one pipeline.  Leaving, and the cleanup after a     *)
(* disconnect, then drop the connection type.  The cleanup and a forced    *)
(* join go on to the next of the channels they listed; the forced join     *)
(* gives up on one it cannot read, and ends with the token.                *)
(***************************************************************************)
delete_voice_state(r) ==
  LET u == req[r].user
      c == req[r].channel
      parent == IF req[r].kind = "cleanup" THEN ParentAsRead(c) ELSE Parent(c) IN
  /\ Busy(r, "delete")
  /\ req[r].kind = "force" => c \in docs
  /\ vc_members' = [vc_members EXCEPT ![c] = @ \ {u}]
  /\ vc' = [vc EXCEPT ![u] = @ \ {c}]
  /\ unique_key' = [unique_key EXCEPT ![<<u, parent>>] = NoKey]
  /\ req' = [req EXCEPT ![r] = IF req[r].kind = "quiet" THEN Idle ELSE [req[r] EXCEPT !.pc = "finish"]]
  /\ UNCHANGED <<docs, moves, conn_type, viewers, livekit, overlap>>

force_fails(r) ==
  /\ Busy(r, "delete") /\ req[r].kind = "force" /\ req[r].channel \notin docs
  /\ req' = [req EXCEPT ![r] = Idle]
  /\ UNCHANGED <<docs, moves, voiceKeys, livekit, overlap>>

(* the connection type for voice-ingress, and the token, unless the answer of a *)
(* participant's join fails on storing whom to ring                             *)
issue_token(u, c, viewer) ==
  /\ tokens' = tokens \cup {<<u, c>>} \/ (~viewer /\ tokens' = tokens)
  /\ conn_type' = [conn_type EXCEPT ![<<u, c>>] = IF viewer THEN "viewer" ELSE "participant"]
  /\ UNCHANGED <<sfu, hooks>>

NextChannel(r) ==
  \E next \in req[r].rest :
    req' = [req EXCEPT ![r] = [req[r] EXCEPT !.pc = "delete", !.channel = next,
                                             !.rest = req[r].rest \ {next}]]

finish_removal(r) ==
  LET u == req[r].user
      c == req[r].channel
      tells == req[r].kind \in {"leave", "cleanup"} IN
  /\ Busy(r, "finish")
  /\ \/ NextChannel(r)
     \/ req[r].rest = {} /\ req' = [req EXCEPT ![r] = Idle]
  /\ IF req[r].kind = "force" /\ req[r].rest = {}
     THEN issue_token(u, req[r].to, req[r].viewer) /\ Admit(u, req[r].to)
     ELSE /\ conn_type' = IF tells THEN [conn_type EXCEPT ![<<u, c>>] = NoKey] ELSE conn_type
          /\ UNCHANGED <<livekit, overlap>>
  /\ UNCHANGED <<docs, moves, vc_members, vc, unique_key, viewers>>

(* A call to Redis or the database that fails ends a request or webhook with what *)
(* it has done so far; the cleanup goes on to the next channel.                   *)
request_fails(r) ==
  /\ req[r] # Idle
  /\ \/ req[r].kind = "cleanup" /\ NextChannel(r)
     \/ /\ req[r].kind = "cleanup" => req[r].rest = {}
        /\ req' = [req EXCEPT ![r] = Idle]
  /\ \/ UNCHANGED conn_type
     \/ /\ req[r].kind = "cleanup"
        /\ conn_type' = [conn_type EXCEPT ![<<req[r].user, req[r].channel>>] = NoKey]
  /\ UNCHANGED <<docs, moves, vc_members, vc, unique_key, viewers, livekit, overlap>>

(***************************************************************************)
(* join_call: who may connect is a participant, anybody else a viewer of a *)
(* public stream.                                                          *)
(***************************************************************************)
(* no LiveKit: the route itself creates the voice state; the connection type is set first *)
join_p2p(r, u, c, viewer) ==
  /\ conn_type' = [conn_type EXCEPT ![<<u, c>>] = IF viewer THEN "viewer" ELSE "participant"]
  /\ IF viewer \/ raise_if_in_voice(u, c)
     THEN UNCHANGED <<req, overlap>>
     ELSE Start(r, Work("create", "join", u, c)) /\ Admit(u, c)
  /\ UNCHANGED livekit

join_livekit(r, u, c, viewer, force) ==
  \/ /\ ~force /\ ~raise_if_in_voice(u, c)
     /\ issue_token(u, c, viewer) /\ Admit(u, c) /\ UNCHANGED req
  \/ /\ force /\ vc[u] = {}
     /\ issue_token(u, c, viewer) /\ Admit(u, c) /\ UNCHANGED req
  \/ /\ force
     /\ \E first \in vc[u] :
          Start(r, [Work("delete", "force", u, first) EXCEPT
                      !.rest = vc[u] \ {first}, !.to = c, !.viewer = viewer])
     /\ Admit(u, c) /\ UNCHANGED <<conn_type, livekit>>

join_call(r, u, c, connect, force) ==
  /\ Move /\ req[r] = Idle /\ c \in docs /\ (force => u \notin Bots)
  /\ connect \/ c \in Public
  /\ connect => u \in Managers \/ Cardinality(vc_members[c]) < MaxUsers
  /\ ~connect /\ c \in InServer /\ MaxViewers > 0 => Cardinality(viewers[c]) < MaxViewers
  /\ IF c \in UsesLiveKit THEN join_livekit(r, u, c, ~connect, force)
                          ELSE join_p2p(r, u, c, ~connect)
  /\ UNCHANGED <<docs, vc_members, vc, unique_key, viewers>>

(* leave_call: nothing for a user without a voice state; a viewer is only taken off the list *)
leave_call(r, u, c) ==
  /\ req[r] = Idle /\ c \in docs /\ get_voice_state(c, u)
  /\ IF conn_type[<<u, c>>] = "viewer"
     THEN /\ viewers' = [viewers EXCEPT ![c] = @ \ {u}]
          /\ conn_type' = [conn_type EXCEPT ![<<u, c>>] = NoKey]
          /\ UNCHANGED req
     ELSE Start(r, Work("delete", "leave", u, c)) /\ UNCHANGED <<viewers, conn_type>>
  /\ UNCHANGED <<docs, moves, vc_members, vc, unique_key, livekit, overlap>>

(***************************************************************************)
(* LiveKit (external): a token admits to a room until it expires, and the  *)
(* server tells voice-ingress of whoever comes, publishes and goes.        *)
(***************************************************************************)
Hook(event, u, c) == [event |-> event, user |-> u, channel |-> c]

connect(u, c) ==
  /\ Move /\ <<u, c>> \in tokens \ sfu
  /\ sfu' = sfu \cup {<<u, c>>}
  /\ hooks' = hooks \cup {Hook("participant_joined", u, c)}
  /\ UNCHANGED <<docs, voiceKeys, tokens, req, overlap>>
publish_track(u, c) ==
  /\ Move /\ <<u, c>> \in sfu
  /\ hooks' = hooks \cup {Hook("track_published", u, c)}
  /\ UNCHANGED <<docs, voiceKeys, tokens, sfu, req, overlap>>
disconnect(u, c) ==
  /\ <<u, c>> \in sfu
  /\ sfu' = sfu \ {<<u, c>>}
  /\ hooks' = hooks \cup {Hook("participant_left", u, c)}
  /\ UNCHANGED <<docs, moves, voiceKeys, tokens, req, overlap>>
expire(u, c) ==
  /\ <<u, c>> \in tokens
  /\ tokens' = tokens \ {<<u, c>>}
  /\ UNCHANGED <<docs, moves, voiceKeys, sfu, hooks, req, overlap>>

(***************************************************************************)
(* voice-ingress                                                           *)
(***************************************************************************)
(* an error for a channel that is gone: LiveKit's event has no effect *)
ingress_unknown(h) ==
  /\ h.channel \notin docs
  /\ h.event = "track_published" => conn_type[<<h.user, h.channel>>] # "viewer"
  /\ hooks' = hooks \ {h}
  /\ UNCHANGED <<docs, moves, voiceKeys, tokens, sfu, req, overlap>>

participant_joined(r, h) ==
  /\ h.event = "participant_joined" /\ h.channel \in docs
  /\ hooks' = hooks \ {h}
  /\ IF conn_type[<<h.user, h.channel>>] = "viewer"
     THEN /\ viewers' = [viewers EXCEPT ![h.channel] = @ \cup {h.user}]
          /\ UNCHANGED req
     ELSE Start(r, Work("create", "join", h.user, h.channel)) /\ UNCHANGED viewers
  /\ UNCHANGED <<docs, moves, vc_members, vc, unique_key, conn_type, tokens, sfu, overlap>>

participant_left(r, h) ==
  /\ h.event = "participant_left" /\ h.channel \in docs
  /\ hooks' = hooks \ {h}
  /\ IF conn_type[<<h.user, h.channel>>] = "viewer"
     THEN /\ viewers' = [viewers EXCEPT ![h.channel] = @ \ {h.user}]
          /\ conn_type' = [conn_type EXCEPT ![<<h.user, h.channel>>] = NoKey]
          /\ UNCHANGED req
     ELSE /\ Start(r, Work("delete", "leave", h.user, h.channel))
          /\ UNCHANGED <<viewers, conn_type>>
  /\ UNCHANGED <<docs, moves, vc_members, vc, unique_key, tokens, sfu, overlap>>

(* remove_user: LiveKit drops the participant, and says so *)
evict_from_room(u, c, h) ==
  /\ sfu' = sfu \ {<<u, c>>}
  /\ hooks' = (hooks \ {h}) \cup
       {Hook("participant_left", p[1], p[2]) : p \in sfu \cap {<<u, c>>}}
  /\ UNCHANGED tokens

(* a viewer may not publish *)
track_of_viewer(h) ==
  /\ h.event = "track_published" /\ conn_type[<<h.user, h.channel>>] = "viewer"
  /\ evict_from_room(h.user, h.channel, h)
  /\ viewers' = [viewers EXCEPT ![h.channel] = @ \ {h.user}]
  /\ conn_type' = [conn_type EXCEPT ![<<h.user, h.channel>>] = NoKey]
  /\ UNCHANGED <<docs, moves, vc_members, vc, unique_key, req, overlap>>

(* a participant may publish all but data, and video within the limits *)
track_of_participant(r, h, forbidden) ==
  /\ h.event = "track_published" /\ conn_type[<<h.user, h.channel>>] # "viewer" /\ h.channel \in docs
  /\ \/ /\ forbidden
        /\ evict_from_room(h.user, h.channel, h)
        /\ Start(r, Work("delete", "quiet", h.user, h.channel))
     \/ /\ ~forbidden
        /\ hooks' = hooks \ {h} /\ UNCHANGED <<tokens, sfu, req>>
  /\ UNCHANGED <<docs, moves, voiceKeys, overlap>>

(***************************************************************************)
(* Removal by others, and clean-up                                         *)
(***************************************************************************)
(* leaving the server, a kick or a ban: the call is the one the key names *)
remove_from_server(r, u) ==
  LET c == unique_key[<<u, Server>>] IN
  /\ c # NoKey /\ c \in docs
  /\ Start(r, Work("delete", "quiet", u, c))
  /\ UNCHANGED <<docs, moves, voiceKeys, livekit, overlap>>

(* leaving a group, or being removed from it *)
remove_from_group(r, u, c) ==
  /\ c \in Channels \ InServer /\ c \in vc[u] /\ c \in docs
  /\ Start(r, Work("delete", "quiet", u, c))
  /\ UNCHANGED <<docs, moves, voiceKeys, livekit, overlap>>

(* bonfire, after the last session of a user has gone *)
cleanup_user_voice_on_disconnect(r, u) ==
  /\ \E first \in vc[u] :
       Start(r, [Work("delete", "cleanup", u, first) EXCEPT !.rest = vc[u] \ {first}])
  /\ UNCHANGED <<docs, moves, voiceKeys, livekit, overlap>>

(* a reader of the channel removes the members it finds no state for *)
get_channel_voice_state(r, c) ==
  /\ c \in docs
  /\ \E u \in vc_members[c] :
       ~get_voice_state(c, u) /\ Start(r, Work("delete", "quiet", u, c))
  /\ UNCHANGED <<docs, moves, voiceKeys, livekit, overlap>>

(* the document goes first; delete_voice_channel panics if there are members *)
delete_voice_channel(c) ==
  /\ Move /\ c \in docs /\ docs' = docs \ {c}
  /\ viewers' = IF vc_members[c] = {} THEN [viewers EXCEPT ![c] = {}] ELSE viewers
  /\ UNCHANGED <<vc_members, vc, unique_key, conn_type, livekit, req, overlap>>

VoiceNext ==
  \/ \E r \in Requests :
       \/ create_voice_state(r) \/ request_fails(r)
       \/ delete_voice_state(r) \/ force_fails(r) \/ finish_removal(r)
       \/ \E u \in Callers :
            \/ remove_from_server(r, u) \/ cleanup_user_voice_on_disconnect(r, u)
            \/ \E c \in Channels :
                 \/ \E may \in BOOLEAN, force \in BOOLEAN : join_call(r, u, c, may, force)
                 \/ leave_call(r, u, c) \/ remove_from_group(r, u, c)
       \/ \E h \in hooks :
            \/ participant_joined(r, h) \/ participant_left(r, h)
            \/ \E forbidden \in BOOLEAN : track_of_participant(r, h, forbidden)
       \/ \E c \in Channels : get_channel_voice_state(r, c)
  \/ \E h \in hooks : ingress_unknown(h) \/ track_of_viewer(h)
  \/ \E u \in Callers, c \in Channels :
       connect(u, c) \/ publish_track(u, c) \/ disconnect(u, c) \/ expire(u, c)
  \/ \E c \in Channels : delete_voice_channel(c)

VoiceSpec == VoiceInit /\ [][VoiceNext]_vvars
-----------------------------------------------------------------------------
(***************************************************************************)
(* Properties                                                              *)
(***************************************************************************)
(* raise_if_in_voice keeps a user in one call at a time, across P2P routes, *)
(* LiveKit webhooks, forced joins and the removals a failed call leaves    *)
(* half done, unless the user is admitted to one channel while an          *)
(* admission to another is outstanding: the check and the join it allows   *)
(* are separate steps.  Nothing is claimed of bots, which are meant to be  *)
(* in as many calls as they like.                                          *)
OneCallAtATime ==
  \A u \in Callers \ (Bots \cup overlap) : \A c, d \in vc[u] : c = d

\* Refuted by TLC (see the known divergences in README.md):
(* "No-op if the user isn't actually in this channel's voice state"        *)
(* (voice_leave.rs): leaving one channel leaves the voice state of a call  *)
(* in another one alone.                                                   *)
StateOfCallKept ==
  [][\A u \in Callers, c \in Channels :
       c \in vc[u] /\ c \in vc'[u] /\ unique_key[<<u, Parent(c)>>] = c
         => unique_key'[<<u, Parent(c)>>] # NoKey]_vvars

-----------------------------------------------------------------------------
(***************************************************************************)
(* Analytics of a public stream (core/database/src/analytics.rs and the    *)
(* track_analytics functions of voice-ingress): the session document of    *)
(* the stream, its id cached in Redis, and the handlers that keep both     *)
(* while people come and go.  Viewers and participants are counted alike;  *)
(* the channel is public and on LiveKit throughout, so that nobody joins   *)
(* peer to peer.                                                           *)
(***************************************************************************)
CONSTANTS People,        \* whoever watches or takes part
          Handlers,      \* webhooks handled at once
          Ids,           \* ids of sessions: one for each insert
          NoSession,     \* nothing cached, or not known yet
          Ready          \* a handler that is not working

(* what a handler is doing: with which event, on which session, and how many it counted *)
Visit ==
  [pc : {"lookup", "cache", "count", "write"}, event : {"join", "leave"},
   id : Ids \cup {NoSession}, count : Nat]

ASSUME StreamsAssumption == NoSession \notin Ids /\ Ready \notin Visit

VARIABLES room,       \* who is connected to LiveKit's room
          present,    \* who Redis lists in the channel
          cached,     \* stream_session:{channel}
          session,    \* stream_sessions: per id absent, or its document
          handler,    \* what each handler is doing
          crossed     \* (history) handlers have overlapped, the cache has expired, or a call failed

people == <<room, present>>
svars == <<people, cached, session, handler, crossed>>

Absent == [state |-> "absent", current |-> 0, peak |-> 0]

StreamsTypeOK ==
  /\ room \subseteq People /\ present \subseteq People /\ cached \in Ids \cup {NoSession}
  /\ session \in [Ids -> [state: {"absent", "live", "ended"},
                          current: 0..Cardinality(People), peak: 0..Cardinality(People)]]
  /\ handler \in [Handlers -> {Ready} \cup Visit]
  /\ crossed \in BOOLEAN

StreamsInit ==
  /\ room = {} /\ present = {} /\ cached = NoSession /\ session = [i \in Ids |-> Absent]
  /\ handler = [h \in Handlers |-> Ready]
  /\ crossed = FALSE

At(h, pc) == handler[h] # Ready /\ handler[h].pc = pc

(* the webhook has changed the voice or viewer state; its analytics follow *)
Webhook(h, event) ==
  /\ handler[h] = Ready
  /\ handler' = [handler EXCEPT ![h] =
                   [pc |-> "lookup", event |-> event, id |-> NoSession, count |-> 0]]
  /\ crossed' = (crossed \/ \E o \in Handlers : handler[o] # Ready)
  /\ UNCHANGED <<cached, session>>
Arrives(h, p) ==
  /\ p \notin room /\ room' = room \cup {p} /\ present' = present \cup {p}
  /\ Webhook(h, "join")
Departs(h, p) ==
  /\ p \in room /\ room' = room \ {p} /\ present' = present \ {p}
  /\ Webhook(h, "leave")

(* Bound: failures and the expiry come first of what crossed records, if at all. *)
Undisturbed == ~crossed /\ crossed' = TRUE

(* a webhook that fails before its analytics, having changed the lists or not *)
WebhookFails(p) ==
  /\ \/ p \notin room /\ room' = room \cup {p} /\ present' \in {present, present \cup {p}}
     \/ p \in room /\ room' = room \ {p} /\ present' \in {present, present \ {p}}
  /\ Undisturbed
  /\ UNCHANGED <<cached, session, handler>>

(* leave_call, bonfire's clean-up and a removal from the server take a user off the *)
(* lists without analytics; LiveKit's room is left later                            *)
TakenOff(p) ==
  /\ p \in present /\ present' = present \ {p}
  /\ UNCHANGED <<room, cached, session, handler, crossed>>

(* get_cached_session_id; without one a join creates a session, a leave has nothing to do *)
get_cached_session_id(h) ==
  /\ At(h, "lookup")
  /\ \/ /\ cached # NoSession
        /\ handler' = [handler EXCEPT ![h].pc = "count", ![h].id = cached]
        /\ UNCHANGED session
     \/ /\ cached = NoSession /\ handler[h].event = "leave"
        /\ handler' = [handler EXCEPT ![h] = Ready]
        /\ UNCHANGED session
  /\ UNCHANGED <<people, cached, crossed>>

create_stream_session(h) ==
  /\ At(h, "lookup") /\ cached = NoSession /\ handler[h].event = "join"
  /\ \E i \in Ids :
       /\ session[i] = Absent
       /\ session' = [session EXCEPT ![i].state = "live"]
       /\ handler' = [handler EXCEPT ![h].pc = "cache", ![h].id = i]
  /\ UNCHANGED <<people, cached, crossed>>

cache_session_id(h) ==
  /\ At(h, "cache")
  /\ cached' = handler[h].id
  /\ handler' = [handler EXCEPT ![h].pc = "count"]
  /\ UNCHANGED <<people, session, crossed>>

(* get_viewer_count and get_voice_channel_members *)
get_counts(h) ==
  /\ At(h, "count")
  /\ handler' = [handler EXCEPT ![h].pc = "write", ![h].count = Cardinality(present)]
  /\ UNCHANGED <<people, cached, session, crossed>>

Higher(m, n) == IF m > n THEN m ELSE n

(* the counts, and with $max the peaks; an ended session is updated like any other *)
update_stream_counts(h) ==
  LET i == handler[h].id
      n == handler[h].count IN
  /\ At(h, "write") /\ (handler[h].event = "join" \/ n > 0)
  /\ session' = [session EXCEPT ![i].current = n, ![i].peak = Higher(@, n)]
  /\ handler' = [handler EXCEPT ![h] = Ready]
  /\ UNCHANGED <<people, cached, crossed>>

(* BUG VARIANT: the cache is left to its expiry *)
end_without_cleanup(h) ==
  /\ At(h, "write") /\ handler[h].event = "leave" /\ handler[h].count = 0
  /\ session' = [session EXCEPT ![handler[h].id].state = "ended", ![handler[h].id].current = 0]
  /\ handler' = [handler EXCEPT ![h] = Ready]
  /\ UNCHANGED <<people, cached, crossed>>

(* the last one has gone: end_stream_session and cleanup_redis *)
end_stream_session(h) ==
  /\ At(h, "write") /\ handler[h].event = "leave" /\ handler[h].count = 0
  /\ session' = [session EXCEPT ![handler[h].id].state = "ended", ![handler[h].id].current = 0]
  /\ cached' = NoSession
  /\ handler' = [handler EXCEPT ![h] = Ready]
  /\ UNCHANGED <<people, crossed>>

(* 24 hours *)
cache_expires ==
  /\ cached # NoSession /\ cached' = NoSession /\ Undisturbed
  /\ UNCHANGED <<people, session, handler>>

(* A call that fails ends the handler, or goes unnoticed: an id read as none, an id *)
(* not cached or not removed from the cache, members counted as nobody.             *)
CallFails(h) ==
  /\ Undisturbed
  /\ \/ /\ At(h, "lookup") \/ At(h, "write")
        /\ handler' = [handler EXCEPT ![h] = Ready] /\ UNCHANGED session
     \/ /\ At(h, "lookup") /\ handler[h].event = "join"
        /\ \E i \in Ids : /\ session[i] = Absent
                         /\ session' = [session EXCEPT ![i].state = "live"]
                         /\ handler' = [handler EXCEPT ![h].pc = "cache", ![h].id = i]
     \/ /\ At(h, "cache")
        /\ handler' = [handler EXCEPT ![h].pc = "count"] /\ UNCHANGED session
     \/ /\ At(h, "count")
        /\ \E n \in 0..Cardinality(present) :
             handler' = [handler EXCEPT ![h].pc = "write", ![h].count = n]
        /\ UNCHANGED session
     \/ /\ At(h, "write") /\ handler[h].event = "leave" /\ handler[h].count = 0
        /\ session' = [session EXCEPT ![handler[h].id].state = "ended", ![handler[h].id].current = 0]
        /\ handler' = [handler EXCEPT ![h] = Ready]
  /\ UNCHANGED <<people, cached>>

StreamsNext ==
  \/ \E h \in Handlers :
       \/ \E p \in People : Arrives(h, p) \/ Departs(h, p)
       \/ get_cached_session_id(h) \/ create_stream_session(h) \/ cache_session_id(h)
       \/ get_counts(h) \/ update_stream_counts(h) \/ end_stream_session(h) \/ CallFails(h)
  \/ \E p \in People : WebhookFails(p) \/ TakenOff(p)
  \/ cache_expires

StreamsSpec == StreamsInit /\ [][StreamsNext]_svars
-----------------------------------------------------------------------------
AtRest == \A h \in Handlers : handler[h] = Ready

(* Between webhooks, the sessions reported live (get_active_session reads  *)
(* any that has not ended) are the cached one and no other; there is one   *)
(* while Redis lists anybody in the channel, and none once LiveKit's room  *)
(* is empty, though leave_call, bonfire and the webhooks all change the    *)
(* lists.  Excepted are streams whose webhooks overlapped, whose cached id *)
(* expired after its day, and those with a call that failed: each can      *)
(* leave a session live for good, or people in an ended one.               *)
StreamIsLive ==
  AtRest /\ ~crossed =>
    /\ \A i \in Ids : session[i].state = "live" <=> cached = i
    /\ present # {} => cached # NoSession
    /\ room = {} => cached = NoSession
=============================================================================
