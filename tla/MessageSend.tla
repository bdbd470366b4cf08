---------------------------- MODULE MessageSend -----------------------------
(***************************************************************************)
(* Sending a message to one channel: POST /channels/<id>/messages and      *)
(* Message::create_from_api, with the nonce cache, the claiming of         *)
(* attachments and what is queued for the notification workers.            *)
(*                                                                         *)
(* Requests run concurrently.  The checks of a request use only its own    *)
(* data and are one step; the claims of the attachments are a read and a   *)
(* write each.                                                             *)
(***************************************************************************)
EXTENDS Integers, Sequences, FiniteSets, Functions

CONSTANTS
    ChannelKinds,    \* the kinds of channel considered
    Recipients,      \* users of a group or direct message, or who see the channel
    RoleIds,         \* roles of the server
    SFiles,          \* uploaded files
    Nonces, NoNonce,
    NonceCapacity,   \* entries of TOKEN_CACHE
    SRequests,       \* request slots
    SendInputs,      \* what a request may ask for
    EditInputs,      \* what an edit may ask for
    MaxMessages,     \* bound on the messages created
    message_attachments

ASSUME MessageSendAssumption ==
    /\ ChannelKinds \subseteq {"dm", "group", "text", "saved"}
    /\ NoNonce \notin Nonces
    /\ NonceCapacity \in Nat \ {0} /\ MaxMessages \in Nat
    /\ \A d \in SendInputs : {d.header, d.nonce} \subseteq Nonces \cup {NoNonce}

VARIABLES
    kind,         \* the kind of the channel
    TOKEN_CACHE,  \* nonces seen, the latest last
    claim,        \* claim[f]: the message file f is used for, 0 for none
    request,      \* request[r]: the send a slot is working on
    next_id,      \* message ids handed out
    history,      \* messages delivered, in order (stored, except in a DM)
    pushes,       \* events queued for the notification workers
    evicted,      \* nonces the cache has dropped
    contested,    \* files two requests found unused
    abandoned     \* ids of messages whose sending failed

sendVars == <<kind, TOKEN_CACHE, claim, request, next_id, history, pushes,
              evicted, contested, abandoned>>

NoRequest == [at |-> "none"]

SendInit ==
    /\ kind \in ChannelKinds
    /\ TOKEN_CACHE = <<>> /\ history = <<>> /\ next_id = 0
    /\ claim = [f \in SFiles |-> 0]
    /\ request = [r \in SRequests |-> NoRequest]
    /\ pushes = {} /\ evicted = {} /\ contested = {} /\ abandoned = {}

SendTypeOK ==
    /\ kind \in ChannelKinds
    /\ Len(TOKEN_CACHE) <= NonceCapacity
    /\ claim \in [SFiles -> 0 .. MaxMessages]
    /\ next_id \in 0 .. MaxMessages
    /\ \A r \in SRequests : request[r].at \in {"none", "attach", "use"}
    /\ abandoned \subseteq 1 .. MaxMessages

------------------------------------------------------------------------------
(* IdempotencyKey *)

\* BUG VARIANT: the nonce is looked up and never recorded.
ConsumeForgets(cache, n) == cache

(* The nonce is new, and is put into the cache (LruCache::put). *)
Consume(cache, n) ==
    IF n = NoNonce THEN cache
    ELSE IF Len(cache) = NonceCapacity THEN Append(Tail(cache), n) ELSE Append(cache, n)

Fresh(cache, n) == n \notin Range(cache)

(* The header is consumed first (from_request), the body's nonce later.     *)
from_request(d) == Fresh(TOKEN_CACHE, d.header)
AfterHeader(d) == Consume(TOKEN_CACHE, d.header)
consume_nonce(d) == Fresh(AfterHeader(d), d.nonce)
AfterNonce(d) == Consume(AfterHeader(d), d.nonce)
KeyOf(d) == IF d.nonce # NoNonce THEN d.nonce ELSE d.header

------------------------------------------------------------------------------
(* MessageFlags: the number of a flag is the place of its bit. *)
SuppressNotifications == 1
MentionsEveryone == 2
MentionsOnline == 3

has(flags, bit) == (flags \div 2 ^ bit) % 2 = 1
set(bit, toggle) == IF toggle THEN 2 ^ bit ELSE 0

(* The mask is the number of the flag itself, which is another bit. *)
has_suppressed_notifications(m) == m.flags % 2 = 1
contains_mass_push_mention(m) == has(m.flags, MentionsEveryone) \/ m.roles # {}

------------------------------------------------------------------------------
(* create_from_api: the conditions, in the order they are tested. *)

NotEmpty(d) == d.text \/ d.files # <<>>

(* A newcomer to a discoverable server may not mention by flag, and cannot  *)
(* ask for the mention of who they reply to (allow_mentions).               *)
ByFlag(d, bit) == d.allow_mentions /\ has(d.flags, bit)

FlagsAllowed(d) ==
    /\ d.flags <= 7
    /\ d.author = "user" => ~(ByFlag(d, MentionsEveryone) \/ ByFlag(d, MentionsOnline))
    /\ ~(ByFlag(d, MentionsEveryone) /\ ByFlag(d, MentionsOnline))

AtEveryone(d) == d.everyone \/ ByFlag(d, MentionsEveryone)

(* Roles the server does not have are dropped; a group keeps them all. *)
RolesOf(d) == IF d.allow_mentions /\ kind = "text" THEN d.roles \cap RoleIds ELSE d.roles

(* A webhook skips this check. *)
MassMentionAllowed(d) ==
    \/ d.author = "webhook"
    \/ /\ AtEveryone(d) => "MentionEveryone" \in d.can
       /\ RolesOf(d) # {} => "MentionRoles" \in d.can

(* A reply to a message that does not exist fails, or is left out. *)
ReplyFound(d) == d.reply = "strict" => history # <<>>
RepliedTo(d) == IF d.reply # "none" /\ history # <<>> /\ d.allow_mentions
                THEN {history[Len(history)].author} ELSE {}

Wanted(d) == d.users \cup RepliedTo(d)
UserMentions(d) == IF kind = "saved" THEN {} ELSE Wanted(d) \cap Recipients

(* The roles of a group are cleared, but only next to a user's mention. *)
RoleMentions(d) ==
    IF Wanted(d) # {} /\ kind \in {"dm", "group"} THEN {} ELSE RolesOf(d)

FewEnough(d) == Len(d.files) <= message_attachments

MessageOf(d) ==
    [id |-> next_id + 1, author |-> d.by, nonce |-> KeyOf(d), asked |-> d,
     users |-> UserMentions(d), roles |-> RoleMentions(d), files |-> {},
     flags |-> set(SuppressNotifications, has(d.flags, SuppressNotifications))
               + set(MentionsEveryone, AtEveryone(d))
               + set(MentionsOnline, ByFlag(d, MentionsOnline))]

(* POST messages: the permissions of the author, and what they may attach. *)
Permitted(d) ==
    /\ "SendMessage" \in d.can
    /\ d.files # <<>> => "UploadFiles" \in d.can

Dropped(old, new) == Range(old) \ Range(new)

(* The request guard takes the header's key before the route is entered,   *)
(* and what is taken stays taken when a later check fails.                 *)
message_send(r, d) ==
    LET reached == Permitted(d) /\ consume_nonce(d)
        accepted == /\ NotEmpty(d) /\ FlagsAllowed(d)
                    /\ MassMentionAllowed(d) /\ ReplyFound(d) /\ FewEnough(d)
        cache == IF reached THEN AfterNonce(d) ELSE AfterHeader(d)
    IN
    /\ request[r] = NoRequest /\ next_id < MaxMessages
    /\ from_request(d)
    /\ TOKEN_CACHE' = cache
    /\ evicted' = evicted \cup Dropped(TOKEN_CACHE, AfterHeader(d)) \cup Dropped(AfterHeader(d), cache)
    /\ IF reached /\ accepted
       THEN /\ request' = [request EXCEPT ![r] =
                  [at |-> "attach", todo |-> d.files, msg |-> MessageOf(d)]]
            /\ next_id' = next_id + 1
       ELSE UNCHANGED <<request, next_id>>
    /\ UNCHANGED <<kind, claim, history, pushes, contested, abandoned>>

------------------------------------------------------------------------------
Abandon(r) ==
    /\ abandoned' = abandoned \cup {request[r].msg.id}
    /\ request' = [request EXCEPT ![r] = NoRequest]

(* find_and_use_attachment: the file is looked up first. *)

UnusedFile(f) == claim[f] = 0

FindAttachment(r) ==
    LET f == Head(request[r].todo) IN
    /\ request[r].at = "attach" /\ request[r].todo # <<>>
    /\ IF UnusedFile(f)
       THEN /\ request' = [request EXCEPT ![r].at = "use"]
            /\ contested' = IF \E q \in SRequests : request[q].at = "use" /\ Head(request[q].todo) = f
                            THEN contested \cup {f} ELSE contested
            /\ UNCHANGED abandoned
       ELSE Abandon(r) /\ UNCHANGED contested
    /\ UNCHANGED <<kind, TOKEN_CACHE, claim, next_id, history, pushes, evicted>>

UseAttachment(r) ==
    LET f == Head(request[r].todo) IN
    /\ request[r].at = "use"
    /\ claim' = [claim EXCEPT ![f] = request[r].msg.id]
    /\ request' = [request EXCEPT ![r] =
          [at |-> "attach", todo |-> Tail(request[r].todo),
           msg |-> [request[r].msg EXCEPT !.files = @ \cup {f}]]]
    /\ UNCHANGED <<kind, TOKEN_CACHE, next_id, history, pushes, evicted, contested, abandoned>>

(* The message a request edits, if it is no new one. *)
Edits(r) == {i \in DOMAIN history : history[i].id = request[r].msg.id}

(* Who is notified. *)
Notified(m) == IF kind \in {"dm", "group"} THEN Recipients
               ELSE IF kind = "text" THEN m.users ELSE {}

(* send: the message is inserted and its event published; then it is queued *)
(* for the workers, unless it asks for silence or mentions nobody.          *)
send_message(r) ==
    LET m == request[r].msg IN
    /\ request[r].at = "attach" /\ request[r].todo = <<>> /\ Edits(r) = {}
    /\ history' = Append(history, m)
    /\ pushes' = IF /\ ~has_suppressed_notifications(m)
                    /\ m.users # {} \/ contains_mass_push_mention(m)
                 THEN pushes \cup {[msg |-> m, to |-> Notified(m)]} ELSE pushes
    /\ request' = [request EXCEPT ![r] = NoRequest]
    /\ UNCHANGED <<kind, TOKEN_CACHE, claim, next_id, evicted, contested, abandoned>>

(* PATCH messages: the author of a stored message gives it other embeds,   *)
(* whose media are claimed for the message like attachments.               *)
edit_message(r, i, d) ==
    /\ request[r] = NoRequest /\ kind # "dm"
    /\ "SendMessage" \in d.can /\ history[i].author = d.by
    /\ d.files # <<>> => "SendEmbeds" \in d.can
    /\ request' = [request EXCEPT ![r] =
          [at |-> "attach", todo |-> d.files, msg |-> [history[i] EXCEPT !.files = {}]]]
    /\ UNCHANGED <<kind, TOKEN_CACHE, claim, next_id, history, pushes, evicted, contested, abandoned>>

(* Only content and embeds are written: the mentions and attachments of the *)
(* message stay.                                                            *)
UpdateMessage(r) ==
    /\ request[r].at = "attach" /\ request[r].todo = <<>>
    /\ \E i \in Edits(r) :
          history' = [history EXCEPT ![i].files = @ \cup request[r].msg.files]
    /\ request' = [request EXCEPT ![r] = NoRequest]
    /\ UNCHANGED <<kind, TOKEN_CACHE, claim, next_id, pushes, evicted, contested, abandoned>>

(* insert_message fails; the message of a DM is not stored and cannot fail. *)
SendFails(r) ==
    /\ kind # "dm"
    /\ request[r].at = "attach" /\ request[r].todo = <<>>
    /\ Abandon(r)
    /\ UNCHANGED <<kind, TOKEN_CACHE, claim, next_id, history, pushes, evicted, contested>>

SendNext ==
    \E r \in SRequests :
        \/ \E d \in SendInputs : message_send(r, d)
        \/ FindAttachment(r) \/ UseAttachment(r)
        \/ send_message(r) \/ SendFails(r)
        \/ \E i \in DOMAIN history, d \in EditInputs : edit_message(r, i, d)
        \/ UpdateMessage(r)

SendSpec == SendInit /\ [][SendNext]_sendVars

------------------------------------------------------------------------------
(* A nonce is good for one message: of two requests with the same nonce, in *)
(* the header or in the body, at most one delivers a message, as long as    *)
(* the cache of recent nonces has not dropped it (IdempotencyKey).          *)
OncePerNonce ==
    \A i, j \in DOMAIN history :
        (i # j /\ history[i].nonce # NoNonce /\ history[i].nonce = history[j].nonce)
            => history[i].nonce \in evicted

(* Files follow messages: a file in use belongs to a message that was       *)
(* delivered with it, is being sent or failed to be sent, and a delivered   *)
(* message keeps its files unless another request found the same file       *)
(* unused (use_attachment in create_from_api).                              *)
FilesFollowMessages ==
    /\ \A f \in SFiles : claim[f] # 0 =>
          \/ \E i \in DOMAIN history : history[i].id = claim[f] /\ f \in history[i].files
          \/ \E r \in SRequests : request[r] # NoRequest /\ request[r].msg.id = claim[f]
          \/ claim[f] \in abandoned
    /\ \A i \in DOMAIN history : \A f \in history[i].files :
          claim[f] = history[i].id \/ f \in contested

\* Refuted by TLC (see the known divergences in README.md):
(* A message whose author asks for suppressed notifications is not pushed   *)
(* (MessageFlags::SuppressNotifications).                                   *)
SuppressedIsSilent ==
    \A p \in pushes : ~has(p.msg.asked.flags, SuppressNotifications)

\* Refuted by TLC (see the known divergences in README.md):
(* Mass mentions are of server channels only: the worker panics for others  *)
(* (handle_ack_event).                                                      *)
MassMentionsAreOfServers ==
    \A p \in pushes : contains_mass_push_mention(p.msg) => kind = "text"

\* Refuted by TLC (see the known divergences in README.md):
(* A newcomer to a discoverable server mentions nobody (message_send).      *)
NewcomersMentionNobody ==
    \A i \in DOMAIN history : ~history[i].asked.allow_mentions => history[i].users = {}
=============================================================================
