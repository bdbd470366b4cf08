-------------------------- MODULE ChannelMessages ---------------------------
(***************************************************************************)
(* One message of a server channel after it was sent: reactions, pins      *)
(* and deletion, and the custom emoji of the server.                 *)
(*                                                                         *)
(* Every route fetches the message, decides on its copy, and then writes   *)
(* the document and publishes an event; reactions publish first and write  *)
(* second, the others the other way round.  A client shows what the events *)
(* tell it.                                                                *)
(***************************************************************************)
EXTENDS Integers, Sequences, FiniteSets, FiniteSetsExt

CONSTANTS
    RUsers,              \* users who react
    Emojis,              \* the emojis of reactions
    CustomEmojis,        \* those that are emoji of the server
    Whitelists,          \* what the interactions of the message may allow
    RRequests,           \* request slots
    MaxDisturbed,        \* bound on what concurrent requests meet at
    message_reactions,   \* how many emojis a message may have
    server_emoji         \* how many emoji a server may have

ASSUME ChannelMessagesAssumption ==
    /\ CustomEmojis \subseteq Emojis /\ "all" \notin Emojis
    /\ message_reactions \in Nat /\ server_emoji \in Nat /\ MaxDisturbed \in Nat

VARIABLES
    message,    \* the document: reactions, pinned, NoMessage once deleted
    filed,      \* whether its attachments are not marked as deleted
    whitelist,  \* the emojis its interactions allow
    parent,     \* parent[e]: "none", "server" or "detached"
    handling,   \* handling[r]: the request of slot r and the steps it has left
    shown,      \* what a client shows of the message
    notice,     \* the latest system message about a pin
    crowded,    \* whether two requests passed the check of a limit at once
    disturbed   \* what two requests worked on at once: emojis, or "all"

msgVars == <<message, filed, whitelist, parent, handling, shown, notice, crowded, disturbed>>

NoMessage == [reactions |-> <<>>, pinned |-> FALSE, exists |-> FALSE]
Sent == [NoMessage EXCEPT !.exists = TRUE]
Unused == [op |-> "none", e |-> "all", todo |-> <<>>]

MessagesInit ==
    /\ message = Sent
    /\ filed = TRUE
    /\ whitelist \in Whitelists
    /\ parent = [e \in CustomEmojis |-> "none"]
    /\ handling = [r \in RRequests |-> Unused]
    /\ shown = Sent
    /\ notice = "none" /\ crowded = FALSE /\ disturbed = {}

Reactions == message.reactions
By(reactions, e) == IF e \in DOMAIN reactions THEN reactions[e] ELSE {}

MessagesTypeOK ==
    /\ DOMAIN Reactions \subseteq Emojis
    /\ \A e \in DOMAIN Reactions : Reactions[e] \subseteq RUsers
    /\ parent \in [CustomEmojis -> {"none", "server", "detached"}]
    /\ disturbed \subseteq Emojis \cup {"all"}

------------------------------------------------------------------------------
(* The updates of the document. *)
With(f, e, us) == [x \in DOMAIN f \cup {e} |-> IF x = e THEN us ELSE f[x]]
Without(f, e) == [x \in DOMAIN f \ {e} |-> f[x]]

AddToSet(f, e, u) == With(f, e, By(f, e) \cup {u})
PullFrom(f, e, u) == IF e \in DOMAIN f THEN With(f, e, f[e] \ {u}) ELSE f

(* What a step of request q makes of the document, or of a client's copy of *)
(* it.  A write to a deleted document changes nothing.                      *)
Apply(q, m) ==
    IF ~m.exists THEN m
    ELSE CASE q.op = "react"    -> [m EXCEPT !.reactions = AddToSet(@, q.e, q.u)]
           [] q.op = "unreact"  -> [m EXCEPT !.reactions = PullFrom(@, q.e, q.u)]
           [] q.op = "clear"    -> [m EXCEPT !.reactions = Without(@, q.e)]
           [] q.op = "clearall" -> [m EXCEPT !.reactions = <<>>]
           [] q.op = "pin"      -> [m EXCEPT !.pinned = TRUE]
           [] q.op = "unpin"    -> [m EXCEPT !.pinned = FALSE]
           [] q.op = "delete"   -> NoMessage

(* Two requests meet when they touch the same emoji, or either touches all. *)
(* What happens after a meeting over everything is not followed further.    *)
Meets(q, e) == q.op # "none" /\ (q.e = e \/ e = "all" \/ q.e = "all")

Start(r, q) ==
    LET others == {handling[x] : x \in RRequests \ {r}}
        met == {x.e : x \in {y \in others : Meets(y, q.e)}}
    IN
    /\ handling[r] = Unused /\ "all" \notin disturbed
    /\ handling' = [handling EXCEPT ![r] = q]
    /\ disturbed' = disturbed \cup (IF met = {} THEN {} ELSE IF "all" \in met THEN {"all"} ELSE {q.e})
    /\ Cardinality(disturbed') <= MaxDisturbed

------------------------------------------------------------------------------
(* Emoji *)

can_use(e) == e \in CustomEmojis => parent[e] # "none"

ServerEmoji == {e \in CustomEmojis : parent[e] = "server"}

(* PUT custom/emoji: the limit is checked, the upload claimed, the emoji    *)
(* inserted.                                                                *)
create_emoji(r, e) ==
    /\ parent[e] = "none" /\ Cardinality(ServerEmoji) < server_emoji
    /\ \A x \in RRequests : handling[x].op # "create" \/ handling[x].e # e
    /\ Start(r, [op |-> "create", e |-> e, todo |-> <<"insert">>])
    /\ crowded' = (crowded \/ \E x \in RRequests : handling[x].op = "create")
    /\ UNCHANGED <<message, filed, whitelist, parent, shown, notice>>

InsertEmoji(r) ==
    /\ handling[r].todo = <<"insert">>
    /\ parent' = [parent EXCEPT ![handling[r].e] = "server"]
    /\ handling' = [handling EXCEPT ![r] = Unused]
    /\ UNCHANGED <<message, filed, whitelist, shown, notice, crowded, disturbed>>

(* DELETE custom/emoji only detaches it: it stays usable. *)
delete_emoji(e) ==
    /\ parent[e] = "server"
    /\ parent' = [parent EXCEPT ![e] = "detached"]
    /\ UNCHANGED <<message, filed, whitelist, handling, shown, notice, crowded, disturbed>>

------------------------------------------------------------------------------
(* Interactions::can_use *)
Allowed(e) == e \in whitelist

RoomFor(e) ==
    Cardinality(DOMAIN Reactions) < message_reactions \/ e \in DOMAIN Reactions

add_reaction(r, u, e) ==
    /\ message.exists
    /\ RoomFor(e) /\ Allowed(e) /\ can_use(e)
    /\ Start(r, [op |-> "react", e |-> e, u |-> u, todo |-> <<"publish", "write">>])
    /\ crowded' = (crowded \/ \E x \in RRequests : handling[x].op = "react")
    /\ UNCHANGED <<message, filed, whitelist, parent, shown, notice>>

\* BUG VARIANT: the reaction of somebody else counts as the last one.
LastOneOfTwo(e) == Cardinality(Reactions[e]) <= 2

LastOne(e) == \E u \in RUsers : Reactions[e] = {u}

(* The last user of an emoji takes the emoji away. *)
remove_reaction(r, u, e) ==
    /\ message.exists /\ u \in By(Reactions, e)
    /\ Start(r, [op |-> "unreact", e |-> e, u |-> u,
                 todo |-> <<"publish", IF LastOne(e) THEN "unset" ELSE "write">>])
    /\ UNCHANGED <<message, filed, whitelist, parent, shown, notice, crowded>>

clear_reaction(r, e) ==
    /\ message.exists
    /\ Start(r, [op |-> "clear", e |-> e, todo |-> <<"publish", "write">>])
    /\ UNCHANGED <<message, filed, whitelist, parent, shown, notice, crowded>>

Update(r, op, todo) ==
    /\ message.exists
    /\ Start(r, [op |-> op, e |-> "all", todo |-> todo])
    /\ UNCHANGED <<message, filed, whitelist, parent, shown, notice, crowded>>

clear_reactions(r) == Update(r, "clearall", <<"write", "publish">>)
message_pin(r) == ~message.pinned /\ Update(r, "pin", <<"write", "publish", "notify">>)
message_unpin(r) == message.pinned /\ Update(r, "unpin", <<"write", "publish", "notify">>)

(* Message::delete marks the attachments first; bulk_delete does not. *)
delete(r) == Update(r, "delete", <<"mark", "write", "publish">>)
bulk_delete(r) == Update(r, "delete", <<"write", "publish">>)

------------------------------------------------------------------------------
(* The next step of a request.  A failing write ends the request. *)
Rest(q) == IF Len(q.todo) = 1 THEN Unused ELSE [q EXCEPT !.todo = Tail(q.todo)]
Done(r) == handling' = [handling EXCEPT ![r] = Rest(@)]

At(r, step) == handling[r].todo # <<>> /\ Head(handling[r].todo) = step

Publish(r) ==
    /\ At(r, "publish") /\ Done(r)
    /\ shown' = Apply(handling[r], shown)
    /\ UNCHANGED <<message, filed, whitelist, parent, notice, crowded, disturbed>>

Write(r) ==
    /\ At(r, "write") /\ Done(r)
    /\ message' = Apply(handling[r], message)
    /\ UNCHANGED <<filed, whitelist, parent, shown, notice, crowded, disturbed>>

Unset(r) ==
    /\ At(r, "unset") /\ Done(r)
    /\ message' = [message EXCEPT !.reactions = Without(@, handling[r].e)]
    /\ UNCHANGED <<filed, whitelist, parent, shown, notice, crowded, disturbed>>

MarkAttachments(r) ==
    /\ At(r, "mark") /\ Done(r)
    /\ filed' = FALSE
    /\ UNCHANGED <<message, whitelist, parent, shown, notice, crowded, disturbed>>

Notify(r) ==
    /\ At(r, "notify") /\ Done(r)
    /\ notice' = handling[r].op
    /\ UNCHANGED <<message, filed, whitelist, parent, shown, crowded, disturbed>>

(* An event published before the write that fails is not taken back. *)
WriteFails(r) ==
    /\ At(r, "write") \/ At(r, "unset")
    /\ handling' = [handling EXCEPT ![r] = Unused]
    /\ disturbed' = disturbed \cup {handling[r].e}
    /\ UNCHANGED <<message, filed, whitelist, parent, shown, notice, crowded>>

MessagesNext ==
    \E r \in RRequests :
        \/ \E e \in Emojis :
              \/ \E u \in RUsers : add_reaction(r, u, e) \/ remove_reaction(r, u, e)
              \/ clear_reaction(r, e)
        \/ clear_reactions(r) \/ message_pin(r) \/ message_unpin(r)
        \/ delete(r) \/ bulk_delete(r)
        \/ \E e \in CustomEmojis : create_emoji(r, e) \/ delete_emoji(e)
        \/ InsertEmoji(r) \/ Publish(r) \/ Write(r) \/ Unset(r)
        \/ MarkAttachments(r) \/ Notify(r) \/ WriteFails(r)

MessagesSpec == MessagesInit /\ [][MessagesNext]_msgVars

------------------------------------------------------------------------------
(* Whether a request is working on emoji e. *)
Busy(e) == \E r \in RRequests : Meets(handling[r], e)

(* A client that follows the events shows the reactions that are stored: an *)
(* emoji no request is working on has the same users in both, and is gone   *)
(* with its last user, unless two requests worked on it at once or a write  *)
(* failed after its event (add_reaction, remove_reaction, clear_reaction).  *)
ShownIsStored ==
    \A e \in Emojis : (disturbed \cap {e, "all"} = {} /\ ~Busy(e)) =>
        /\ By(shown.reactions, e) = By(Reactions, e)
        /\ e \in DOMAIN Reactions => Reactions[e] # {}

(* A message has at most message_reactions emojis and a server at most      *)
(* server_emoji emoji, unless two requests passed the check at the same     *)
(* time (add_reaction and create_emoji check first and write later).        *)
LimitsNearlyHold ==
    ~crowded => /\ Cardinality(DOMAIN Reactions) <= message_reactions
                /\ Cardinality(ServerEmoji) <= server_emoji

-----------------------------------------------------------------------------
(***************************************************************************)
(* Reading the history of a text channel page by page, while messages are   *)
(* sent, pinned and deleted.                                                *)
(*                                                                         *)
(* A client asks for the latest messages, for those around one message, or  *)
(* for the pinned ones, and goes on from the edges of what it has.  Ids are *)
(* given in order of time, before the message is stored: a later message    *)
(* can be there first.  Direct messages and groups, of which nothing is     *)
(* stored and queries answer nothing, and searches for text are left out.   *)
(***************************************************************************)
CONSTANTS
    MaxPosts,  \* bound: messages sent
    Limits     \* limits the client asks for

ASSUME PagesAssumption == MaxPosts \in Nat /\ Limits \subseteq 1 .. 100

VARIABLES
    drawn,     \* the newest id given
    sending,   \* ids of messages that are not stored yet
    posts,     \* ids of the messages stored
    pins,      \* those of them that are pinned
    reader,    \* the client: its filter, the span it has read, the messages in it
    latePosts, \* history: messages that came to the span after it was read
    repeated   \* history: messages the client was given twice

pageVars == <<drawn, sending, posts, pins, reader, latePosts, repeated>>

Bottom == 0
Top == MaxPosts + 1

PagesInit ==
    /\ drawn = 0 /\ sending = {} /\ posts = {} /\ pins = {}
    /\ reader = [filter |-> "all", lo |-> Top, hi |-> Bottom, view |-> {}, todo |-> {}]
    /\ latePosts = {} /\ repeated = {}

PagesTypeOK ==
    /\ sending \cup posts \cup pins \cup reader.view \cup latePosts \cup repeated \subseteq 1 .. drawn
    /\ reader.lo \in Bottom .. Top /\ reader.hi \in Bottom .. Top
    /\ reader.filter \in {"all", "pinned"}

Opened == reader.lo <= reader.hi
Read(m) == reader.lo <= m /\ m <= reader.hi
Matching(filter) == IF filter = "pinned" THEN pins ELSE posts

------------------------------------------------------------------------------
(* The channel. *)

DrawId ==
    /\ drawn < MaxPosts
    /\ drawn' = drawn + 1
    /\ sending' = sending \cup {drawn + 1}
    /\ UNCHANGED <<posts, pins, reader, latePosts, repeated>>

insert_message(m) ==
    /\ m \in sending
    /\ sending' = sending \ {m}
    /\ posts' = posts \cup {m}
    /\ latePosts' = IF Read(m) \/ reader.todo # {} THEN latePosts \cup {m} ELSE latePosts
    /\ UNCHANGED <<drawn, pins, reader, repeated>>

PinMessage(m) ==
    /\ m \in posts \ pins
    /\ pins' = pins \cup {m}
    /\ latePosts' = IF Read(m) \/ reader.todo # {} THEN latePosts \cup {m} ELSE latePosts
    /\ UNCHANGED <<drawn, sending, posts, reader, repeated>>

UnpinMessage(m) ==
    /\ m \in pins
    /\ pins' = pins \ {m}
    /\ UNCHANGED <<drawn, sending, posts, reader, latePosts, repeated>>

DeleteMessage(m) ==
    /\ m \in posts
    /\ posts' = posts \ {m} /\ pins' = pins \ {m}
    /\ UNCHANGED <<drawn, sending, reader, latePosts, repeated>>

------------------------------------------------------------------------------
(* Queries. *)

(* A find with a limit and a sort by id. *)
find_with_options(found, limit, sort) ==
    {m \in found : Cardinality({n \in found : IF sort = "Latest" THEN n > m ELSE n < m}) < limit}

\* BUG VARIANT: the id given as before is part of the answer.
IncludesBefore(filter, before, after, limit, sort) ==
    find_with_options({m \in Matching(filter) : m <= before /\ m > after}, limit, sort)

(* MessageTimePeriod::Absolute; Bottom and Top stand for no bound. *)
Absolute(filter, before, after, limit, sort) ==
    find_with_options({m \in Matching(filter) : m < before /\ m > after}, limit, sort)

(* MessageTimePeriod::Relative: one find in each direction. *)
Relative(nearby, limit, side) ==
    IF side = "newer"
    THEN find_with_options({m \in posts : m >= nearby}, (limit \div 2) + 1, "Oldest")
    ELSE find_with_options({m \in posts : m < nearby}, (limit \div 2) + 1, "Latest")

(* The client adds a page at an edge; a page that is not full ends there. *)
Older(page, limit) == IF Cardinality(page) < limit THEN Bottom ELSE Min(page)
Newer(page, limit) == IF Cardinality(page) < limit THEN Top ELSE Max(page)
Takes(page) == repeated' = repeated \cup (page \cap reader.view)

Opens(filter, limit) ==
    LET page == Absolute(filter, Top, Bottom, limit, "Latest") IN
    /\ ~Opened /\ reader.todo = {}
    /\ reader' = [filter |-> filter, lo |-> Older(page, limit), hi |-> Top,
                  view |-> page, todo |-> {}]
    /\ UNCHANGED <<drawn, sending, posts, pins, latePosts, repeated>>

(* GET messages without a bound. *)
query(limit) == Opens("all", limit)

(* POST search for what is pinned; without a text the sort is by id. *)
search(limit) == Opens("pinned", limit)

(* The same with before, or with after and the sort Oldest. *)
ScrollUp(limit) ==
    LET page == Absolute(reader.filter, reader.lo, Bottom, limit, "Latest") IN
    /\ Opened /\ reader.todo = {} /\ reader.lo > Bottom
    /\ reader' = [reader EXCEPT !.lo = Older(page, limit), !.view = @ \cup page]
    /\ Takes(page)
    /\ UNCHANGED <<drawn, sending, posts, pins, latePosts>>

ScrollDown(limit) ==
    LET page == Absolute(reader.filter, Top, reader.hi, limit, "Oldest") IN
    /\ Opened /\ reader.todo = {} /\ reader.hi < Top
    /\ reader' = [reader EXCEPT !.hi = Newer(page, limit), !.view = @ \cup page]
    /\ Takes(page)
    /\ UNCHANGED <<drawn, sending, posts, pins, latePosts>>

(* GET messages with nearby: the two finds are under way at once. *)
Jump(nearby, limit) ==
    /\ reader.todo = {} /\ nearby \in 1 .. drawn
    /\ reader' = [filter |-> "all", lo |-> nearby, hi |-> nearby, view |-> {},
                  todo |-> {"older", "newer"} \X {limit}]
    /\ latePosts' = {}
    /\ UNCHANGED <<drawn, sending, posts, pins, repeated>>

Find(side, limit) ==
    LET nearby == IF side = "older" THEN reader.lo ELSE reader.hi
        page == Relative(nearby, limit, side)
        full == (limit \div 2) + 1
    IN
    /\ <<side, limit>> \in reader.todo
    /\ reader' = [reader EXCEPT !.todo = @ \ {<<side, limit>>}, !.view = @ \cup page,
                                !.lo = IF side = "older" THEN Older(page, full) ELSE @,
                                !.hi = IF side = "newer" THEN Newer(page, full) ELSE @]
    /\ Takes(page)
    /\ UNCHANGED <<drawn, sending, posts, pins, latePosts>>

PagesNext ==
    \/ DrawId
    \/ \E m \in 1 .. MaxPosts : insert_message(m) \/ PinMessage(m)
                              \/ UnpinMessage(m) \/ DeleteMessage(m)
    \/ \E limit \in Limits :
          \/ query(limit) \/ search(limit)
          \/ ScrollUp(limit) \/ ScrollDown(limit)
          \/ \E m \in 1 .. MaxPosts : Jump(m, limit)
          \/ \E side \in {"older", "newer"} : Find(side, limit)

PagesSpec == PagesInit /\ [][PagesNext]_pageVars

------------------------------------------------------------------------------
(* However a client pages through a channel, from the end, from a message in *)
(* the middle or through the pinned messages, and whatever is sent and       *)
(* deleted meanwhile: between the edges it has reached it has every message  *)
(* that is stored, was given none twice, and takes a page that is not full   *)
(* for the end rightly.  Excepted are messages that were stored or pinned    *)
(* inside the span after the page for it was read.                          *)
PagesComplete ==
    /\ reader.todo = {} =>
          \A m \in Matching(reader.filter) : Read(m) => m \in reader.view \cup latePosts
    /\ repeated = {}
=============================================================================
