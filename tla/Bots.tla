-------------------------------- MODULE Bots --------------------------------
(***************************************************************************)
(* The bots of one owner: creation and deletion, the servers they are       *)
(* invited to and removed from.  An AI companion may be in one server at a  *)
(* time; the server it joined is kept in its document, beside the           *)
(* membership itself.                                                       *)
(*                                                                         *)
(* Permissions, edits of a bot and the keys of encrypted channels are left  *)
(* out.                                                                    *)
(***************************************************************************)
EXTENDS Integers, FiniteSets

CONSTANTS
    BotIds,    \* ids bots may get, each once
    BotServers,\* servers
    BotRequests,  \* requests under way at a time
    bot_limit,    \* bots an owner may have
    NoSite        \* stands for no server, and for the document of no bot

(* What is kept of a bot's document. *)
Bot == [bot_type : {"regular", "ai_companion"}, joined_server_id : BotServers \cup {NoSite}]

ASSUME BotsAssumption == bot_limit \in Nat /\ NoSite \notin BotServers \cup Bot

VARIABLES
    bots,      \* the documents: bot_type and joined_server_id
    botUsers,  \* users of bots, not marked as deleted
    memberOf,  \* memberships <<server, bot>>
    breq,      \* what each request is at
    given,     \* ids used so far
    disturbed  \* history: bots of requests that overlapped or failed

botVars == <<bots, botUsers, memberOf, breq, given, disturbed>>

Calm == [op |-> "none"]
Exists(b) == bots[b] # NoSite
IsCompanion(b) == Exists(b) /\ bots[b].bot_type = "ai_companion"

BotsInit ==
    /\ bots = [b \in BotIds |-> NoSite]
    /\ botUsers = {} /\ memberOf = {} /\ given = {}
    /\ breq = [q \in BotRequests |-> Calm]
    /\ disturbed = {}

BotsTypeOK ==
    /\ bots \in [BotIds -> Bot \cup {NoSite}]
    /\ memberOf \subseteq BotServers \X BotIds
    /\ botUsers \cup given \cup disturbed \subseteq BotIds

Goes(q, r) == breq' = [breq EXCEPT ![q] = r]

(* A request about x begins while others run: both are noted. *)
Overlaps(x) ==
    LET others == {p \in BotRequests : breq[p] # Calm} IN
    disturbed' = IF others = {} THEN disturbed
                 ELSE disturbed \cup {x} \cup {breq[p].of : p \in others}

------------------------------------------------------------------------------
(* Creation and deletion. *)

get_number_of_bots_by_user == Cardinality({o \in BotIds : Exists(o)})

(* Bot::create: the limit, and one companion of an owner. *)
CreateBot(q, b, type) ==
    /\ breq[q] = Calm /\ b \notin given
    /\ get_number_of_bots_by_user < bot_limit
    /\ type = "ai_companion" => ~\E o \in BotIds : IsCompanion(o)
    /\ Goes(q, [op |-> "user", of |-> b, bot_type |-> type])
    /\ given' = given \cup {b}
    /\ Overlaps(b)
    /\ UNCHANGED <<bots, botUsers, memberOf>>

(* POST bots/create: a companion needs a licence the licence server knows. *)
create_bot(q, b, type, licensed) ==
    /\ type = "ai_companion" => licensed
    /\ CreateBot(q, b, type)

CreateUser(q) ==
    /\ breq[q].op = "user"
    /\ botUsers' = botUsers \cup {breq[q].of}
    /\ Goes(q, [breq[q] EXCEPT !.op = "insert"])
    /\ UNCHANGED <<bots, memberOf, given, disturbed>>

insert_bot(q) ==
    /\ breq[q].op = "insert"
    /\ bots' = [bots EXCEPT ![breq[q].of] = [bot_type |-> breq[q].bot_type,
                                             joined_server_id |-> NoSite]]
    /\ Goes(q, Calm)
    /\ UNCHANGED <<botUsers, memberOf, given, disturbed>>

(* DELETE bots/<id>.  Bot::delete marks the user, then deletes the document; *)
(* memberships of the bot stay.                                             *)
DeleteBot(q, b) ==
    /\ breq[q] = Calm /\ Exists(b)
    /\ Goes(q, [op |-> "mark", of |-> b])
    /\ Overlaps(b)
    /\ UNCHANGED <<bots, botUsers, memberOf, given>>

mark_deleted(q) ==
    /\ breq[q].op = "mark"
    /\ botUsers' = botUsers \ {breq[q].of}
    /\ Goes(q, [breq[q] EXCEPT !.op = "delete"])
    /\ UNCHANGED <<bots, memberOf, given, disturbed>>

delete_bot(q) ==
    /\ breq[q].op = "delete"
    /\ bots' = [bots EXCEPT ![breq[q].of] = NoSite]
    /\ Goes(q, Calm)
    /\ UNCHANGED <<botUsers, memberOf, given, disturbed>>

------------------------------------------------------------------------------
(* Servers. *)

(* POST bots/<id>/invite reads the bot. *)
invite_bot(q, b, s) ==
    /\ breq[q] = Calm /\ Exists(b)
    /\ Goes(q, [op |-> "check", of |-> b, server |-> s, copy |-> bots[b]])
    /\ Overlaps(b)
    /\ UNCHANGED <<bots, botUsers, memberOf, given>>

\* BUG VARIANT: the membership looked up is that in the server invited to.
StillIn(r) == <<r.server, r.of>> \in memberOf

(* Whether the server the copy names still has the companion. *)
StillJoined(r) == <<r.copy.joined_server_id, r.of>> \in memberOf

(* A document is written without the fields that are None. *)
update_bot_joined_server(b, s) ==
    IF Exists(b) /\ s # NoSite
    THEN [bots EXCEPT ![b].joined_server_id = s] ELSE bots

(* The limit of a companion: joined there already answers Ok, joined in      *)
(* another server that still has it is refused.                             *)
CheckCompanion(q) ==
    LET r == breq[q]
        named == r.copy.bot_type = "ai_companion" /\ r.copy.joined_server_id # NoSite
    IN
    /\ r.op = "check"
    /\ Goes(q, IF named /\ (r.copy.joined_server_id = r.server \/ StillJoined(r)) THEN Calm
               ELSE [r EXCEPT !.op = "join"])
    /\ bots' = IF named /\ r.copy.joined_server_id # r.server /\ ~StillJoined(r)
               THEN update_bot_joined_server(r.of, NoSite) ELSE bots
    /\ UNCHANGED <<botUsers, memberOf, given, disturbed>>

(* Member::create: an error when it is there already. *)
JoinServer(q) ==
    LET r == breq[q]
        new == <<r.server, r.of>> \notin memberOf
    IN
    /\ r.op = "join"
    /\ memberOf' = memberOf \cup {<<r.server, r.of>>}
    /\ Goes(q, IF new /\ r.copy.bot_type = "ai_companion" THEN [r EXCEPT !.op = "record"] ELSE Calm)
    /\ UNCHANGED <<bots, botUsers, given, disturbed>>

RecordServer(q) ==
    /\ breq[q].op = "record"
    /\ bots' = update_bot_joined_server(breq[q].of, breq[q].server)
    /\ Goes(q, Calm)
    /\ UNCHANGED <<botUsers, memberOf, given, disturbed>>

(* Member::remove: kicked, banned, or leaving. *)
RemoveMember(q, s, b) ==
    /\ breq[q] = Calm /\ <<s, b>> \in memberOf
    /\ memberOf' = memberOf \ {<<s, b>>}
    /\ Goes(q, [op |-> "forget", of |-> b, server |-> s])
    /\ Overlaps(b)
    /\ UNCHANGED <<bots, botUsers, given>>

ForgetServer(q) ==
    LET r == breq[q] IN
    /\ r.op = "forget"
    /\ bots' = IF IsCompanion(r.of) /\ bots[r.of].joined_server_id = r.server
               THEN update_bot_joined_server(r.of, NoSite) ELSE bots
    /\ Goes(q, Calm)
    /\ UNCHANGED <<botUsers, memberOf, given, disturbed>>

------------------------------------------------------------------------------
(* A call fails.  What a request answers when the server could not be noted  *)
(* is still Ok.                                                             *)
RequestFails(q) ==
    /\ breq[q] # Calm
    /\ disturbed' = disturbed \cup {breq[q].of}
    /\ Goes(q, Calm)
    /\ UNCHANGED <<bots, botUsers, memberOf, given>>

BotsNext ==
    \/ \E q \in BotRequests :
          \/ \E b \in BotIds :
                \/ \E t \in {"regular", "ai_companion"}, ok \in BOOLEAN : create_bot(q, b, t, ok)
                \/ DeleteBot(q, b)
                \/ \E s \in BotServers : invite_bot(q, b, s) \/ RemoveMember(q, s, b)
          \/ CreateUser(q) \/ insert_bot(q) \/ mark_deleted(q) \/ delete_bot(q)
          \/ CheckCompanion(q) \/ JoinServer(q) \/ RecordServer(q) \/ ForgetServer(q)
          \/ RequestFails(q)

BotsSpec == BotsInit /\ [][BotsNext]_botVars

------------------------------------------------------------------------------
(* An owner has one companion, and a companion is in one server, unless      *)
(* requests about it overlapped or one failed half way: the two checks are  *)
(* made on what was read before the writes.                                 *)
OneServerEach ==
    /\ \A a, b \in BotIds \ disturbed : IsCompanion(a) /\ IsCompanion(b) => a = b
    /\ \A b \in BotIds \ disturbed : IsCompanion(b) =>
          \A s, t \in BotServers : <<s, b>> \in memberOf /\ <<t, b>> \in memberOf => s = t

(* A companion that was removed from its server is no longer recorded as     *)
(* joined there, so that an invitation back makes it a member again.        *)
RemovedIsCleared ==
    \A b \in BotIds \ disturbed :
        IsCompanion(b) /\ bots[b].joined_server_id # NoSite
            /\ (\A q \in BotRequests : breq[q] = Calm)
        => <<bots[b].joined_server_id, b>> \in memberOf

-----------------------------------------------------------------------------
(***************************************************************************)
(* Slash commands in one channel.  An invocation is kept in the memory of   *)
(* the API process (InteractionStore) until the bot's callback replies to   *)
(* it; interactions older than 15 minutes go when the next command is       *)
(* invoked.  Requests run on several threads.                               *)
(***************************************************************************)
CONSTANTS
    CommandIds,      \* ids commands may get, each once
    Handlers,        \* bots
    CommandNames,    \* names of commands
    Calls,           \* requests under way at a time
    max_commands,    \* commands a bot may have (50)
    MaxInteractions, \* bound on the interactions created
    MaxMoves,        \* bound on the bots joining or leaving the channel
    NoCommand        \* stands for no document

ASSUME InteractionsAssumption == {max_commands, MaxInteractions, MaxMoves} \subseteq Nat

VARIABLES
    commands,   \* commands[k]: the document bot_id and name
    here,       \* bots that are members, or recipients, of the channel
    pending,    \* the store: <<interaction, bot>>; ids grow with time
    invoked,    \* interactions created so far
    calls,      \* what each request is at
    replies,    \* replies[i]: messages sent in reply to i
    shared,     \* history: interactions two callbacks held at once
    moves

commandVars == <<commands, here, pending, invoked, calls, replies, shared, moves>>

Unused == [op |-> "none"]
Of(b) == {k \in CommandIds : commands[k] # NoCommand /\ commands[k].bot_id = b}

InteractionsInit ==
    /\ commands = [k \in CommandIds |-> NoCommand]
    /\ here = Handlers
    /\ pending = {} /\ invoked = 0 /\ moves = 0
    /\ calls = [q \in Calls |-> Unused]
    /\ replies = [i \in 1 .. MaxInteractions |-> 0]
    /\ shared = {}

InteractionsTypeOK ==
    /\ pending \subseteq (1 .. invoked) \X Handlers
    /\ invoked \in 0 .. MaxInteractions /\ here \subseteq Handlers
    /\ shared \subseteq 1 .. invoked

CallIs(q, r) == calls' = [calls EXCEPT ![q] = r]

------------------------------------------------------------------------------
(* POST bots/<bot>/commands: the limit and the name are checked on what the  *)
(* bot has, then BotCommand::create inserts the document.                   *)
create_bot_command(q, k, b, n) ==
    /\ calls[q] = Unused /\ commands[k] = NoCommand
    /\ \A p \in Calls : calls[p].op = "command" => calls[p].id # k
    /\ Cardinality(Of(b)) < max_commands
    /\ \A o \in Of(b) : commands[o].name # n
    /\ CallIs(q, [op |-> "command", id |-> k, doc |-> [bot_id |-> b, name |-> n]])
    /\ UNCHANGED <<commands, here, pending, invoked, replies, shared, moves>>

insert_bot_command(q) ==
    /\ calls[q].op = "command"
    /\ commands' = [commands EXCEPT ![calls[q].id] = calls[q].doc]
    /\ CallIs(q, Unused)
    /\ UNCHANGED <<here, pending, invoked, replies, shared, moves>>

delete_bot_command(k) ==
    /\ commands[k] # NoCommand
    /\ commands' = [commands EXCEPT ![k] = NoCommand]
    /\ UNCHANGED <<here, pending, invoked, calls, replies, shared, moves>>

(* A bot joins or leaves the channel. *)
Move(b) ==
    /\ moves < MaxMoves /\ moves' = moves + 1
    /\ here' = IF b \in here THEN here \ {b} ELSE here \cup {b}
    /\ UNCHANGED <<commands, pending, invoked, calls, replies, shared>>

------------------------------------------------------------------------------
(* The store keeps what was created after the cutoff. *)
cleanup_expired(store, cutoff) == {p \in store : p[1] > cutoff}

(* POST channels/<id>/interactions.  What expires is older than the new one. *)
invoke_command(k, cutoff) ==
    /\ invoked < MaxInteractions
    /\ commands[k] # NoCommand /\ commands[k].bot_id \in here
    /\ invoked' = invoked + 1
    /\ pending' = cleanup_expired(pending \cup {<<invoked + 1, commands[k].bot_id>>}, cutoff)
    /\ UNCHANGED <<commands, here, calls, replies, shared, moves>>

(* POST interactions/<id>/callback with a reply: the bot gets what is kept   *)
(* for it.  The other kinds of response change nothing.                     *)
interaction_callback(q, i, b) ==
    LET holders == {p \in Calls : calls[p].op = "take" /\ calls[p].id = i} IN
    /\ calls[q] = Unused /\ <<i, b>> \in pending
    /\ CallIs(q, [op |-> "take", id |-> i, bot |-> b])
    /\ shared' = IF holders = {} THEN shared ELSE shared \cup {i}
    /\ UNCHANGED <<commands, here, pending, invoked, replies, moves>>

\* BUG VARIANT: the interaction is looked up and stays in the store.
TakenStays(store, i) == store

(* InteractionStore::take, whose answer the callback does not look at. *)
take(store, i) == {p \in store : p[1] # i}

TakeInteraction(q) ==
    /\ calls[q].op = "take"
    /\ pending' = take(pending, calls[q].id)
    /\ CallIs(q, [calls[q] EXCEPT !.op = "reply"])
    /\ UNCHANGED <<commands, here, invoked, replies, shared, moves>>

(* The channel is fetched and the message created.  The request has no       *)
(* nonce, so nothing else makes a second reply out.                         *)
SendReply(q) ==
    /\ calls[q].op = "reply"
    /\ replies' = [replies EXCEPT ![calls[q].id] = @ + 1]
    /\ CallIs(q, Unused)
    /\ UNCHANGED <<commands, here, pending, invoked, shared, moves>>

(* A call of the request fails: an interaction taken is not put back. *)
CommandFails(q) ==
    /\ calls[q].op \in {"command", "reply"}
    /\ CallIs(q, Unused)
    /\ UNCHANGED <<commands, here, pending, invoked, replies, shared, moves>>

InteractionsNext ==
    \/ \E q \in Calls :
          \/ \E k \in CommandIds, b \in Handlers, n \in CommandNames : create_bot_command(q, k, b, n)
          \/ \E i \in 1 .. invoked, b \in Handlers : interaction_callback(q, i, b)
          \/ insert_bot_command(q) \/ TakeInteraction(q) \/ SendReply(q) \/ CommandFails(q)
    \/ \E k \in CommandIds : \/ delete_bot_command(k)
                             \/ \E cutoff \in 0 .. invoked : invoke_command(k, cutoff)
    \/ \E b \in Handlers : Move(b)

InteractionsSpec == InteractionsInit /\ [][InteractionsNext]_commandVars

------------------------------------------------------------------------------
(* An invocation gets one reply, however often the bot calls back ("Consume  *)
(* the interaction (one-time use for Reply)", callback.rs), and a reply      *)
(* under way has taken it out of the store.  The one exception is two        *)
(* callbacks that both read the store before either took the interaction.   *)
RepliedOnce ==
    \A i \in 1 .. invoked : i \notin shared =>
        LET replying == {q \in Calls : calls[q].op = "reply" /\ calls[q].id = i} IN
        /\ \A p, q \in replying : p = q
        /\ replies[i] = 0 \/ (replies[i] = 1 /\ replying = {})
        /\ replies[i] = 1 \/ replying # {} => \A b \in Handlers : <<i, b>> \notin pending
=============================================================================
