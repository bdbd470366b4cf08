----------------------------- MODULE MCRequests -----------------------------
(***************************************************************************)
(* Instances for TLC of what concurrent requests do to one thing.  Messages  *)
(* are sent and edited (two requests at a time); one is reacted to, pinned  *)
(* and deleted (two users, two requests, until two of them meet at an       *)
(* emoji); a client pages through three; they are counted as unread         *)
(* (two workers of the task, a queue of one place) and users notified of    *)
(* them (a device of each of two users).  A profile is edited (edits that   *)
(* meet in a field, in a file and in the document), decorations are         *)
(* reviewed, bought and worn (two of one slot, free and at two prices,      *)
(* until the wearing requests of one buyer cross or fail), and              *)
(* requests spend a bucket of the rate limits (one in a window).            *)
(*                                                                         *)
(* These share no state, so a behaviour exercises one of them and leaves    *)
(* the others in their initial state.  Requests, workers, decorations and   *)
(* the users who react have the same names, so that one symmetry set serves *)
(* all.                                                                     *)
(***************************************************************************)
EXTENDS MessageSend, ChannelMessages, Unreads, PushD, Profiles, Decorations, Ratelimits, TLC

CONSTANTS a, b, u1, u2, r1, r9, f1, f2, n1, n2, e1, e3, s1, s2, s3

VARIABLE part   \* which of them this behaviour exercises

(* Requests of two users, a bot and a webhook: with and without files that   *)
(* two requests name, nonces, flags, mentions, replies and permissions.     *)
All == {"SendMessage", "UploadFiles", "MentionEveryone", "MentionRoles"}
Plain == [author |-> "user", by |-> u1, flags |-> 0, text |-> TRUE, users |-> {}, roles |-> {},
          everyone |-> FALSE, files |-> <<>>, header |-> NoNonce, nonce |-> NoNonce,
          reply |-> "none", allow_mentions |-> TRUE, can |-> All]
MCSendInputs == {
    [Plain EXCEPT !.files = <<f1>>, !.nonce = n1, !.reply = "strict"],
    [Plain EXCEPT !.files = <<f1, f2>>, !.nonce = n1, !.users = {u2}, !.roles = {r9}],
    [Plain EXCEPT !.author = "bot", !.flags = 6, !.roles = {r1}, !.header = n2, !.reply = "mention"],
    [Plain EXCEPT !.author = "webhook", !.flags = 4, !.roles = {r1, r9}, !.files = <<f2>>,
                  !.can = {"SendMessage", "UploadFiles"}],
    [Plain EXCEPT !.flags = 2, !.users = {u2}, !.allow_mentions = FALSE, !.reply = "mention",
                  !.can = {"SendMessage"}],
    [Plain EXCEPT !.everyone = TRUE, !.can = {"SendMessage"}],
    [Plain EXCEPT !.text = FALSE, !.header = n1, !.nonce = n1],
    [Plain EXCEPT !.text = FALSE, !.nonce = n1]}
MCEditInputs == {[by |-> u1, files |-> <<f2>>, can |-> All \cup {"SendEmbeds"}]}

MCWhitelists == {{e1, e3}, {e1}}

(* A message that mentions a user. *)
MCKinds == {<<{u1}, FALSE>>}

(* A device of each push service. *)
MCUserOf == [s \in Sessions |-> IF s = s1 THEN u1 ELSE u2]
MCEndpoints == [s \in Sessions |-> IF s = s1 THEN "apn" ELSE IF s = s2 THEN "fcm" ELSE "web"]

(* An event of each kind, a message with a mass mention and one without. *)
MessageEvent(id, mentions, everyone, roles) ==
    [kind |-> "message", id |-> id, mentions |-> mentions, everyone |-> everyone, roles |-> roles]
UserEvent(k, id, u) == [kind |-> k, id |-> id, user |-> u]
MCPushEvents ==
    {MessageEvent("m1", {u1}, TRUE, {}), MessageEvent("m2", {}, FALSE, {u1, u2}),
     UserEvent("fr_received", "f", u2), UserEvent("fr_accepted", "a", u1), UserEvent("generic", "g", u1),
     [kind |-> "ack", id |-> "k", user |-> u1, of |-> "m1"],
     [kind |-> "dm_call", id |-> "c", initiator |-> u1, recipients |-> {}]}
MCPending == {<<u1, "m0">>}

MCEditData ==
    {[sets |-> "avatar" :> "f1", remove |-> {}],
     [sets |-> "avatar" :> "f2", remove |-> {"avatar"}],
     [sets |-> "background" :> "f3" @@ "content" :> "c1", remove |-> {}],
     [sets |-> "text" :> "t1", remove |-> {"background"}],
     [sets |-> "presence" :> "p1", remove |-> {"text", "content"}],
     [sets |-> <<>>, remove |-> {"avatar"}],
     [sets |-> "presence_style" :> "s1", remove |-> {}]}

MCSlotOf == [d \in DecorationIds |-> "Banner"]
MCOffers == {[is_free |-> TRUE, price_coins |-> 1], [is_free |-> FALSE, price_coins |-> 1],
             [is_free |-> FALSE, price_coins |-> 2]}

RequestsInit ==
    /\ SendInit /\ MessagesInit /\ UnreadsInit /\ PushInit
    /\ PagesInit /\ ProfilesInit /\ DecorationsInit /\ RatelimitsInit
    /\ part \in {"send", "reactions", "pages", "unreads", "push", "profile", "decorations", "ratelimits"}
    /\ part # "send" => kind = "text"
    /\ part # "reactions" => whitelist = Emojis
    /\ part # "decorations" => \A d \in DecorationIds : /\ decoration[d].status = "None"
                                                        /\ decoration[d].offer.is_free

RequestsNext ==
    /\ UNCHANGED part
    /\ \/ /\ part = "send" /\ SendNext
          /\ UNCHANGED <<msgVars, pageVars, unreadVars, pushVars,
                        profileVars, decorationVars, ratelimitVars>>
       \/ /\ part = "reactions" /\ disturbed = {} /\ MessagesNext
          /\ UNCHANGED <<sendVars, pageVars, unreadVars, pushVars,
                        profileVars, decorationVars, ratelimitVars>>
       \/ /\ part = "pages" /\ PagesNext
          /\ UNCHANGED <<sendVars, msgVars, unreadVars, pushVars,
                        profileVars, decorationVars, ratelimitVars>>
       \/ /\ part = "unreads" /\ UnreadsNext
          /\ UNCHANGED <<sendVars, msgVars, pageVars, pushVars,
                        profileVars, decorationVars, ratelimitVars>>
       \/ /\ part = "push" /\ PushNext
          /\ UNCHANGED <<sendVars, msgVars, pageVars, unreadVars,
                        profileVars, decorationVars, ratelimitVars>>
       \/ /\ part = "profile" /\ ProfilesNext
          /\ UNCHANGED <<sendVars, msgVars, pageVars, unreadVars,
                        pushVars, decorationVars, ratelimitVars>>
       \/ /\ part = "decorations" /\ disturbed_wear = {} /\ DecorationsNext
          /\ UNCHANGED <<sendVars, msgVars, pageVars, unreadVars,
                        pushVars, profileVars, ratelimitVars>>
       \/ /\ part = "ratelimits" /\ RatelimitsNext
          /\ UNCHANGED <<sendVars, msgVars, pageVars, unreadVars,
                        pushVars, profileVars, decorationVars>>

RequestsSpec ==
    /\ RequestsInit
    /\ [][RequestsNext]_<<sendVars, msgVars, pageVars, unreadVars, pushVars, profileVars,
                        decorationVars, ratelimitVars, part>>

Symmetry == Permutations({a, b})
=============================================================================
