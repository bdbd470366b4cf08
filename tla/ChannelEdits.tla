---------------------------- MODULE ChannelEdits ----------------------------
(***************************************************************************)
(* Edits of a channel of a server, a group or a webhook, and what a client  *)
(* that follows the events shows of it.                                     *)
(*                                                                         *)
(* An edit reads the document, marks the icon it takes off as deleted,      *)
(* claims the new one, announces the changes in a group, writes the fields  *)
(* it names and publishes them.  Permissions, the owner and the moderators  *)
(* of a group (in Groups) and the end of a call (in Voice) are left out.    *)
(***************************************************************************)
EXTENDS Naturals

CONSTANTS
    ChangeData,   \* the edits: [sets |-> <field :> value>, remove |-> fields]
    ERequests,    \* requests, each served once
    Bitrates      \* the bitrates the tiers of owners allow at most, in kbps

VARIABLES
    kind,      \* what is edited: "text", "group" or "webhook"
    doc,       \* the fields of the document
    claimed,   \* files that are used for something
    erased,    \* files marked as deleted
    change,    \* what each request is at
    follows,   \* the fields as a client that follows the events has them
    announced, \* messages of the group that tell of a change
    unsaid,    \* history: changes whose message could not be sent
    uncertain  \* history: fields of edits that crossed, or failed after a mark

editVars == <<kind, doc, claimed, erased, change, follows, announced, unsaid, uncertain>>

Unset == 0
ToCome == [at |-> "waiting"]
Answered == [at |-> "answered"]

\* The fields of each kind.
FieldsOf(k) == CASE k = "text" -> {"name", "description", "icon", "voice"}
                 [] k = "group" -> {"name", "description", "icon"}
                 [] k = "webhook" -> {"name", "icon", "permissions"}
Told == {"name", "description", "icon"}

EditsInit ==
    /\ kind \in {"text", "group", "webhook"}
    /\ doc = [f \in FieldsOf(kind) |-> Unset] /\ follows = doc
    /\ claimed = {} /\ erased = {}
    /\ change = [q \in ERequests |-> ToCome]
    /\ announced = {} /\ unsaid = {} /\ uncertain = {}

EditsTypeOK ==
    /\ DOMAIN doc = FieldsOf(kind) /\ DOMAIN follows = DOMAIN doc
    /\ erased \subseteq claimed
    /\ uncertain \subseteq FieldsOf(kind)

------------------------------------------------------------------------------
Moves(q, c) == change' = [change EXCEPT ![q] = c]
Due(q) == change[q].at
Active == {q \in ERequests : Due(q) \notin {"waiting", "answered"}}
Touched(e) == DOMAIN e.sets \cup e.remove

(* The early return of each route; that of webhooks forgets permissions. *)
Asks(e) == Touched(e) \ (IF kind = "webhook" THEN {"permissions"} ELSE {}) # {}

(* The icon a channel loses; the avatar of a webhook is not marked. *)
Marks(e, copy) ==
    IF "icon" \in e.remove /\ kind # "webhook" THEN {copy.icon} \ {Unset} ELSE {}

(* The calls e takes, and their order. *)
Calls(e) ==
    {"write", "publish"}
    \cup {c \in {"mark"} : kind # "webhook" /\ "icon" \in e.remove}
    \cup {c \in {"find", "use"} : "icon" \in DOMAIN e.sets}
    \cup {c \in {"announce"} : kind = "group" /\ DOMAIN e.sets \cap Told # {}}
    \cup {c \in {"check"} : "voice" \in DOMAIN e.sets}

Rank == [mark |-> 1, find |-> 2, use |-> 3, announce |-> 4, check |-> 5, write |-> 6, publish |-> 7]
Earliest(cs) == {c \in cs : \A d \in cs : Rank[c] <= Rank[d]}

Onward(q) ==
    LET e == change[q].e IN
    \E c \in Earliest({d \in Calls(e) : Rank[d] > Rank[Due(q)]}) :
        Moves(q, [at |-> c, e |-> e, copy |-> change[q].copy])

(* The document is read. *)
Begin(q, e) ==
    /\ change[q] = ToCome /\ Touched(e) \subseteq FieldsOf(kind)
    /\ IF ~Asks(e) THEN Moves(q, Answered)
       ELSE \E c \in Earliest(Calls(e)) : Moves(q, [at |-> c, e |-> e, copy |-> doc])
    /\ uncertain' = IF ~Asks(e) THEN uncertain
                    ELSE uncertain \cup (Touched(e) \cap UNION {Touched(change[p].e) : p \in Active})
    /\ UNCHANGED <<kind, doc, claimed, erased, follows, announced, unsaid>>

EditChannel(q, e) == kind # "webhook" /\ Begin(q, e)
webhook_edit(q, e) == kind = "webhook" /\ Begin(q, e)

(* The same without a user, for whoever knows the token. *)
webhook_edit_token(q, e) == kind = "webhook" /\ Begin(q, e)

MarkIcon(q) ==
    /\ Due(q) = "mark"
    /\ erased' = erased \cup Marks(change[q].e, change[q].copy)
    /\ Onward(q)
    /\ UNCHANGED <<kind, doc, claimed, follows, announced, unsaid, uncertain>>

(* An error after the icon was marked leaves it on the channel. *)
EndsInError(q) ==
    /\ Moves(q, Answered)
    /\ uncertain' = IF Due(q) # "mark" /\ Marks(change[q].e, change[q].copy) # {}
                    THEN uncertain \cup {"icon"} ELSE uncertain

(* File::use_channel_icon, use_webhook_avatar: a file that is free ... *)
FindIcon(q) ==
    /\ Due(q) = "find"
    /\ IF change[q].e.sets.icon \in claimed THEN EndsInError(q) ELSE Onward(q) /\ uncertain' = uncertain
    /\ UNCHANGED <<kind, doc, claimed, erased, follows, announced, unsaid>>

(* ... is used. *)
UseIcon(q) ==
    /\ Due(q) = "use"
    /\ claimed' = claimed \cup {change[q].e.sets.icon}
    /\ Onward(q)
    /\ UNCHANGED <<kind, doc, erased, follows, announced, unsaid, uncertain>>

(* SystemMessage::ChannelRenamed and the others; a failure is ignored. *)
Announce(q, lost) ==
    LET e == change[q].e
        news == {<<f, e.sets[f]>> : f \in DOMAIN e.sets \cap Told}
    IN
    /\ Due(q) = "announce" /\ lost \subseteq DOMAIN e.sets
    /\ announced' = announced \cup {n \in news : n[1] \notin lost}
    /\ unsaid' = unsaid \cup {n \in news : n[1] \in lost}
    /\ Onward(q)
    /\ UNCHANGED <<kind, doc, claimed, erased, follows, uncertain>>

(* The bitrate is checked against the tier the owner of the server has. *)
CheckBitrate(q, max_allowed) ==
    LET rate == change[q].e.sets.voice IN
    /\ Due(q) = "check"
    /\ IF rate < 32 \/ rate > max_allowed THEN EndsInError(q) ELSE Onward(q) /\ uncertain' = uncertain
    /\ UNCHANGED <<kind, doc, claimed, erased, follows, announced, unsaid>>

(* remove_field and apply_options, which the database's update agrees with. *)
Applied(d, e) ==
    [f \in DOMAIN d |-> IF f \in DOMAIN e.sets THEN e.sets[f]
                        ELSE IF f \in e.remove THEN Unset ELSE d[f]]

(* The database refuses an update that sets and unsets one field. *)
Contradicts(e) == DOMAIN e.sets \cap e.remove # {}

update_channel(q) ==
    /\ Due(q) = "write"
    /\ IF Contradicts(change[q].e)
       THEN EndsInError(q) /\ UNCHANGED doc
       ELSE /\ doc' = Applied(doc, change[q].e)
            /\ Onward(q) /\ uncertain' = uncertain
    /\ UNCHANGED <<kind, claimed, erased, follows, announced, unsaid>>

\* BUG VARIANT: the event leaves out the fields that were cleared.
PublishesSets(q) ==
    /\ Due(q) = "publish"
    /\ follows' = Applied(follows, [change[q].e EXCEPT !.remove = {}])
    /\ Moves(q, Answered)
    /\ UNCHANGED <<kind, doc, claimed, erased, announced, unsaid, uncertain>>

(* EventV1::ChannelUpdate and WebhookUpdate; clients clear, then apply. *)
PublishEdit(q) ==
    /\ Due(q) = "publish"
    /\ follows' = Applied(follows, change[q].e)
    /\ Moves(q, Answered)
    /\ UNCHANGED <<kind, doc, claimed, erased, announced, unsaid, uncertain>>

CallFails(q) ==
    /\ Due(q) \in {"mark", "find", "use", "check", "write"}
    /\ EndsInError(q)
    /\ UNCHANGED <<kind, doc, claimed, erased, follows, announced, unsaid>>

EditsNext ==
    \E q \in ERequests :
        \/ \E e \in ChangeData : EditChannel(q, e) \/ webhook_edit(q, e) \/ webhook_edit_token(q, e)
        \/ MarkIcon(q) \/ FindIcon(q) \/ UseIcon(q)
        \/ \E lost \in SUBSET Told : Announce(q, lost)
        \/ \E max_allowed \in Bitrates : CheckBitrate(q, max_allowed)
        \/ update_channel(q) \/ PublishEdit(q)
        \/ CallFails(q)

EditsSpec == EditsInit /\ [][EditsNext]_editVars

------------------------------------------------------------------------------
(* When no edit is under way, a client that followed the events shows each   *)
(* field as it is stored, and an icon that is not marked as deleted, although *)
(* the mark comes first: edits of different fields may cross as they like,   *)
(* since each writes and publishes only what it names.  Only two edits of    *)
(* one field at once, or one that failed after its mark, can leave it wrong. *)
(* And a group has been told of what it shows.                              *)
EditsShown ==
    Active = {} =>
        /\ \A f \in FieldsOf(kind) \ uncertain : follows[f] = doc[f]
        /\ "icon" \in uncertain \/ doc.icon \notin erased
        /\ kind = "group" => \A f \in Told : doc[f] # Unset => <<f, doc[f]>> \in announced \cup unsaid
=============================================================================
