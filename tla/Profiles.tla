------------------------------ MODULE Profiles ------------------------------
(***************************************************************************)
(* Edits of a user's profile, and the stream that pokes other services      *)
(* about them.                                                              *)
(*                                                                         *)
(* An edit works on the copy of the user that came with the request: it     *)
(* marks removed files as deleted, rebuilds status and profile from the     *)
(* copy, writes, and publishes.  Subscribers of the stream fetch the user   *)
(* again on each poke; their queues are bounded.                            *)
(***************************************************************************)
EXTENDS Naturals

CONSTANTS
    EditData,          \* the edits: [sets |-> <field :> value>, remove |-> fields]
    PRequests,         \* requests, each served once
    CHANNEL_CAPACITY   \* pokes buffered per subscriber

(* Files are uploaded for a purpose: no avatar is also a background. *)
ASSUME ProfilesAssumption ==
    /\ CHANNEL_CAPACITY \in Nat \ {0}
    /\ \A e \in EditData : \A f \in DOMAIN e.sets : e.sets[f] # "none"
    /\ \A d, e \in EditData : ("avatar" \in DOMAIN d.sets /\ "background" \in DOMAIN e.sets)
                              => d.sets["avatar"] # e.sets["background"]

VARIABLES
    profile,   \* the fields of the document
    version,   \* number of writes to it
    gone,      \* files marked as deleted
    editing,   \* what each request is at
    rx,        \* pokes buffered for the subscriber
    lagged,    \* whether the buffer overflowed since
    cached,    \* the version the subscriber fetched last
    meant,     \* history: what the last edits to be applied said of each field
    forgiven    \* history: fields of edits that crossed, failed or gave a file again

profileVars == <<profile, version, gone, editing, rx, lagged, cached, meant, forgiven>>

status == {"text", "presence"}
details == {"content", "background"}
FieldGroups == {status, details, {"avatar"}}
Fields == UNION FieldGroups \cup {"presence_style"}
Files == {"avatar", "background"}
None == "none"
NotBegun == [op |-> "wait"]
Closed == [op |-> "closed"]

ProfilesInit ==
    /\ profile = [f \in Fields |-> None] /\ meant = profile
    /\ version = 0 /\ cached = 0
    /\ gone = {}
    /\ editing = [q \in PRequests |-> NotBegun]
    /\ rx = 0 /\ lagged = FALSE
    /\ forgiven = {}

ProfilesTypeOK ==
    /\ DOMAIN profile = Fields /\ version \in Nat /\ cached \in 0..version
    /\ rx \in 0..CHANNEL_CAPACITY /\ lagged \in BOOLEAN
    /\ forgiven \subseteq Fields

------------------------------------------------------------------------------
Step(q, next) == editing' = [editing EXCEPT ![q] = next]
Named(e) == DOMAIN e.sets \cup e.remove
Sets(e, g) == DOMAIN e.sets \cap g # {}
Holding == {q \in PRequests : editing[q].op \notin {"wait", "closed", "failed"}}

(* The order of the calls. *)
After == [mark |-> "write", write |-> "publish", publish |-> "closed"]

Advance(q) ==
    Step(q, IF After[editing[q].op] = "closed" THEN Closed
            ELSE [editing[q] EXCEPT !.op = After[@]])

(* The early exit looks at every field but presence_style. *)
Changed(e) == Named(e) \ {"presence_style"} # {}

edit(q, e) ==
    /\ editing[q] = NotBegun
    /\ Step(q, IF Changed(e) THEN [op |-> "mark", e |-> e, copy |-> profile] ELSE Closed)
    /\ meant' = IF Changed(e) THEN meant
                ELSE [f \in Fields |-> IF f \in DOMAIN e.sets THEN e.sets[f] ELSE meant[f]]
    /\ forgiven' = IF Holding = {} \/ ~Changed(e) THEN forgiven ELSE Fields
    /\ UNCHANGED <<profile, version, gone, rx, lagged, cached>>

(* update_user: the database refuses to set a field and unset a part of it; *)
(* only for the status text is the update split in two.                     *)
Split(e) == "text" \in e.remove /\ Sets(e, status)
Conflict(e) == ~Split(e) /\ \E g \in FieldGroups : Sets(e, g) /\ e.remove \cap g # {}

(* 1. Files of removed fields. *)
mark_attachment_as_deleted(q) ==
    LET s == editing[q] IN
    /\ s.op = "mark"
    /\ gone' = gone \cup ({s.copy[f] : f \in s.e.remove \cap Files} \ {None})
    /\ IF Split(s.e) THEN Step(q, [s EXCEPT !.op = "unset"]) ELSE Advance(q)
    /\ UNCHANGED <<profile, version, rx, lagged, cached, meant, forgiven>>

(* 2.-4. The new user.  A status or profile that is given at all is written *)
(* whole, from the copy without the removed fields.                         *)
\* BUG VARIANT: fields to remove are left alone.
RebuiltKeeps(e, copy) ==
    [f \in Fields |-> IF f \in DOMAIN e.sets THEN e.sets[f] ELSE profile[f]]

Rebuilt(e, copy) ==
    [f \in Fields |->
        IF f \in DOMAIN e.sets THEN e.sets[f]
        ELSE IF f \in e.remove THEN None
        ELSE IF \E g \in FieldGroups : f \in g /\ Sets(e, g) THEN copy[f]
        ELSE profile[f]]

HalfWritten(q) == editing[q].op = "write" /\ Split(editing[q].e)

(* The first of the two updates; its failure is ignored. *)
UnsetFields(q) ==
    LET s == editing[q] IN
    /\ s.op = "unset"
    /\ \/ /\ profile' = [f \in Fields |-> IF f \in s.e.remove THEN None ELSE profile[f]]
          /\ meant' = [f \in Fields |-> IF f \in s.e.remove THEN None ELSE meant[f]]
          /\ version' = version + 1
       \/ UNCHANGED <<profile, meant, version>>
    /\ Step(q, [s EXCEPT !.op = "write"])
    /\ UNCHANGED <<gone, rx, lagged, cached, forgiven>>

update_user(q) ==
    LET s == editing[q] IN
    /\ s.op = "write"
    /\ IF Conflict(s.e)
       THEN /\ forgiven' = forgiven \cup Named(s.e)
            /\ Step(q, Closed)
            /\ UNCHANGED <<profile, version, meant>>
       ELSE /\ profile' = Rebuilt(s.e, s.copy)
            /\ meant' = [f \in Fields |-> IF f \in DOMAIN s.e.sets THEN s.e.sets[f]
                                          ELSE IF f \in s.e.remove THEN None ELSE meant[f]]
            /\ version' = version + 1
            /\ forgiven' = forgiven \cup {f \in DOMAIN s.e.sets \cap Files : s.e.sets[f] \in gone}
            /\ Advance(q)
    /\ UNCHANGED <<gone, rx, lagged, cached>>

------------------------------------------------------------------------------
(* publish_user_update; the oldest poke is lost when the buffer is full.    *)
publish_user_update(q) ==
    /\ editing[q].op = "publish"
    /\ rx' = IF rx < CHANNEL_CAPACITY THEN rx + 1 ELSE rx
    /\ lagged' = (lagged \/ rx = CHANNEL_CAPACITY)
    /\ Advance(q)
    /\ UNCHANGED <<profile, version, gone, cached, meant, forgiven>>

(* user_events: the warning that pokes were skipped, or the next poke. *)
user_events == IF lagged THEN lagged' = FALSE /\ rx' = rx ELSE rx > 0 /\ rx' = rx - 1 /\ lagged' = lagged

(* The subscriber fetches the user on either. *)
Poked ==
    /\ user_events
    /\ cached' = version
    /\ UNCHANGED <<profile, version, gone, editing, meant, forgiven>>

EditFails(q) ==
    /\ editing[q].op \in {"mark", "write"}
    /\ forgiven' = forgiven \cup Named(editing[q].e)
    /\ Step(q, IF HalfWritten(q) THEN [op |-> "failed"] ELSE Closed)
    /\ UNCHANGED <<profile, version, gone, rx, lagged, cached, meant>>

ProfilesNext ==
    \/ \E q \in PRequests :
          \/ \E e \in EditData : edit(q, e)
          \/ mark_attachment_as_deleted(q)
          \/ UnsetFields(q) \/ update_user(q)
          \/ publish_user_update(q)
          \/ EditFails(q)
    \/ Poked

ProfilesSpec == ProfilesInit /\ [][ProfilesNext]_profileVars

------------------------------------------------------------------------------
(* A file the profile shows is not marked as deleted, although the mark     *)
(* comes before the write that takes it off, for edits that do not cross,   *)
(* go through, and give new files.                                          *)
ShownFilesKept ==
    Holding = {} => \A f \in Files \ forgiven : profile[f] \notin gone

(* A subscriber with nothing left to handle has the newest version, except  *)
(* for a write whose poke is still to come, or whose edit failed in between *)
(* its two writes.                                                          *)
SubscriberCurrent ==
    (rx = 0 /\ ~lagged /\ cached # version)
        => \E q \in PRequests : editing[q].op \in {"publish", "failed"} \/ HalfWritten(q)

\* Refuted by TLC (see the known divergences in README.md):
(* An edit changes what it names (the request exits early if nothing is     *)
(* changed).                                                                *)
EditsApply == Holding = {} => \A f \in Fields \ forgiven : profile[f] = meant[f]
=============================================================================
