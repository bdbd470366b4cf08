------------------------------- MODULE Groups -------------------------------
(***************************************************************************)
(* One group channel: its owner, its moderators and its recipients.        *)
(*                                                                         *)
(* Every route fetches the channel document, decides on that copy, and     *)
(* then writes single fields of the document with separate updates.        *)
(* Updates of a document that is gone match nothing and succeed.  Names,   *)
(* icons, system messages and the voice room are left out, and whether the *)
(* caller is a friend of the user they add is an input.                    *)
(***************************************************************************)
EXTENDS Naturals, Sequences, FiniteSets

CONSTANTS
    GUsers,     \* the users
    GSlots,     \* requests that may be in flight at once
    group_size  \* the limit on recipients of a group

ASSUME GroupAssumption == group_size \in Nat \ {0}

VARIABLES
    group,   \* the channel document
    job,     \* job[s]: the request in slot s
    misled   \* whether a write was made on a fact that no longer held

groupVars == <<group, job, misled>>

NoGroup == [phase |-> "none", owner |-> {}, recipients |-> <<>>, moderators |-> {}]
NoJob == [at |-> "idle"]

Live == group.phase = "live"
Members(g) == {g.recipients[i] : i \in DOMAIN g.recipients}

GroupInit ==
    /\ group = NoGroup
    /\ job = [s \in GSlots |-> NoJob]
    /\ misled = FALSE

GroupTypeOK ==
    /\ group.phase \in {"none", "live", "deleted"} /\ misled \in BOOLEAN
    /\ group.owner \subseteq GUsers /\ Cardinality(group.owner) <= 1
    /\ group.moderators \subseteq GUsers /\ Members(group) \subseteq GUsers

------------------------------------------------------------------------------
(* The route checks that the users are friends of the caller; the           *)
(* recipients come out of a hash set, in any order, the owner among them.   *)
create_group(u) ==
    /\ group.phase = "none"
    /\ \E us \in SUBSET GUsers :
          /\ u \in us
          /\ Cardinality(us) <= group_size
          /\ \E sq \in [1 .. Cardinality(us) -> us] :
                /\ {sq[i] : i \in DOMAIN sq} = us
                /\ group' = [phase |-> "live", owner |-> {u},
                             recipients |-> sq, moderators |-> {}]
    /\ UNCHANGED <<job, misled>>

(* GrantAllSafe for the owner and the moderators, at least ViewChannel for *)
(* a recipient, nothing for anybody else.                                  *)
Belongs(u) == u \in group.owner \cup group.moderators \cup Members(group)

Start(s, r) ==
    /\ job[s] = NoJob
    /\ job' = [job EXCEPT ![s] = r]
    /\ UNCHANGED <<group, misled>>

(* A request that still has to take t out of the recipients, first writing *)
(* the moderators without t when the copy it holds lists t.                *)
PullJob(t, owner) == [at |-> "pull", to |-> t, owner |-> owner]

Removal(u, t, owner, mods) ==
    IF t \in mods
    THEN [at |-> "mods", by |-> u, to |-> t, owner |-> owner,
          old |-> mods, mods |-> mods \ {t}, then |-> "pull"]
    ELSE PullJob(t, owner)

add_member(s, u, t) ==
    /\ Live /\ Belongs(u)
    /\ t \notin Members(group)
    /\ Len(group.recipients) < group_size
    /\ Start(s, [at |-> "push", to |-> t])

remove_member(s, u, t) ==
    /\ Live
    /\ u \in group.owner \cup group.moderators
    /\ u # t
    /\ t \in Members(group)
    /\ u \notin group.owner => t \notin group.owner \cup group.moderators
    /\ Start(s, Removal(u, t, group.owner, group.moderators))

\* BUG VARIANT: an owner who leaves does not hand the group over.
LeaveKeepsOwner(s, u) ==
    /\ Live /\ Belongs(u)
    /\ Start(s, Removal(u, u, group.owner, group.moderators))

(* DELETE on a group: the caller leaves.  An owner hands the group to the  *)
(* first other recipient, and the last one to leave deletes it.            *)
leave(s, u) ==
    LET g == group
        rest == {i \in DOMAIN g.recipients : g.recipients[i] # u}
        heir == g.recipients[CHOOSE i \in rest : \A j \in rest : i <= j]
    IN
    /\ Live /\ Belongs(u)
    /\ \/ /\ u \notin g.owner
          /\ Start(s, Removal(u, u, g.owner, g.moderators))
       \/ /\ u \in g.owner /\ rest # {}
          /\ Start(s, [at |-> "owner", by |-> u, to |-> heir, owner |-> g.owner,
                       then |-> "leave", mods |-> g.moderators])
       \/ /\ u \in g.owner /\ rest = {}
          /\ Start(s, [at |-> "delete"])

(* The owner edits the channel: hands it over, or changes the moderators   *)
(* (the owner is skipped when listed among the moderators to add).         *)
edit_owner(s, u, t) ==
    /\ Live /\ u \in group.owner
    /\ t \in Members(group)
    /\ Start(s, [at |-> "owner", by |-> u, to |-> t, owner |-> group.owner,
                 then |-> "done", mods |-> group.moderators])

edit_moderators(s, u, t) ==
    /\ Live /\ u \in group.owner
    /\ \/ /\ t \in Members(group)
          /\ Start(s, [at |-> "mods", by |-> u, to |-> t, owner |-> group.owner,
                       old |-> group.moderators, then |-> "done",
                       mods |-> group.moderators \cup ({t} \ group.owner)])
       \/ Start(s, [at |-> "mods", by |-> u, to |-> t, owner |-> group.owner,
                    old |-> group.moderators, then |-> "done",
                    mods |-> group.moderators \ {t}])

------------------------------------------------------------------------------
(* A single update of the document, which does nothing when it is gone. *)
Update(g) == group' = IF Live THEN g ELSE group

Finish(s) == job' = [job EXCEPT ![s] = NoJob]

Mislead(fact) == misled' = (misled \/ (Live /\ ~fact))

(* $push of the new recipient. *)
Push(s) ==
    LET j == job[s] IN
    /\ j.at = "push"
    /\ Update([group EXCEPT !.recipients = Append(@, j.to)])
    /\ Mislead(j.to \notin Members(group))
    /\ Finish(s)

(* The owner field is set; a leaving owner goes on to leave. *)
WriteOwner(s) ==
    LET j == job[s] IN
    /\ j.at = "owner"
    /\ Update([group EXCEPT !.owner = {j.to}])
    /\ Mislead(group.owner = j.owner /\ j.to \in Members(group))
    /\ IF j.then = "done" THEN Finish(s)
       ELSE job' = [job EXCEPT ![s] = Removal(j.by, j.by, {j.to}, j.mods)]

(* The moderators field is replaced by the list made from the copy. *)
WriteModerators(s) ==
    LET j == job[s] IN
    /\ j.at = "mods"
    /\ Update([group EXCEPT !.moderators = j.mods])
    /\ Mislead(/\ group.owner = j.owner
               /\ group.moderators = j.old
               /\ j.mods \subseteq Members(group))
    /\ IF j.then = "done" THEN Finish(s)
       ELSE job' = [job EXCEPT ![s] = PullJob(j.to, j.owner)]

(* $pull of the recipient: every entry equal to the user goes. *)
Pull(s) ==
    LET j == job[s]
        Other(x) == x # j.to
    IN
    /\ j.at = "pull"
    /\ Update([group EXCEPT !.recipients = SelectSeq(@, Other)])
    /\ Mislead(group.owner = j.owner /\ j.to \notin group.moderators)
    /\ Finish(s)

(* The channel's invites, unreads, webhooks, messages and attachments go,  *)
(* and last the channel document.                                          *)
DeleteGroup(s) ==
    LET j == job[s] IN
    /\ j.at = "delete"
    /\ group' = [NoGroup EXCEPT !.phase = "deleted"]
    /\ Finish(s)
    /\ UNCHANGED misled

(* A failing update ends the request after the updates already made. *)
UpdateFails(s) ==
    /\ job[s] # NoJob
    /\ Finish(s)
    /\ UNCHANGED <<group, misled>>

GroupNext ==
    \/ \E u \in GUsers : create_group(u)
    \/ \E s \in GSlots :
          \/ \E u, t \in GUsers :
                \/ add_member(s, u, t)
                \/ remove_member(s, u, t)
                \/ edit_owner(s, u, t)
                \/ edit_moderators(s, u, t)
          \/ \E u \in GUsers : leave(s, u)
          \/ Push(s) \/ WriteOwner(s) \/ WriteModerators(s)
          \/ Pull(s) \/ DeleteGroup(s) \/ UpdateFails(s)

------------------------------------------------------------------------------
(* The document of a live group makes sense: its owner and its moderators  *)
(* are recipients and nobody is listed twice, also when a request of       *)
(* several updates stops half-way (remove_user_from_group hands the group  *)
(* over and drops the moderator before it pulls the recipient).  What      *)
(* breaks it is a write decided on a fact another request has changed.     *)
GroupWellFormed ==
    (Live /\ ~misled) =>
        /\ group.owner # {} /\ group.owner \subseteq Members(group)
        /\ group.moderators \subseteq Members(group)
        /\ Len(group.recipients) = Cardinality(Members(group))

(* Only the owner rules: the owner changes only by a request of the owner, *)
(* and the moderators only by a request of the owner or of the one who     *)
(* leaves (remove_member, channel edit and leave), as long as no write     *)
(* was decided on a fact that has changed since.                           *)
OnlyOwnerRules ==
    [][(Live /\ Live' /\ ~misled') =>
          \A s \in GSlots : (job[s] # NoJob /\ job'[s] # job[s]) =>
             /\ group'.owner # group.owner => job[s].by \in group.owner
             /\ \A t \in GUsers :
                   (t \in group.moderators) # (t \in group'.moderators) =>
                       job[s].by \in group.owner \cup {t}]_groupVars
=============================================================================
