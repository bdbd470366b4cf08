--------------------------- MODULE ServerMembers ---------------------------
(***************************************************************************)
(* Who is a member of one server: creating the server, joining, leaving,    *)
(* kicking, banning, unbanning, timeouts and the moderator role, deleting   *)
(* the server, and the crond task that prunes slated records.               *)
(*                                                                         *)
(* A member who goes while in timeout keeps their record, slated for        *)
(* deletion at the end of the timeout, and coming back revives it.          *)
(* Every database read or write that other requests can come between is a   *)
(* step of its own.  A request that is refused changes nothing: when that   *)
(* happens in its first step it is no step, later it ends the request.      *)
(* The server has one role, the moderator's, which may kick, ban and time   *)
(* out those without it; ServerRoles has the permissions in full.  Events   *)
(* and system messages are left out.                                       *)
(***************************************************************************)
EXTENDS Integers, FiniteSets

CONSTANTS Users, Owner,
          Requests,         \* calls in flight at a time
          max_members,      \* the limit that invites are checked against
          MaxTime           \* BOUND: the clock runs from 0 to MaxTime

ASSUME MembersAssumption ==
    /\ Owner \in Users /\ max_members \in Nat /\ MaxTime \in Nat \ {0}
    /\ IsFiniteSet(Users)

Time == 0 .. MaxTime

(* A timeout of 0 is no timeout.  BOUND: timeouts end before MaxTime, so that
   crond sees them end. *)
Timeouts == 0 .. MaxTime - 1

(* pending_deletion_at is 0 where the field is missing.  "touched" is bookkeeping
   for the properties: an edit reached the record while its member was going. *)
Record == [exists : BOOLEAN, pending_deletion_at : Timeouts, timeout : Timeouts,
           moderator : BOOLEAN, touched : BOOLEAN]

NoRecord == [exists |-> FALSE, pending_deletion_at |-> 0, timeout |-> 0,
             moderator |-> FALSE, touched |-> FALSE]

NewRecord == [exists |-> TRUE, pending_deletion_at |-> 0, timeout |-> 0,
              moderator |-> FALSE, touched |-> FALSE]

VARIABLES server,    \* "none", then "up", then "gone"
          rec,       \* server_members
          bans,      \* server_bans
          clock,
          req        \* the requests in flight

vars == <<server, rec, bans, clock, req>>

-----------------------------------------------------------------------------
(* fetch_member ignores a slated record. *)
IsMember(u) == rec[u].exists /\ rec[u].pending_deletion_at = 0

in_timeout(u) == rec[u].timeout > clock

(* The caller has KickMembers, BanMembers and TimeoutMembers. *)
Moderates(u) == u = Owner \/ (IsMember(u) /\ rec[u].moderator /\ ~ in_timeout(u))

(* Member::get_ranking of t is below that of u. *)
Outranks(u, t) == u = Owner \/ ~ rec[t].moderator

Idle == [op |-> "idle"]

Init == /\ server = "none"
        /\ rec = [u \in Users |-> NoRecord]
        /\ bans = {}
        /\ clock = 0
        /\ req = [q \in Requests |-> Idle]

Step(q, r) == req' = [req EXCEPT ![q] = r]

(* The removal and the join of u that are between their reads and their write. *)
Going == {"slate", "erase"}

Joining == {"join_member", "join_find", "join_merge", "join_insert"}

(* q ends; the requests on these users in a stage of ops are overtaken by it:
   what they read before no longer holds. *)
Overtake(q, users, ops) ==
    req' = [p \in Requests |->
              IF p = q THEN Idle
              ELSE IF req[p].op \in ops /\ req[p].user \in users
                   THEN [req[p] EXCEPT !.overtaken = TRUE]
              ELSE req[p]]

(* Server::create and the Member::create of its owner.  Nobody else knows the
   id of the server until the route returns. *)
create_server ==
    /\ server = "none"
    /\ server' = "up"
    /\ rec' = [rec EXCEPT ![Owner] = NewRecord]
    /\ UNCHANGED <<bans, clock, req>>

-----------------------------------------------------------------------------
(* Joining.                                                                *)

Join(u, stage) == [op |-> stage, user |-> u, overtaken |-> FALSE]

(* invites/join: the server and its member count. *)
join(q, u) ==
    /\ server = "up"
    /\ Cardinality({v \in Users : IsMember(v)}) < max_members
    /\ Step(q, Join(u, "join_ban"))
    /\ UNCHANGED <<server, rec, bans, clock>>

(* join_official_server: no limit, and its own look at the record and the ban. *)
join_official_server(q, u) ==
    /\ server = "up" /\ ~ IsMember(u) /\ u \notin bans
    /\ Step(q, Join(u, "join_ban"))
    /\ UNCHANGED <<server, rec, bans, clock>>

(* BUG VARIANT: the ban is not looked up. *)
CreateWithoutBanCheck(q) ==
    /\ req[q].op = "join_ban"
    /\ Step(q, [req[q] EXCEPT !.op = "join_member"])
    /\ UNCHANGED <<server, rec, bans, clock>>

(* Member::create: fetch_ban.  Only a ban that is read refuses: a read that fails
   counts as no ban. *)
CreateCheckBan(q) ==
    /\ req[q].op = "join_ban"
    /\ \/ req[q].user \in bans /\ Step(q, Idle)
       \/ Step(q, IF req[q].user \in bans
                  THEN [req[q] EXCEPT !.op = "join_member", !.overtaken = TRUE]
                  ELSE [req[q] EXCEPT !.op = "join_member"])
    /\ UNCHANGED <<server, rec, bans, clock>>

(* Member::create: fetch_member.  A read that fails counts as no member. *)
CreateCheckMember(q) ==
    /\ req[q].op = "join_member"
    /\ \/ IsMember(req[q].user) /\ Step(q, Idle)
       \/ Step(q, [req[q] EXCEPT !.op = "join_find"])
    /\ UNCHANGED <<server, rec, bans, clock>>

(* insert_or_merge_member: is there a slated record? *)
FindSlated(q) ==
    /\ req[q].op = "join_find"
    /\ Step(q, [req[q] EXCEPT !.op = IF rec[req[q].user].pending_deletion_at # 0
                                     THEN "join_merge" ELSE "join_insert"])
    /\ UNCHANGED <<server, rec, bans, clock>>

(* The record is revived.  It may have been deleted meanwhile: then nothing is
   written, and the route still answers that the user has joined. *)
MergeMember(q) ==
    /\ req[q].op = "join_merge"
    /\ rec' = [rec EXCEPT ![req[q].user].pending_deletion_at = 0]
    /\ Step(q, Idle)
    /\ UNCHANGED <<server, bans, clock>>

(* insert_one fails if a record with this id exists, slated or not. *)
InsertMember(q) ==
    /\ req[q].op = "join_insert"
    /\ rec' = [rec EXCEPT ![req[q].user] = IF @.exists THEN @ ELSE NewRecord]
    /\ Step(q, Idle)
    /\ UNCHANGED <<server, bans, clock>>

-----------------------------------------------------------------------------
(* Leaving, kicking, banning.                                              *)

(* "at" is the end of the timeout, once it has been read. *)
Remove(u, why) == [op |-> "remove", user |-> u, why |-> why, at |-> 0, overtaken |-> FALSE]

(* servers/delete by a member who is not the owner. *)
leave(q, u) ==
    /\ server = "up" /\ u # Owner /\ IsMember(u)
    /\ Step(q, Remove(u, "leave"))
    /\ UNCHANGED <<server, rec, bans, clock>>

kick(q, u, t) ==
    /\ server = "up" /\ t # u /\ t # Owner
    /\ Moderates(u) /\ IsMember(t) /\ Outranks(u, t)
    /\ Step(q, Remove(t, "kick"))
    /\ UNCHANGED <<server, rec, bans, clock>>

ban(q, u, t) ==
    /\ server = "up" /\ t # u /\ t # Owner
    /\ Moderates(u)
    /\ IsMember(t) => Outranks(u, t)
    /\ Step(q, IF IsMember(t) THEN Remove(t, "ban") ELSE [op |-> "ban", user |-> t])
    /\ UNCHANGED <<server, rec, bans, clock>>

(* soft_delete_member: fetch_member, and an error if there is none. *)
SoftDeleteRead(q) ==
    /\ req[q].op = "remove"
    /\ LET u == req[q].user
       IN  Step(q, IF ~ IsMember(u) THEN Idle
                   ELSE IF in_timeout(u)
                   THEN [req[q] EXCEPT !.op = "slate", !.at = rec[u].timeout]
                   ELSE [req[q] EXCEPT !.op = "erase"])
    /\ UNCHANGED <<server, rec, bans, clock>>

(* A removal is over.  A ban goes on to take the user out of voice, which may
   fail and end the request, and to insert the ban. *)
Removed(q) ==
    \/ Step(q, Idle)
    \/ req[q].why = "ban" /\ Step(q, [op |-> "ban", user |-> req[q].user])

(* The record of a member in timeout stays until the timeout ends. *)
SlateMember(q) ==
    /\ req[q].op = "slate"
    /\ rec' = [rec EXCEPT ![req[q].user] =
                  IF @.exists
                  THEN [@ EXCEPT !.pending_deletion_at = req[q].at, !.moderator = FALSE]
                  ELSE @]
    /\ Removed(q)
    /\ UNCHANGED <<server, bans, clock>>

(* force_delete_member takes whatever record there is. *)
EraseMember(q) ==
    /\ req[q].op = "erase"
    /\ rec' = [rec EXCEPT ![req[q].user] = NoRecord]
    /\ Removed(q)
    /\ UNCHANGED <<server, bans, clock>>

(* ServerBan::create; a second ban of the same user fails. *)
InsertBan(q) ==
    /\ req[q].op = "ban"
    /\ bans' = bans \cup {req[q].user}
    /\ Overtake(q, {req[q].user}, Joining)
    /\ UNCHANGED <<server, rec, clock>>

(* The ban exists when it is read; delete_one of a ban that is gone is no error. *)
unban(q, u, t) ==
    /\ server = "up" /\ Moderates(u) /\ t \in bans
    /\ Step(q, [op |-> "unban", user |-> t])
    /\ UNCHANGED <<server, rec, bans, clock>>

DeleteBan(q) ==
    /\ req[q].op = "unban"
    /\ bans' = bans \ {req[q].user}
    /\ Step(q, Idle)
    /\ UNCHANGED <<server, rec, clock>>

-----------------------------------------------------------------------------
(* Member edits: a timeout, or the moderator role.                         *)

(* A timeout is refused for the caller and for those who could set one. *)
edit_timeout(q, u, t, until) ==
    /\ server = "up" /\ IsMember(t) /\ Moderates(u)
    /\ until # 0 => t # u /\ ~ Moderates(t)
    /\ t # u => Outranks(u, t)
    /\ Step(q, [op |-> "timeout", user |-> t, value |-> until])
    /\ UNCHANGED <<server, rec, bans, clock>>

(* AssignRoles: the owner's alone here. *)
edit_roles(q, t, given) ==
    /\ server = "up" /\ IsMember(t)
    /\ Step(q, [op |-> "roles", user |-> t, value |-> given])
    /\ UNCHANGED <<server, rec, bans, clock>>

(* Database::update_member takes the record as it is, slated or not. *)
update_member(q) ==
    LET t == req[q].user
        touch == \/ rec[t].touched
                 \/ rec[t].pending_deletion_at # 0
                 \/ \E p \in Requests : req[p].op \in Going /\ req[p].user = t
        edited == IF req[q].op = "timeout"
                  THEN [rec[t] EXCEPT !.timeout = req[q].value, !.touched = touch]
                  ELSE [rec[t] EXCEPT !.moderator = req[q].value, !.touched = touch]
    IN  /\ req[q].op \in {"timeout", "roles"}
        /\ rec' = [rec EXCEPT ![t] = IF rec[t].exists THEN edited ELSE rec[t]]
        /\ Overtake(q, {t}, Going)
        /\ UNCHANGED <<server, bans, clock>>

-----------------------------------------------------------------------------
(* Deleting the server, and crond.                                         *)

(* servers/delete by the owner, who has to be a member. *)
delete_server(q) ==
    /\ server = "up" /\ IsMember(Owner)
    /\ Step(q, [op |-> "delete_members"])
    /\ UNCHANGED <<server, rec, bans, clock>>

DeleteMembers(q) ==
    /\ req[q].op = "delete_members"
    /\ rec' = [u \in Users |-> NoRecord]
    /\ Step(q, [op |-> "delete_bans"])
    /\ UNCHANGED <<server, bans, clock>>

DeleteBans(q) ==
    /\ req[q].op = "delete_bans"
    /\ bans' = {}
    /\ Step(q, [op |-> "delete_server"])
    /\ UNCHANGED <<server, rec, clock>>

DeleteDocument(q) ==
    /\ req[q].op = "delete_server"
    /\ server' = "gone"
    /\ Overtake(q, Users, Joining \cup {"join_ban"})
    /\ UNCHANGED <<rec, bans, clock>>

(* One round of the task that deletes something. *)
remove_dangling_members ==
    /\ \E u \in Users : rec[u].pending_deletion_at \in 1 .. clock - 1
    /\ rec' = [u \in Users |-> IF rec[u].pending_deletion_at \in 1 .. clock - 1
                               THEN NoRecord ELSE rec[u]]
    /\ UNCHANGED <<server, bans, clock, req>>

Tick ==
    /\ clock < MaxTime
    /\ clock' = clock + 1
    /\ UNCHANGED <<server, rec, bans, req>>

Route(q) ==
    \/ \E u \in Users : join(q, u) \/ join_official_server(q, u) \/ leave(q, u)
    \/ \E u, t \in Users : kick(q, u, t) \/ ban(q, u, t) \/ unban(q, u, t)
    \/ \E u \in Users, t \in Users \ {Owner}, until \in {0} \cup (clock + 1 .. MaxTime - 1) :
          edit_timeout(q, u, t, until)
    \/ \E t \in Users \ {Owner}, given \in BOOLEAN : edit_roles(q, t, given)
    \/ delete_server(q)

Continue(q) ==
    \/ CreateCheckBan(q) \/ CreateCheckMember(q) \/ FindSlated(q)
    \/ MergeMember(q) \/ InsertMember(q)
    \/ SoftDeleteRead(q) \/ SlateMember(q) \/ EraseMember(q)
    \/ InsertBan(q) \/ DeleteBan(q) \/ update_member(q)
    \/ DeleteMembers(q) \/ DeleteBans(q) \/ DeleteDocument(q)

Next == \/ create_server
        \/ \E q \in Requests : req[q] = Idle /\ Route(q)
        \/ \E q \in Requests : Continue(q)
        \/ remove_dangling_members
        \/ Tick

(* No fairness: an error of one of crond's other tasks ends remove_dangling_members
   with them (try_join!). *)
Spec == Init /\ [][Next]_vars

-----------------------------------------------------------------------------
(* Properties.                                                             *)

Request ==
    {Idle, [op |-> "delete_members"], [op |-> "delete_bans"], [op |-> "delete_server"]}
    \cup [op : Joining \cup {"join_ban"}, user : Users, overtaken : BOOLEAN]
    \cup [op : Going \cup {"remove"}, user : Users, why : {"leave", "kick", "ban"},
          at : Timeouts, overtaken : BOOLEAN]
    \cup [op : {"ban", "unban"}, user : Users]
    \cup [op : {"timeout"}, user : Users, value : Timeouts]
    \cup [op : {"roles"}, user : Users, value : BOOLEAN]

(* Types.  Nobody who has no record keeps a timeout, a role or a slate, and a
   removal that slates a record has the end of a timeout to slate it at
   (soft_delete_member unwraps it). *)
TypeOK ==
    /\ server \in {"none", "up", "gone"}
    /\ rec \in [Users -> Record]
    /\ \A u \in Users : rec[u].exists \/ rec[u] = NoRecord
    /\ bans \subseteq Users
    /\ clock \in Time
    /\ req \in [Requests -> Request]
    /\ \A q \in Requests : req[q].op = "slate" => req[q].at # 0

Deleting == \E q \in Requests : req[q].op \in {"delete_members", "delete_bans", "delete_server"}

(* A server that is up and not being deleted has its owner as a member and has
   no ban of them, whatever kicks, bans, edits and prunings run (kick and
   ban_create refuse server.owner, server_delete turns their leave into a
   deletion). *)
OwnerStays ==
    server = "up" /\ ~ Deleting => IsMember(Owner) /\ Owner \notin bans

(* A banned user becomes a member only through a join whose look at the bans
   (Member::create, fetch_ban) came before the ban was inserted, or failed:
   `is_ok()` takes an error for the absence of a ban. *)
BanKeepsOut ==
    [][\A u \in Users :
          u \in bans /\ ~ IsMember(u) /\ IsMember(u)' =>
            \E q \in Requests : req[q].op \in Joining /\ req[q].user = u /\ req[q].overtaken]_vars

(* Going and coming back does not end a timeout (soft_delete_member,
   insert_or_merge_member; the test muted_member_rejoin).  A timeout ends when
   its time has come, when an edit changes it, or with the server; it can be
   lost otherwise only if an edit was written while its member was going. *)
TimeoutSurvives ==
    [][\A u \in Users :
          in_timeout(u) /\ ~ in_timeout(u)' =>
            \/ clock' # clock
            \/ Deleting
            \/ rec[u].touched
            \/ \E q \in Requests : req[q].op = "timeout" /\ req[q].user = u /\ req'[q] = Idle]_vars

(* Whoever comes back comes back without roles (soft_delete_member unsets them),
   unless an edit was written to the record while they were going. *)
RolesAreLost ==
    [][\A u \in Users :
          ~ IsMember(u) /\ IsMember(u)' => rec'[u].touched \/ ~ rec'[u].moderator]_vars

====
