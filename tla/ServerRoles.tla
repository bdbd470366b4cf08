---------------------------- MODULE ServerRoles ----------------------------
(***************************************************************************)
(* The roles of one server and the routes that change them: set and default *)
(* permissions, create, edit, delete and reorder roles, edit a member, and  *)
(* the two channel permission routes.                                      *)
(*                                                                         *)
(* A handler first reads the server and the caller's member record, checks  *)
(* the call against what it read, and then writes.  The reads and checks    *)
(* are one action; it leaves in req[q] what the handler is about to write.  *)
(* Each database write is an action of its own, so that other requests run  *)
(* between the check and the write, and between the three writes of         *)
(* delete_role.  A request that is refused changes nothing and is no step.  *)
(* The voice permissions that the routes refresh afterwards are not part    *)
(* of this module.                                                         *)
(***************************************************************************)
EXTENDS Integers, FiniteSets

(***************************************************************************)
(* The permission calculus of crates/core/permissions.  A PermissionValue   *)
(* is a bit set, here a set of named permissions; an Override allows some   *)
(* of them and denies others.                                              *)
(*                                                                         *)
(* A member's role overrides are collected out of a HashMap, sorted by      *)
(* descending rank and applied in that order.  The sort is stable, so roles *)
(* of equal rank stay in the map's iteration order, which is arbitrary; the *)
(* argument "tie" stands for it.  The loop is given in closed form: what    *)
(* the last override to mention a permission says of it.  MCServers         *)
(* keeps the loop itself and compares the two.                             *)
(***************************************************************************)
CONSTANT Permission           \* the bits of GrantAllSafe that matter

Override == [allow : SUBSET Permission, deny : SUBSET Permission]

NoOverride == [allow |-> {}, deny |-> {}]

GrantAllSafe == Permission

ALLOW_IN_TIMEOUT == Permission \cap {"ViewChannel", "ReadMessageHistory"}

(* PermissionValue::apply: allow, then revoke, so a denial wins inside one override. *)
apply(p, v) == (p \cup v.allow) \ v.deny

(* r is applied after s: the smaller rank is the higher role. *)
Above(rank, tie, r, s) ==
    rank[r] < rank[s] \/ (rank[r] = rank[s] /\ tie[r] < tie[s])

Mentions(v, x) == x \in v.allow \cup v.deny

(* Apply every override of "over" to p, from the lowest role to the highest. *)
ApplyAll(p, over, rank, tie) ==
    {x \in Permission :
        LET said == {r \in DOMAIN over : Mentions(over[r], x)}
        IN  \/ said = {} /\ x \in p
            \/ \E r \in said : /\ x \notin over[r].deny
                               /\ \A s \in said \ {r} : Above(rank, tie, r, s)}

(* BUG VARIANT: only the allows that are added are checked. *)
MayOverrideAllowsOnly(p, current, next) == next.allow \ current.allow \subseteq p

(* throw_permission_override lets the change pass: every allow added and every
   denial removed is among the permissions p of the caller. *)
MayOverride(p, current, next) ==
    /\ next.allow \ current.allow \subseteq p
    /\ current.deny \ next.deny \subseteq p

-----------------------------------------------------------------------------

CONSTANTS Users,            \* the members of the server
          Owner,            \* server.owner
          Privileged,       \* users with the privileged flag
          Roles,            \* role ids (ULIDs, never used twice)
          Channels,         \* the text channels of the server
          Requests,         \* calls of the routes, each served once
          Overrides,        \* the overrides that clients send
          DefaultValues,    \* the default permissions that clients send
          DataMemberEdit,   \* the member edits that clients send
          server_roles,     \* config limits.global.server_roles
          Ties,             \* iteration orders of the roles HashMap
          InitialServers,   \* the servers the requests arrive at
          Keep,             \* an Option field of a request that is None
          Clear             \* a field that the request names in `remove`

(* An entry of server.roles.  A "partial" one lacks fields that Role requires. *)
RoleDoc == [state : {"none", "partial", "whole"}, rank : Nat, permissions : Override]

NoRole == [state |-> "none", rank |-> 0, permissions |-> NoOverride]

Member == [roles : SUBSET Roles, timeout : BOOLEAN,
           can_publish : BOOLEAN, can_receive : BOOLEAN]

(* A role without an entry in role_permissions has the neutral override. *)
ChannelDoc == [default_permissions : Override, role_permissions : [Roles -> Override]]

Edits == [roles : {Keep} \cup SUBSET Roles, timeout : {Keep} \cup BOOLEAN,
          can_publish : {Keep, Clear} \cup BOOLEAN, can_receive : {Keep, Clear} \cup BOOLEAN]

ASSUME ServerAssumption ==
    /\ Owner \in Users /\ Privileged \subseteq Users
    /\ IsFiniteSet(Roles) /\ server_roles \in Nat /\ Channels # {}
    /\ \A tie \in Ties : /\ tie \in [Roles -> Nat]
                         /\ \A r, s \in Roles : tie[r] = tie[s] => r = s
    /\ Overrides \subseteq Override
    /\ DefaultValues \subseteq SUBSET Permission
    /\ DataMemberEdit \subseteq Edits
    /\ Keep \notin BOOLEAN /\ Clear \notin BOOLEAN /\ Clear # Keep /\ \A s \in SUBSET Roles : Keep # s
    /\ \A s \in InitialServers :
          /\ s.roles \in [Roles -> RoleDoc]
          /\ \A r \in Roles : s.roles[r].state = "whole" \/ s.roles[r] = NoRole
          /\ s.default_permissions \in SUBSET Permission
          /\ s.members \in [Users -> Member]
          /\ s.channels \in [Channels -> ChannelDoc]

VARIABLES roles,                 \* server.roles
          default_permissions,   \* server.default_permissions
          members,               \* server_members of this server
          channels,              \* channels of this server
          minted,                \* role ids taken so far
          req                    \* what each request is about to write

vars == <<roles, default_permissions, members, channels, minted, req>>

-----------------------------------------------------------------------------
(* Reading: the server document deserialises only if every role is whole.  *)

Known == {r \in Roles : roles[r].state # "none"}

Readable == \A r \in Known : roles[r].state = "whole"

ranks == [r \in Roles |-> roles[r].rank]

(* The roles of u that the server knows. *)
Own(u) == members[u].roles \cap Known

(* Owner and privileged callers are granted everything before their member
   record is fetched, so get_member_rank is None and i64::MIN is taken. *)
Elevated(u) == u = Owner \/ u \in Privileged

(* A rank that the caller's own ranking is strictly above: rank <= get_member_rank
   is refused.  A member without roles ranks i64::MAX and is above nothing. *)
Outranks(u, k) == Elevated(u) \/ \E s \in Own(u) : roles[s].rank < k

(* Member::get_ranking(target) > our ranking. *)
ActsOn(u, t) ==
    Elevated(u) \/ \E s \in Own(u) : \A r \in Own(t) : roles[s].rank < roles[r].rank

calculate_server_permissions(u, tie) ==
    LET base == ApplyAll(default_permissions,
                         [r \in Own(u) |-> roles[r].permissions], ranks, tie)
        live == base \ ((IF members[u].can_publish THEN {} ELSE {"Speak", "Video"})
                        \cup (IF members[u].can_receive THEN {} ELSE {"Listen"}))
    IN  IF Elevated(u) THEN GrantAllSafe
        ELSE IF members[u].timeout THEN live \cap ALLOW_IN_TIMEOUT ELSE live

calculate_channel_permissions(u, c, tie) ==
    LET base == ApplyAll(apply(calculate_server_permissions(u, tie),
                               channels[c].default_permissions),
                         [r \in Own(u) |-> channels[c].role_permissions[r]], ranks, tie)
        live == IF members[u].timeout THEN base \cap ALLOW_IN_TIMEOUT ELSE base
    IN  IF Elevated(u) THEN GrantAllSafe
        ELSE IF "ViewChannel" \in live THEN live ELSE {}

-----------------------------------------------------------------------------
(* Requests.  "fresh" holds while no other request has written since this   *)
(* one read; it is bookkeeping for the properties and guards nothing.       *)

Idle == [op |-> "idle"]

Done == [op |-> "done"]

Pending(q) == req[q] \notin {Idle, Done}

(* q goes on to next; whatever other requests have read is now out of date. *)
Wrote(q, next) ==
    req' = [p \in Requests |-> IF p = q THEN next
                              ELSE IF Pending(p) THEN [req[p] EXCEPT !.fresh = FALSE]
                              ELSE req[p]]

Init == /\ \E s \in InitialServers : /\ roles = s.roles
                                     /\ default_permissions = s.default_permissions
                                     /\ members = s.members
                                     /\ channels = s.channels
        /\ minted = Known
        /\ req = [q \in Requests |-> Idle]

(* The checks passed: the handler goes on to write. *)
Checked(q, r) ==
    /\ req' = [req EXCEPT ![q] = r]
    /\ UNCHANGED <<roles, default_permissions, members, channels>>

-----------------------------------------------------------------------------
(* The routes, up to their first write.                                    *)

set_role_permission(q, u, r, v, tie) ==
    LET p == calculate_server_permissions(u, tie)
    IN  /\ r \in Known
        /\ "ManagePermissions" \in p
        /\ Outranks(u, roles[r].rank)
        /\ MayOverride(p, roles[r].permissions, v)
        /\ Checked(q, [op |-> "role_permission", user |-> u, fresh |-> TRUE,
                       role |-> r, value |-> v, perms |-> p])
        /\ UNCHANGED minted

set_default_server_permissions(q, u, v, tie) ==
    LET p == calculate_server_permissions(u, tie)
    IN  /\ "ManagePermissions" \in p
        /\ v \subseteq p
        /\ Checked(q, [op |-> "default_permissions", user |-> u, fresh |-> TRUE,
                       value |-> v, perms |-> p])
        /\ UNCHANGED minted

(* The rank is the number of roles the handler read. *)
create_role(q, u, r, tie) ==
    /\ r \in Roles \ minted
    /\ "ManageRole" \in calculate_server_permissions(u, tie)
    /\ Cardinality(Known) < server_roles
    /\ Checked(q, [op |-> "create", user |-> u, fresh |-> TRUE, role |-> r,
                   rank |-> Cardinality(Known)])
    /\ minted' = minted \cup {r}

(* Editing a role changes its name, colour and hoist. *)
edit_role(q, u, r, tie) ==
    /\ r \in Known
    /\ "ManageRole" \in calculate_server_permissions(u, tie)
    /\ Outranks(u, roles[r].rank)
    /\ Checked(q, [op |-> "edit", user |-> u, fresh |-> TRUE, role |-> r])
    /\ UNCHANGED minted

delete_role(q, u, r, tie) ==
    /\ r \in Known
    /\ "ManageRole" \in calculate_server_permissions(u, tie)
    /\ Outranks(u, roles[r].rank)
    /\ Checked(q, [op |-> "delete_members", user |-> u, fresh |-> TRUE, role |-> r])
    /\ UNCHANGED minted

(* BUG VARIANT: the roles are listed from the lowest to the highest. *)
PositionFromBelow(r, tie) == Cardinality({s \in Known : Above(ranks, tie, r, s)})

(* Server::ordered_roles: how many roles come before r. *)
Position(r, tie) == Cardinality({s \in Known : Above(ranks, tie, s, r)})

(* The roles a caller may not move: those at or above their own ranking.  A
   privileged caller has no ranking here (None), and may move no role. *)
Fixed(u) ==
    {r \in Known :
        /\ u # Owner
        /\ u \in Privileged \/ ~ Outranks(u, roles[r].rank)}

(* "order" gives each role its index in the list the client sends, which has to
   name every role once. *)
edit_role_ranks(q, u, order, tie, sort) ==
    /\ order \in [Known -> 0 .. Cardinality(Known) - 1]
    /\ \A r, s \in Known : order[r] = order[s] => r = s
    /\ "ManageRole" \in calculate_server_permissions(u, tie)
    /\ \A r \in Fixed(u) : order[r] = Position(r, sort)
    /\ Checked(q, [op |-> "ranks", user |-> u, fresh |-> TRUE,
                   doc |-> [r \in Roles |-> IF r \in Known THEN [roles[r] EXCEPT !.rank = order[r]]
                                            ELSE NoRole]])
    /\ UNCHANGED minted

(* The roles added to t exist and are all below the caller; roles may be taken
   away without a check. *)
MayAssign(u, t, new) ==
    \A r \in new \ members[t].roles : r \in Known /\ Outranks(u, roles[r].rank)

(* A mute or a deafening is set under a permission; `remove` takes it away without. *)
edit_member(q, u, t, data, tie) ==
    LET p == calculate_server_permissions(u, tie)
    IN  /\ data.roles # Keep => "AssignRoles" \in p
        /\ data.timeout # Keep => "TimeoutMembers" \in p
        /\ data.timeout = TRUE =>
              t # u /\ "TimeoutMembers" \notin calculate_server_permissions(t, tie)
        /\ data.can_publish \in BOOLEAN => "MuteMembers" \in p
        /\ data.can_receive \in BOOLEAN => "DeafenMembers" \in p
        /\ t # u => ActsOn(u, t)
        /\ data.roles # Keep => MayAssign(u, t, data.roles)
        /\ Checked(q, [op |-> "member", user |-> u, fresh |-> TRUE,
                       target |-> t, data |-> data])
        /\ UNCHANGED minted

(* The channel route compares the new override with the role's override on the
   server, not with the one the channel has. *)
set_channel_role_permissions(q, u, c, r, v, tie) ==
    LET p == calculate_channel_permissions(u, c, tie)
    IN  /\ r \in Known
        /\ "ManagePermissions" \in p
        /\ Outranks(u, roles[r].rank)
        /\ MayOverride(p, roles[r].permissions, v)
        /\ Checked(q, [op |-> "channel_role", user |-> u, fresh |-> TRUE,
                       channel |-> c, role |-> r, value |-> v])
        /\ UNCHANGED minted

set_default_channel_permissions(q, u, c, v, tie) ==
    LET p == calculate_channel_permissions(u, c, tie)
    IN  /\ "ManagePermissions" \in p
        /\ MayOverride(p, channels[c].default_permissions, v)
        /\ Checked(q, [op |-> "channel_default", user |-> u, fresh |-> TRUE,
                       channel |-> c, value |-> v])
        /\ UNCHANGED minted

-----------------------------------------------------------------------------
(* The writes.                                                             *)

(* Database::update_role: a $set below roles.<id>.  When the role is gone the
   update creates an entry that has only the fields it sets. *)
update_role(r, v) ==
    roles' = [roles EXCEPT ![r] =
                IF r \in Known THEN [roles[r] EXCEPT !.permissions = v]
                ELSE [state |-> "partial", rank |-> 0, permissions |-> v]]

WriteRolePermission(q) ==
    /\ req[q].op = "role_permission"
    /\ update_role(req[q].role, req[q].value)
    /\ Wrote(q, Done)
    /\ UNCHANGED <<default_permissions, members, channels, minted>>

WriteEdit(q) ==
    /\ req[q].op = "edit"
    /\ update_role(req[q].role, roles[req[q].role].permissions)
    /\ Wrote(q, Done)
    /\ UNCHANGED <<default_permissions, members, channels, minted>>

WriteDefault(q) ==
    /\ req[q].op = "default_permissions"
    /\ default_permissions' = req[q].value
    /\ Wrote(q, Done)
    /\ UNCHANGED <<roles, members, channels, minted>>

insert_role(q) ==
    /\ req[q].op = "create"
    /\ roles' = [roles EXCEPT ![req[q].role] =
                    [state |-> "whole", rank |-> req[q].rank, permissions |-> NoOverride]]
    /\ Wrote(q, Done)
    /\ UNCHANGED <<default_permissions, members, channels, minted>>

(* Database::delete_role, first write: $pull from every member. *)
DeletePullMembers(q) ==
    /\ req[q].op = "delete_members"
    /\ members' = [u \in Users |-> [members[u] EXCEPT !.roles = @ \ {req[q].role}]]
    /\ Wrote(q, [req[q] EXCEPT !.op = "delete_channels"])
    /\ UNCHANGED <<roles, default_permissions, channels, minted>>

(* Second write: update_one takes the role out of one channel of the server. *)
DeleteUnsetChannel(q) ==
    /\ req[q].op = "delete_channels"
    /\ \E c \in Channels :
          channels' = [channels EXCEPT ![c].role_permissions[req[q].role] = NoOverride]
    /\ Wrote(q, [req[q] EXCEPT !.op = "delete_roles"])
    /\ UNCHANGED <<roles, default_permissions, members, minted>>

(* Third write: the role leaves the server document. *)
DeleteUnsetRole(q) ==
    /\ req[q].op = "delete_roles"
    /\ roles' = [roles EXCEPT ![req[q].role] = NoRole]
    /\ Wrote(q, Done)
    /\ UNCHANGED <<default_permissions, members, channels, minted>>

(* Server::set_role_ordering writes the whole map back as it was read. *)
set_role_ordering(q) ==
    /\ req[q].op = "ranks"
    /\ roles' = req[q].doc
    /\ Wrote(q, Done)
    /\ UNCHANGED <<default_permissions, members, channels, minted>>

Given(new, old) == IF new = Keep THEN old ELSE new

(* remove_field and the default of the field make what is removed true. *)
Flag(new, old) == IF new = Clear THEN TRUE ELSE Given(new, old)

update_member(q) ==
    /\ req[q].op = "member"
    /\ LET d == req[q].data
           m == members[req[q].target]
       IN  members' = [members EXCEPT ![req[q].target] =
              [roles |-> Given(d.roles, m.roles), timeout |-> Given(d.timeout, m.timeout),
               can_publish |-> Flag(d.can_publish, m.can_publish),
               can_receive |-> Flag(d.can_receive, m.can_receive)]]
    /\ Wrote(q, Done)
    /\ UNCHANGED <<roles, default_permissions, channels, minted>>

set_channel_role_permission(q) ==
    /\ req[q].op = "channel_role"
    /\ channels' = [channels EXCEPT ![req[q].channel].role_permissions[req[q].role] = req[q].value]
    /\ Wrote(q, Done)
    /\ UNCHANGED <<roles, default_permissions, members, minted>>

WriteChannelDefault(q) ==
    /\ req[q].op = "channel_default"
    /\ channels' = [channels EXCEPT ![req[q].channel].default_permissions = req[q].value]
    /\ Wrote(q, Done)
    /\ UNCHANGED <<roles, default_permissions, members, minted>>

(* A timeout lies in the past from some moment on. *)
TimeoutEnds(u) ==
    /\ members[u].timeout
    /\ members' = [members EXCEPT ![u].timeout = FALSE]
    /\ req' = [p \in Requests |-> IF Pending(p) THEN [req[p] EXCEPT !.fresh = FALSE] ELSE req[p]]
    /\ UNCHANGED <<roles, default_permissions, channels, minted>>

Route(q, u, tie) ==
    \/ \E r \in Roles : create_role(q, u, r, tie)
    \/ \E r \in Known : edit_role(q, u, r, tie)
    \/ \E r \in Known : delete_role(q, u, r, tie)
    \/ \E order \in [Known -> 0 .. Cardinality(Known) - 1], sort \in Ties :
          edit_role_ranks(q, u, order, tie, sort)
    \/ \E r \in Known, v \in Overrides : set_role_permission(q, u, r, v, tie)
    \/ \E v \in DefaultValues : set_default_server_permissions(q, u, v, tie)
    \/ \E t \in Users, data \in DataMemberEdit : edit_member(q, u, t, data, tie)
    \/ \E c \in Channels, r \in Known, v \in Overrides :
          set_channel_role_permissions(q, u, c, r, v, tie)
    \/ \E c \in Channels, v \in Overrides : set_default_channel_permissions(q, u, c, v, tie)

Write(q) ==
    \/ WriteRolePermission(q) \/ WriteEdit(q) \/ WriteDefault(q) \/ insert_role(q)
    \/ DeletePullMembers(q) \/ DeleteUnsetChannel(q) \/ DeleteUnsetRole(q)
    \/ set_role_ordering(q) \/ update_member(q)
    \/ set_channel_role_permission(q) \/ WriteChannelDefault(q)

Next == \/ \E q \in Requests : /\ req[q] = Idle /\ Readable
                               /\ \E u \in Users, tie \in Ties : Route(q, u, tie)
        \/ \E q \in Requests : Write(q)
        \/ \E u \in Users : TimeoutEnds(u)

Spec == Init /\ [][Next]_vars

-----------------------------------------------------------------------------
(* Properties.                                                             *)

Request ==
    {Idle, Done}
    \cup [op : {"role_permission"}, user : Users, fresh : BOOLEAN, role : Roles,
          value : Override, perms : SUBSET Permission]
    \cup [op : {"default_permissions"}, user : Users, fresh : BOOLEAN,
          value : SUBSET Permission, perms : SUBSET Permission]
    \cup [op : {"create"}, user : Users, fresh : BOOLEAN, role : Roles, rank : Nat]
    \cup [op : {"edit", "delete_members", "delete_channels", "delete_roles"},
          user : Users, fresh : BOOLEAN, role : Roles]
    \cup [op : {"ranks"}, user : Users, fresh : BOOLEAN, doc : [Roles -> RoleDoc]]
    \cup [op : {"member"}, user : Users, fresh : BOOLEAN, target : Users, data : Edits]
    \cup [op : {"channel_role"}, user : Users, fresh : BOOLEAN, channel : Channels,
          role : Roles, value : Override]
    \cup [op : {"channel_default"}, user : Users, fresh : BOOLEAN, channel : Channels,
          value : Override]

(* The documents and the requests in flight have the shapes of their Rust types. *)
TypeOK ==
    /\ roles \in [Roles -> RoleDoc]
    /\ default_permissions \in SUBSET Permission
    /\ members \in [Users -> Member]
    /\ channels \in [Channels -> ChannelDoc]
    /\ minted \in SUBSET Roles
    /\ req \in [Requests -> Request]

(* q makes its write in this step, and nothing was written since it read. *)
WritesFresh(q) == Pending(q) /\ req[q].fresh /\ req'[q].op # req[q].op

(* set_role_permission and set_default_server_permissions "Ensure we have access to
   grant these permissions forwards": whatever server permission any member gains
   by the write is one that the caller had, unless another write came in between. *)
GrantsAreHeld ==
    [][\A q \in Requests :
          WritesFresh(q) /\ req[q].op \in {"role_permission", "default_permissions"} =>
             \A u \in Users, tie \in Ties :
                calculate_server_permissions(u, tie)' \ calculate_server_permissions(u, tie)
                   \subseteq req[q].perms]_vars

(* edit_role_ranks: a caller who is not the owner can change neither the order of
   the roles at or above their own ranking, nor bring another role above one of them. *)
HierarchyKept ==
    [][\A q \in Requests :
          WritesFresh(q) /\ req[q].op = "ranks" =>
             \A r \in Fixed(req[q].user), s \in Known :
                roles[r].rank < roles[s].rank => roles'[r].rank < roles'[s].rank]_vars

(* No route lifts a member past the caller: after a write of theirs the caller still
   outranks everyone they outranked before, and a caller who edits their own roles
   ends up with none above the ones they had. *)
LiftsNobody ==
    [][\A q \in Requests, u \in Users :
          WritesFresh(q) /\ req[q].user = u /\ ~ Elevated(u) =>
             IF req[q].op = "member" /\ req[q].target = u
             THEN \A s \in Own(u)' : \E r \in Own(u) : roles[r].rank <= roles[s].rank
             ELSE \A t \in Users : ActsOn(u, t) => ActsOn(u, t)']_vars

\* Refuted by TLC (see the known divergences in README.md):
(* Role::create says "Rank of the new role should be below the lowest role". *)
NewRoleIsLowest ==
    [][\A q \in Requests :
          WritesFresh(q) /\ req[q].op = "create" =>
             \A s \in Known : roles[s].rank < req[q].rank]_vars

-----------------------------------------------------------------------------
(***************************************************************************)
(* BulkDatabasePermissionQuery: the second permission calculator, which the *)
(* mass mention consumer uses to find out which members of a chunk can see  *)
(* a channel.  It repeats the calculation of the core permissions crate for *)
(* many members at once, and leaves parts of it out.                        *)
(***************************************************************************)
(* Server permissions of a member; what voice overwrites revoke stays in. *)
BulkServerPermissions(u, tie) ==
    LET base == ApplyAll(default_permissions,
                         [r \in Own(u) |-> roles[r].permissions], ranks, tie)
    IN  IF Elevated(u) THEN GrantAllSafe
        ELSE IF members[u].timeout THEN base \cap ALLOW_IN_TIMEOUT ELSE base

(* The overrides a channel has for the roles of a member. *)
BulkChannelOverrides(u, c) == [r \in Own(u) |-> channels[c].role_permissions[r]]

\* BUG VARIANT: the channel's default is applied after the overrides of the roles.
BulkDefaultLast(asked, found, c, tie) ==
    [u \in asked |->
        IF u \notin found THEN {}
        ELSE IF Elevated(u) THEN GrantAllSafe
        ELSE apply(ApplyAll(BulkServerPermissions(u, tie), BulkChannelOverrides(u, c), ranks, tie),
                   channels[c].default_permissions)]

(* The permissions in channel c of the users asked about, of whom those     *)
(* found are members.                                                       *)
calculate_members_permissions(asked, found, c, tie) ==
    [u \in asked |->
        IF u \notin found THEN {}
        ELSE IF Elevated(u) THEN GrantAllSafe
        ELSE ApplyAll(apply(BulkServerPermissions(u, tie), channels[c].default_permissions),
                      BulkChannelOverrides(u, c), ranks, tie)]

members_can_see_channel(asked, found, c, tie) ==
    LET resp == calculate_members_permissions(asked, found, c, tie)
    IN  {u \in asked : "ViewChannel" \in resp[u]}

-----------------------------------------------------------------------------
(* Whatever roles, overrides, timeouts and voice overwrites the routes have *)
(* left: the bulk calculator shows a channel to exactly the members the     *)
(* calculator of the routes shows it to, and gives a member who is neither  *)
(* timed out nor muted nor deafened the same permissions there.             *)
BulkAgrees ==
    \A c \in Channels, tie \in Ties :
        LET single(u) == calculate_channel_permissions(u, c, tie)
            bulk == calculate_members_permissions(Users, Users, c, tie)
        IN  /\ members_can_see_channel(Users, Users, c, tie)
                 = {u \in Users : "ViewChannel" \in single(u)}
            /\ \A u \in Users :
                 (/\ ~members[u].timeout /\ members[u].can_publish /\ members[u].can_receive
                  /\ "ViewChannel" \in bulk[u]) => bulk[u] = single(u)
=============================================================================
